----------------------------- MODULE ServerProofs -----------------------------
(***************************************************************************)
(* Proofs about components of the homeserver that keep rows and objects:    *)
(* signups, changes and listings of accounts, the repair of misnamed        *)
(* objects, rate limits, reads of files beside their writes, grants and     *)
(* proofs of possession, homeservers that start on one database, and        *)
(* requests for events.                                                     *)
(***************************************************************************)
EXTENDS Signup, Accounts, NameRepair, RateLimits, TenantFiles, GrantChecks, Startup, EventRequests,
        SumTheorems, SequenceTheorems, TLAPS

-----------------------------------------------------------------------------
(* Signups: a code makes one user, for any number of signups, keys and codes. *)
(* Neither property is inductive without RowsReserved, what open transactions *)
(* have written.                                                              *)

IInv == SgTypeOK /\ RowsReserved /\ CodeMakesOneUser /\ CreatedOnce

(***************************************************************************)
(* A homeserver starts without users and with unused codes.                *)
(***************************************************************************)
LEMMA InitIInv == SgInit => IInv
  <1> SUFFICES ASSUME SgInit PROVE IInv
    OBVIOUS
  <1>1. SgTypeOK
    BY DEF SgInit, SgTypeOK, CodeQuotas, NoUser
  <1>2. RowsReserved
    BY DEF SgInit, RowsReserved, HasMarked, HasInserted
  <1>3. CodeMakesOneUser
    BY SignupAssumption DEF SgInit, CodeMakesOneUser, NoUser
  <1>4. CreatedOnce
    BY DEF SgInit, CreatedOnce
  <1> QED
    BY <1>1, <1>2, <1>3, <1>4 DEF IInv

(***************************************************************************)
(* A step that goes to another statement of signup s, without a reply.     *)
(***************************************************************************)
LEMMA GotoType ==
    ASSUME SgTypeOK, NEW s \in Signups, NEW step \in {"code", "mark", "insert", "commit"},
           SignupGoto(s, step), UNCHANGED <<sgIssued, usedBy, users, given>>
    PROVE  SgTypeOK'
  BY DEF SgTypeOK, SignupGoto, given

(***************************************************************************)
(* A signup that ends without an account changes no row.                   *)
(***************************************************************************)
LEMMA RefusedKeepsIInv ==
    ASSUME IInv, NEW s \in Signups, sgPc[s] # "done",
           NEW r \in {"exists", "required", "invalid", "used", "error"},
           EndSignup(s, r), UNCHANGED <<sgIssued, usedBy, users, given>>
    PROVE  IInv'
  <1>1. SgTypeOK'
    BY DEF IInv, SgTypeOK, EndSignup, given
  <1>2. \A t \in Signups : /\ sgPc'[t] = IF t = s THEN "done" ELSE sgPc[t]
                           /\ sgReply'[t] = IF t = s THEN r ELSE sgReply[t]
    BY DEF IInv, SgTypeOK, EndSignup
  <1>3. RowsReserved'
    BY <1>2 DEF IInv, RowsReserved, HasMarked, HasInserted, given
  <1>4. CodeMakesOneUser'
    BY DEF IInv, CodeMakesOneUser, given
  <1>5. CreatedOnce'
    BY <1>2 DEF IInv, CreatedOnce, QuotaOf, given
  <1> QED
    BY <1>1, <1>3, <1>4, <1>5 DEF IInv

(***************************************************************************)
(* A statement that only takes signup s further keeps the replies.         *)
(***************************************************************************)
LEMMA GotoReplies ==
    ASSUME IInv, NEW s \in Signups, NEW step, SignupGoto(s, step),
           UNCHANGED <<sgIssued, usedBy, users, given>>
    PROVE  CodeMakesOneUser' /\ CreatedOnce'
  <1>1. CodeMakesOneUser'
    BY DEF IInv, CodeMakesOneUser, given
  <1>2. CreatedOnce'
    BY DEF IInv, CreatedOnce, QuotaOf, SignupGoto, given
  <1> QED
    BY <1>1, <1>2

(***************************************************************************)
(* Every statement of a signup, and its failure, keeps the invariant.      *)
(***************************************************************************)
LEMMA StepIInv == ASSUME IInv, [SgNext]_sgVars PROVE IInv'
  <1>a. ASSUME NEW c \in Codes, Generate(c) PROVE IInv'
    BY <1>a DEF IInv, SgTypeOK, RowsReserved, CodeMakesOneUser, CreatedOnce,
                Generate, given, HasMarked, HasInserted, QuotaOf
  <1>b. ASSUME NEW s \in Signups, NEW step \in {"code", "mark", "insert", "commit"},
               sgPc[s] # "done", SignupGoto(s, step),
               UNCHANGED <<sgIssued, usedBy, users, given>>, RowsReserved'
        PROVE  IInv'
    BY <1>b, GotoType, GotoReplies DEF IInv
  <1>c. ASSUME NEW s \in Signups, NEW step, SignupGoto(s, step)
        PROVE  /\ \A t \in Signups : sgPc'[t] = IF t = s THEN step ELSE sgPc[t]
               /\ sgReply' = sgReply
    BY <1>c DEF IInv, SgTypeOK, SignupGoto
  <1>1. ASSUME NEW s \in Signups, CheckUser(s) PROVE IInv'
    <2>1. UNCHANGED <<sgIssued, usedBy, users, given>> /\ sgPc[s] = "check"
      BY <1>1 DEF CheckUser
    <2>2. CASE EndSignup(s, "exists") \/ EndSignup(s, "required")
      BY <2>1, <2>2, RefusedKeepsIInv
    <2>3. CASE ~tokenRequired /\ SignupGoto(s, "insert")
      <3>1. RowsReserved'
        BY <2>1, <2>3, <1>c DEF IInv, RowsReserved, HasMarked, HasInserted, given
      <3> QED
        BY <3>1, <2>1, <2>3, <1>b
    <2>4. CASE tokenRequired /\ code[s] # None /\ SignupGoto(s, "code")
      <3>1. RowsReserved'
        BY <2>1, <2>4, <1>c DEF IInv, RowsReserved, HasMarked, HasInserted, given
      <3> QED
        BY <3>1, <2>1, <2>4, <1>b
    <2> QED
      BY <1>1, <2>2, <2>3, <2>4 DEF CheckUser
  <1>2. ASSUME NEW s \in Signups, GetCode(s) PROVE IInv'
    <2>1. UNCHANGED <<sgIssued, usedBy, users, given>> /\ sgPc[s] = "code"
      BY <1>2 DEF GetCode
    <2>2. CASE EndSignup(s, "invalid") \/ EndSignup(s, "used")
      BY <2>1, <2>2, RefusedKeepsIInv
    <2>3. CASE SignupGoto(s, "mark")
      <3>1. RowsReserved'
        BY <2>1, <2>3, <1>c DEF IInv, RowsReserved, HasMarked, HasInserted, given
      <3> QED
        BY <3>1, <2>1, <2>3, <1>b
    <2> QED
      BY <1>2, <2>2, <2>3 DEF GetCode
  <1>3. ASSUME NEW s \in Signups, MarkAsUsed(s) PROVE IInv'
    <2>1. UNCHANGED <<sgIssued, usedBy, users, given>> /\ sgPc[s] = "mark"
      BY <1>3 DEF MarkAsUsed
    <2>2. CASE EndSignup(s, "error")
      BY <2>1, <2>2, RefusedKeepsIInv
    <2>3. CASE Unused(code[s]) /\ SignupGoto(s, "insert")
      <3>1. \A t \in Signups : HasMarked(t) => code[t] # code[s]
        BY <1>3 DEF MarkAsUsed, CodeRowFree
      <3>2. RowsReserved'
        BY <2>1, <2>3, <3>1, <1>c
           DEF IInv, RowsReserved, HasMarked, HasInserted, Unused, given
      <3> QED
        BY <3>2, <2>1, <2>3, <1>b
    <2> QED
      BY <1>3, <2>2, <2>3 DEF MarkAsUsed
  <1>4. ASSUME NEW s \in Signups, InsertUser(s) PROVE IInv'
    <2>1. UNCHANGED <<sgIssued, usedBy, users, given>> /\ sgPc[s] = "insert"
      BY <1>4 DEF InsertUser
    <2>2. CASE EndSignup(s, "error")
      BY <2>1, <2>2, RefusedKeepsIInv
    <2>3. CASE users[key[s]] = NoUser /\ SignupGoto(s, "commit")
      <3>1. \A t \in Signups : HasInserted(t) => key[t] # key[s]
        BY <1>4 DEF InsertUser, UserKeyFree
      <3>2. RowsReserved'
        BY <2>1, <2>3, <3>1, <1>c DEF IInv, RowsReserved, HasMarked, HasInserted, given
      <3> QED
        BY <3>2, <2>1, <2>3, <1>b
    <2> QED
      BY <1>4, <2>2, <2>3 DEF InsertUser
  <1>5. ASSUME NEW s \in Signups, Commit(s) PROVE IInv'
    <2>1. /\ sgPc[s] = "commit" /\ key[s] \in Keys
          /\ users[key[s]] = NoUser
          /\ UNCHANGED <<tokenRequired, key, code, sgIssued>>
      BY <1>5 DEF Commit, IInv, SgTypeOK, RowsReserved, HasInserted, given
    <2>2. \A t \in Signups : /\ sgPc'[t] = IF t = s THEN "done" ELSE sgPc[t]
                             /\ sgReply'[t] = IF t = s THEN "created" ELSE sgReply[t]
      BY <1>5 DEF IInv, SgTypeOK, Commit, EndSignup
    <2>3. \A k \in Keys : users'[k] = IF k = key[s] THEN QuotaOf(s) ELSE users[k]
      BY <1>5, <2>1 DEF IInv, SgTypeOK, Commit
    <2>4. tokenRequired => /\ code[s] \in Codes /\ usedBy[code[s]] = None
                           /\ \A c \in Codes : usedBy'[c] = IF c = code[s] THEN key[s]
                                                            ELSE usedBy[c]
      BY <1>5, <2>1 DEF IInv, SgTypeOK, RowsReserved, HasMarked, Commit
    <2>5. ~tokenRequired => usedBy' = usedBy
      BY <1>5 DEF Commit
    <2>6. QuotaOf(s) \in CodeQuotas /\ QuotaOf(s) # NoUser
      BY <2>4, SignupAssumption DEF QuotaOf, CodeQuotas, NoUser
    <2>7. SgTypeOK'
      BY <1>5, <2>1, <2>4, <2>6 DEF IInv, SgTypeOK, Commit, EndSignup, given
    <2>8. RowsReserved'
      <3>1. \A t \in Signups : t # s /\ HasMarked(t) =>
               code[t] \in Codes /\ (tokenRequired => code[t] # code[s])
        BY <2>1 DEF IInv, SgTypeOK, RowsReserved, HasMarked
      <3>2. \A t \in Signups : t # s /\ HasInserted(t) =>
               key[t] \in Keys /\ key[t] # key[s]
        BY <2>1 DEF IInv, SgTypeOK, RowsReserved, HasInserted
      <3>3. \A t \in Signups : HasMarked(t)' => t # s /\ HasMarked(t)
        BY <2>1, <2>2 DEF HasMarked
      <3>4. \A t \in Signups : HasInserted(t)' => t # s /\ HasInserted(t)
        BY <2>1, <2>2 DEF HasInserted
      <3>5. (\A t \in Signups : HasMarked(t) => usedBy[code[t]] = None)'
        BY <2>1, <2>4, <2>5, <3>1, <3>3 DEF IInv, RowsReserved
      <3>6. (\A t \in Signups : HasInserted(t) => users[key[t]] = NoUser)'
        BY <2>1, <2>3, <3>2, <3>4 DEF IInv, RowsReserved
      <3>7. (\A t \in Signups : sgReply[t] = "created"
                => sgPc[t] = "done" /\ users[key[t]] # NoUser)'
        BY <2>1, <2>2, <2>3, <2>6 DEF IInv, SgTypeOK, RowsReserved
      <3> QED
        BY <2>1, <2>2, <3>3, <3>4, <3>5, <3>6, <3>7 DEF IInv, RowsReserved
    <2>9. CodeMakesOneUser'
      BY <2>1, <2>3, <2>4, <2>6, SignupAssumption
         DEF IInv, SgTypeOK, CodeMakesOneUser, QuotaOf, NoUser
    <2>10. CreatedOnce'
      <3>1. \A t \in Signups : QuotaOf(t)' = QuotaOf(t)
        BY <2>1 DEF QuotaOf
      <3>2. \A t \in Signups : sgReply[t] = "created" => key[t] \in Keys /\ key[t] # key[s]
        BY <2>1 DEF IInv, SgTypeOK, RowsReserved
      <3> QED
        BY <2>1, <2>2, <2>3, <3>1, <3>2 DEF IInv, CreatedOnce
    <2> QED
      BY <2>7, <2>8, <2>9, <2>10 DEF IInv
  <1>6. ASSUME NEW s \in Signups, Fail(s) PROVE IInv'
    BY <1>6, RefusedKeepsIInv DEF Fail, Rollback
  <1>7. CASE UNCHANGED sgVars
    BY <1>7 DEF IInv, SgTypeOK, RowsReserved, CodeMakesOneUser, CreatedOnce, sgVars,
                HasMarked, HasInserted, QuotaOf
  <1> QED
    BY <1>a, <1>1, <1>2, <1>3, <1>4, <1>5, <1>6, <1>7 DEF SgNext, SignupStep

(***************************************************************************)
(* Signup codes, users and signups have their types in every state.        *)
(***************************************************************************)
THEOREM TypeCorrect == SgSpec => []SgTypeOK
  <1>1. IInv => SgTypeOK
    BY DEF IInv
  <1> QED
    BY InitIInv, StepIInv, <1>1, PTL DEF SgSpec

(***************************************************************************)
(* A code makes one user and is spent on no other, for any number of       *)
(* signups that race for codes and keys (validate_and_consume_signup_token *)
(* and create_user_in_tx).                                                 *)
(***************************************************************************)
THEOREM OneUserPerCode == SgSpec => []CodeMakesOneUser
  <1>1. IInv => CodeMakesOneUser
    BY DEF IInv
  <1> QED
    BY InitIInv, StepIInv, <1>1, PTL DEF SgSpec

(***************************************************************************)
(* A signup answered "created" is the only one of its key, and the account *)
(* has the quota of its code.                                              *)
(***************************************************************************)
THEOREM OneAccountPerKey == SgSpec => []CreatedOnce
  <1>1. IInv => CreatedOnce
    BY DEF IInv
  <1> QED
    BY InitIInv, StepIInv, <1>1, PTL DEF SgSpec

(***************************************************************************)
(* Both together: what signups that share codes and keys get.              *)
(***************************************************************************)
THEOREM SignupsAreSound == SgSpec => []SignupsSound
  <1>1. CodeMakesOneUser /\ CreatedOnce => SignupsSound
    BY DEF SignupsSound
  <1> QED
    BY OneUserPerCode, OneAccountPerKey, <1>1, PTL

-----------------------------------------------------------------------------
(* Changes of accounts.                                                      *)

\* A change holds what its row becomes, alone: nobody else changes the row.
OpInv(s) ==
    adOp[s] # None /\ adOp[s].kind = "change" =>
      /\ adOp[s].id \in 1..Len(adUser)
      /\ adOp[s].entity = Applied(adOp[s].change, adUser[adOp[s].id])
      /\ \A t \in AdSlots \ {s} : adOp[t] # None => adOp[t].id # adOp[s].id

AdInv ==
    /\ adUser \in Seq(UserRow) /\ adMeant = adUser /\ adClock \in Nat
    /\ adOp \in [AdSlots -> Creation \cup Change \cup {None}]
    /\ \A s \in AdSlots : OpInv(s)

\* What a change makes of a row is written back whole, though it writes some columns.
LEMMA AppliedIsWritten ==
    ASSUME NEW row \in UserRow, NEW change \in AdChanges
    PROVE  /\ Applied(change, row) \in UserRow
           /\ Written(change, Applied(change, row), row) = Applied(change, row)
<1>1. CASE change \in [kind : {"disable"}, to : BOOLEAN]
  <2>1. change.kind = "disable" /\ change.to \in BOOLEAN
    BY <1>1
  <2>2. Applied(change, row) = [row EXCEPT !.disabled = change.to]
    BY <2>1 DEF Applied
  <2> QED BY <2>1, <2>2 DEF Written, UserRow
<1>2. CASE change \in [kind : {"write"}, by : AdBytes]
  <2>1. change.kind = "write" /\ change.by \in Nat
    BY <1>2, AccountsAssumption
  <2>2. Applied(change, row) = [row EXCEPT !.used = row.used + change.by]
    BY <2>1 DEF Applied
  <2>3. row.used + change.by \in Nat
    BY <2>1 DEF UserRow
  <2> QED BY <2>1, <2>2, <2>3 DEF Written, UserRow
<1>3. CASE change \in [kind : {"quota"}, to : AdQuotas]
  <2>1. change.kind = "quota" /\ change.to \in AdQuotas
    BY <1>3
  <2>2. Applied(change, row) = [row EXCEPT !.quota = change.to]
    BY <2>1 DEF Applied
  <2> QED BY <2>1, <2>2 DEF Written, UserRow
<1> QED BY <1>1, <1>2, <1>3 DEF AdChanges

\* A transaction that ends leaves the others alone.
LEMMA SlotFreed ==
    ASSUME AdInv, NEW s \in AdSlots, adOp' = [adOp EXCEPT ![s] = None],
           Len(adUser') >= Len(adUser), Len(adUser') \in Nat,
           \A t \in AdSlots \ {s} : adOp[t] # None /\ adOp[t].kind = "change" =>
             adUser'[adOp[t].id] = adUser[adOp[t].id]
    PROVE  (adOp \in [AdSlots -> Creation \cup Change \cup {None}])' /\ \A t \in AdSlots : OpInv(t)'
<1>1. adOp'[s] = None /\ \A t \in AdSlots : t # s => adOp'[t] = adOp[t]
  BY DEF AdInv
<1>2. Len(adUser) \in Nat
  BY DEF AdInv
<1>3. ASSUME NEW t \in AdSlots, t # s, adOp[t] # None, adOp[t].kind = "change"
      PROVE  OpInv(t)'
  <2>1. /\ adOp[t].id \in 1..Len(adUser)
        /\ adOp[t].entity = Applied(adOp[t].change, adUser[adOp[t].id])
        /\ \A q \in AdSlots \ {t} : adOp[q] # None => adOp[q].id # adOp[t].id
    BY <1>3 DEF AdInv, OpInv
  <2>2. adOp[t].id \in 1..Len(adUser') /\ adUser'[adOp[t].id] = adUser[adOp[t].id]
    BY <1>2, <1>3, <2>1
  <2>3. adOp[t].entity = Applied(adOp[t].change, adUser'[adOp[t].id])
    BY <2>1, <2>2
  <2> QED BY <1>1, <1>3, <2>1, <2>2, <2>3 DEF OpInv
<1> QED BY <1>1, <1>3 DEF AdInv, OpInv

LEMMA BeginUserStep ==
    ASSUME AdInv, NEW s \in AdSlots, BeginUser(s) PROVE AdInv'
<1> DEFINE op == [kind |-> "create", id |-> 0, at |-> adClock]
<1>1. /\ adOp' = [adOp EXCEPT ![s] = op] /\ adClock' = adClock + 1 /\ adOp[s] = None
      /\ UNCHANGED <<adUser, adMeant>>
  BY DEF BeginUser
<1>2. op \in Creation /\ op.kind = "create" /\ op.id = 0
  BY DEF AdInv, Creation
<1> HIDE DEF op
<1>3. adOp'[s] = op /\ \A t \in AdSlots : t # s => adOp'[t] = adOp[t]
  BY <1>1 DEF AdInv
<1>4. ASSUME NEW t \in AdSlots PROVE OpInv(t)'
  <2>1. CASE t = s
    BY <1>2, <1>3, <2>1 DEF OpInv
  <2>2. CASE t # s
    <3> SUFFICES ASSUME adOp[t] # None, adOp[t].kind = "change" PROVE OpInv(t)'
      BY <1>3, <2>2 DEF OpInv
    <3>1. /\ adOp[t].id \in 1..Len(adUser)
          /\ adOp[t].entity = Applied(adOp[t].change, adUser[adOp[t].id])
          /\ \A q \in AdSlots \ {t} : adOp[q] # None => adOp[q].id # adOp[t].id
      BY DEF AdInv, OpInv
    <3>2. adOp[t].id # 0
      BY <3>1
    <3> QED BY <1>1, <1>2, <1>3, <2>2, <3>1, <3>2 DEF OpInv
  <2> QED BY <2>1, <2>2
<1> QED BY <1>1, <1>2, <1>4 DEF AdInv

LEMMA CommitUserStep ==
    ASSUME AdInv, NEW s \in AdSlots, CommitUser(s) PROVE AdInv'
<1> DEFINE row == NewUserRow(adOp[s].at)
<1>1. /\ adOp[s] # None /\ adOp[s].kind = "create" /\ adUser' = Append(adUser, row)
      /\ adMeant' = Append(adMeant, row) /\ adOp' = [adOp EXCEPT ![s] = None] /\ adClock' = adClock
  BY DEF CommitUser
<1>2. adOp[s] \in Creation
  BY <1>1 DEF AdInv, Change
<1>3. row \in UserRow
  BY <1>2 DEF Creation, NewUserRow, UserRow
<1> HIDE DEF row
<1>4. /\ adUser' \in Seq(UserRow) /\ Len(adUser') = Len(adUser) + 1 /\ Len(adUser) \in Nat
      /\ \A i \in 1..Len(adUser) : adUser'[i] = adUser[i]
  BY <1>1, <1>3 DEF AdInv
<1>5. \A t \in AdSlots \ {s} : adOp[t] # None /\ adOp[t].kind = "change" =>
         adUser'[adOp[t].id] = adUser[adOp[t].id]
  BY <1>4 DEF AdInv, OpInv
<1>6. Len(adUser') >= Len(adUser) /\ Len(adUser') \in Nat
  BY <1>4
<1>7. adMeant' = adUser'
  BY <1>1 DEF AdInv
<1> QED BY <1>1, <1>4, <1>5, <1>6, <1>7, SlotFreed DEF AdInv

LEMMA LockUserStep ==
    ASSUME AdInv, NEW s \in AdSlots, NEW u \in DOMAIN adUser, NEW change \in AdChanges,
           NEW p \in AdPasswords, LockUser(s, u, change, p)
    PROVE  AdInv'
<1> DEFINE entity == Applied(change, adUser[u])
           op == [kind |-> "change", id |-> u, change |-> change, entity |-> entity]
<1>1. /\ adOp' = [adOp EXCEPT ![s] = op] /\ adOp[s] = None /\ Unlocked(u)
      /\ UNCHANGED <<adUser, adMeant, adClock>>
  BY DEF LockUser
<1>2. u \in 1..Len(adUser) /\ adUser[u] \in UserRow /\ u \in Nat \ {0}
  BY DEF AdInv
<1>3. entity \in UserRow
  BY <1>2, AppliedIsWritten
<1>4. entity = Applied(change, adUser[u])
  OBVIOUS
<1> HIDE DEF entity
<1>5. op \in Change /\ op.kind = "change" /\ op.id = u /\ op.change = change /\ op.entity = entity
  BY <1>2, <1>3 DEF Change
<1> HIDE DEF op
<1>6. adOp'[s] = op /\ \A t \in AdSlots : t # s => adOp'[t] = adOp[t]
  BY <1>1 DEF AdInv
<1>7. ASSUME NEW t \in AdSlots PROVE OpInv(t)'
  <2>1. CASE t = s
    <3>1. \A q \in AdSlots \ {s} : adOp'[q] # None => adOp'[q].id # u
      BY <1>1, <1>6 DEF Unlocked
    <3> QED BY <1>1, <1>2, <1>4, <1>5, <1>6, <2>1, <3>1 DEF OpInv
  <2>2. CASE t # s
    <3> SUFFICES ASSUME adOp[t] # None, adOp[t].kind = "change" PROVE OpInv(t)'
      BY <1>6, <2>2 DEF OpInv
    <3>1. /\ adOp[t].id \in 1..Len(adUser)
          /\ adOp[t].entity = Applied(adOp[t].change, adUser[adOp[t].id])
          /\ \A q \in AdSlots \ {t} : adOp[q] # None => adOp[q].id # adOp[t].id
      BY DEF AdInv, OpInv
    <3>2. adOp[t].id # u
      BY <1>1 DEF Unlocked
    <3> QED BY <1>1, <1>5, <1>6, <2>2, <3>1, <3>2 DEF OpInv
  <2> QED BY <2>1, <2>2
<1> QED BY <1>1, <1>5, <1>7 DEF AdInv

LEMMA UpdateUserStep ==
    ASSUME AdInv, NEW s \in AdSlots, UpdateUser(s) PROVE AdInv'
<1> DEFINE op == adOp[s]
           row == adUser[op.id]
           done == Applied(op.change, row)
<1>1. /\ op # None /\ op.kind = "change" /\ adOp' = [adOp EXCEPT ![s] = None]
      /\ adUser' = [adUser EXCEPT ![op.id] = Written(op.change, op.entity, row)]
      /\ adMeant' = [adMeant EXCEPT ![op.id] = Applied(op.change, adMeant[op.id])]
      /\ adClock' = adClock
  BY DEF UpdateUser
<1>2. op \in Change
  BY <1>1 DEF AdInv, Creation
<1>3. op.id \in 1..Len(adUser) /\ op.entity = done /\ op.change \in AdChanges
  BY <1>1, <1>2 DEF AdInv, OpInv, Change
<1>4. row \in UserRow
  BY <1>3 DEF AdInv
<1>5. done \in UserRow /\ Written(op.change, done, row) = done
  BY <1>3, <1>4, AppliedIsWritten
<1>6. adMeant = adUser /\ adUser \in Seq(UserRow) /\ Len(adUser) \in Nat
  BY DEF AdInv
<1>7. adUser' = [adUser EXCEPT ![op.id] = done] /\ adMeant' = [adUser EXCEPT ![op.id] = done]
  BY <1>1, <1>3, <1>5, <1>6
<1> HIDE DEF done, row
<1>8. /\ adUser' \in Seq(UserRow) /\ Len(adUser') = Len(adUser)
      /\ \A i \in 1..Len(adUser) : i # op.id => adUser'[i] = adUser[i]
  BY <1>3, <1>5, <1>6, <1>7
<1>9. \A t \in AdSlots \ {s} : adOp[t] # None /\ adOp[t].kind = "change" =>
         adOp[t].id \in 1..Len(adUser) /\ adOp[t].id # op.id
  BY <1>1 DEF AdInv, OpInv
<1> HIDE DEF op
<1>10. Len(adUser') >= Len(adUser) /\ Len(adUser') \in Nat
  BY <1>6, <1>8
<1>11. (adOp \in [AdSlots -> Creation \cup Change \cup {None}])' /\ \A t \in AdSlots : OpInv(t)'
  BY <1>1, <1>8, <1>9, <1>10, SlotFreed
<1> QED BY <1>1, <1>6, <1>7, <1>8, <1>11 DEF AdInv

\* Rows begin as they are meant.
LEMMA AdBegins == AdInit => AdInv
  <1> SUFFICES ASSUME AdInit PROVE AdInv
    OBVIOUS
  <1>1. NewUserRow(0) \in UserRow
    BY DEF NewUserRow, UserRow
  <1>2. adUser \in Seq(UserRow)
    BY <1>1, AccountsAssumption DEF AdInit
  <1> QED BY <1>2 DEF AdInit, AdInv, OpInv

\* Every step keeps what is meant.
LEMMA AdStep == AdInv /\ [AdNext]_adVars => AdInv'
  <1> SUFFICES ASSUME AdInv, [AdNext]_adVars PROVE AdInv'
    OBVIOUS
  <1>1. ASSUME UNCHANGED <<adUser, adMeant, adOp, adClock>> PROVE AdInv'
    BY <1>1 DEF AdInv, OpInv
  <1>2. CASE UNCHANGED adVars
    BY <1>1, <1>2 DEF adVars
  <1>3. ASSUME NEW s \in AdSlots, RollBack(s) PROVE AdInv'
    <2>1. UNCHANGED <<adUser, adMeant, adClock>> /\ adOp' = [adOp EXCEPT ![s] = None]
      BY <1>3 DEF RollBack
    <2>2. Len(adUser') >= Len(adUser) /\ Len(adUser') \in Nat
      BY <2>1 DEF AdInv
    <2> QED BY <2>1, <2>2, SlotFreed DEF AdInv
  <1>4. ASSUME NEW c \in AdCodes, UseCode(c) \/ \E p \in AdPasswords : GenerateCode(c, p) PROVE AdInv'
    <2>1. UNCHANGED <<adUser, adMeant, adOp, adClock>>
      BY <1>4 DEF UseCode, GenerateCode
    <2> QED BY <1>1, <2>1
  <1>5. CASE ReadCursorRow \/ ReadPage \/ \E q \in AdQueries, p \in AdPasswords : BeginUserList(q, p)
    <2>1. UNCHANGED <<adUser, adMeant, adOp, adClock>>
      BY <1>5 DEF ReadCursorRow, ReadPage, BeginUserList
    <2> QED BY <1>1, <2>1
  <1> QED BY <1>2, <1>3, <1>4, <1>5, BeginUserStep, CommitUserStep, UpdateUserStep, LockUserStep DEF AdNext

\* No change of an account that was answered is lost to another, for any number of
\* administrators' and users' requests (user.rs: the row is locked before it is read).
THEOREM NoChangeIsLost == AdSpec => []NoChangeLost
  <1>1. AdInv => NoChangeLost
    BY DEF AdInv, NoChangeLost
  <1> QED BY AdBegins, AdStep, <1>1, PTL DEF AdSpec

-----------------------------------------------------------------------------
(* Listings of users and of signup codes, page after page, while rows are      *)
(* added and changed.  What a listing came past was shown once, and what it    *)
(* has still to come to was not shown (ListedSoFar); the order of the rows     *)
(* that a page is cut from is that of SumTheorems.                             *)

Places == Nat \X Nat
Listings == [query : AdQueries, step : {"page", "cursor", "done"}, cursor : Nat \cup {None},
             at : Places \cup {None}, shown : Places \cup {None}, seen : Seq(Nat),
             moved : SUBSET Nat, shifted : BOOLEAN, there : SUBSET Nat]

\* The place up to which a listing has come; None before its first page.
Reached(l) == IF l.step = "page" THEN l.at ELSE l.shown

\* What is in a sequence once, and what is not in it.
OnceIn(s, r) == \E i \in 1..Len(s) : s[i] = r /\ \A j \in 1..Len(s) : s[j] = r => j = i
NotIn(s, r) == \A i \in 1..Len(s) : s[i] # r

\* A row that is passed was seen once, and one that follows was not seen.
ListedSoFar(l, r) ==
    /\ l.step = "done" => OnceIn(l.seen, r)
    /\ l.step # "done" =>
         /\ Selected(l.query, r)
         /\ IF Reached(l) = None \/ Follows(l.query, PlaceOf(l.query.by, r), Reached(l))
            THEN NotIn(l.seen, r) ELSE OnceIn(l.seen, r)

ListInv ==
    adList # None =>
      /\ adList \in Listings /\ adList.there \subseteq RowsOf(adList.query.by)
      /\ adList.cursor # None => adList.cursor \in RowsOf(adList.query.by)
      /\ adList.step = "cursor" => adList.cursor # None /\ adList.shown # None
      /\ ~adList.shifted => \A r \in adList.there \ adList.moved : ListedSoFar(adList, r)

\* Nobody is created in the future.
TimesInv ==
    /\ \A u \in 1..Len(adUser) : adUser[u].created <= adClock
    /\ \A s \in AdSlots : adOp[s] # None /\ adOp[s].kind = "create" => adOp[s].at <= adClock

CodesInv == DOMAIN adCode \subseteq AdCodes /\ \A c \in DOMAIN adCode : adCode[c] \in BOOLEAN

\* Rows are finitely many and have places of their own.
LEMMA RowFacts ==
    ASSUME AdInv, CodesInv, NEW q \in AdQueries
    PROVE  /\ q.by \in {"code", "created", "used"} /\ q.reverse \in BOOLEAN
           /\ UserPageLimit(q) \in Nat \ {0}
           /\ RowsOf(q.by) \subseteq Nat /\ IsFiniteSet(RowsOf(q.by))
           /\ \A r \in RowsOf(q.by) : /\ PlaceOf(q.by, r) \in Places /\ PlaceOf(q.by, r)[2] = r
                                      /\ Selected(q, r) \in BOOLEAN
<1>1. q \in ListQueries
  BY AccountsAssumption
<1>2. q.by \in {"code", "created", "used"} /\ q.reverse \in BOOLEAN /\ q.limit \in (Nat \ {0}) \cup {None}
  BY <1>1 DEF ListQueries
<1>3. UserPageLimit(q) \in Nat \ {0}
  BY <1>2, AccountsAssumption DEF UserPageLimit
<1>4. adUser \in Seq(UserRow) /\ DOMAIN adUser = 1..Len(adUser) /\ Len(adUser) \in Nat
  BY DEF AdInv
<1>5. IsFiniteSet(1..Len(adUser))
  BY <1>4, FS_Interval
<1>6. IsFiniteSet(DOMAIN adCode) /\ DOMAIN adCode \subseteq Nat
  BY AccountsAssumption, FS_Subset DEF CodesInv
<1>7. RowsOf(q.by) \subseteq Nat /\ IsFiniteSet(RowsOf(q.by))
  BY <1>4, <1>5, <1>6 DEF RowsOf
<1>8. ASSUME NEW r \in RowsOf(q.by)
      PROVE  PlaceOf(q.by, r) \in Places /\ PlaceOf(q.by, r)[2] = r
  <2>1. r \in Nat
    BY <1>7
  <2>2. CASE q.by = "code"
    BY <2>1, <2>2 DEF PlaceOf, Places
  <2>3. CASE q.by # "code"
    <3>1. adUser[r] \in UserRow
      BY <1>4, <2>3 DEF RowsOf
    <3>2. adUser[r].created \in Nat /\ adUser[r].used \in Nat
      BY <3>1 DEF UserRow
    <3> QED
      BY <1>2, <2>1, <2>3, <3>2 DEF PlaceOf, Places
  <2> QED
    BY <2>2, <2>3
<1> QED
  BY <1>2, <1>3, <1>7, <1>8 DEF Selected

\* Places are in a strict order, in both directions.
LEMMA PlacesOrdered ==
    ASSUME NEW q, q.reverse \in BOOLEAN, NEW a \in Places, NEW b \in Places, NEW c \in Places
    PROVE  /\ Follows(q, a, b) => ~Follows(q, b, a)
           /\ a[2] # b[2] => Follows(q, a, b) \/ Follows(q, b, a)
           /\ Follows(q, a, b) /\ Follows(q, b, c) => Follows(q, a, c)
<1>1. a[1] \in Nat /\ a[2] \in Nat /\ b[1] \in Nat /\ b[2] \in Nat /\ c[1] \in Nat /\ c[2] \in Nat
  BY DEF Places
<1>2. \A x, y \in {a, b, c} : Before(x, y) => ~Before(y, x)
  BY <1>1 DEF Before
<1>3. \A x, y \in {a, b, c} : x[2] # y[2] => Before(x, y) \/ Before(y, x)
  BY <1>1 DEF Before
<1>4. \A x, y, z \in {a, b, c} : Before(x, y) /\ Before(y, z) => Before(x, z)
  BY <1>1 DEF Before
<1> QED
  BY <1>2, <1>3, <1>4 DEF Follows

\* A page has the rows after its place, each once, up to the row that is the next cursor.
RowsFrom(q, at) == {r \in RowsOf(q.by) : /\ Selected(q, r)
                                         /\ at = None \/ Follows(q, PlaceOf(q.by, r), at)}

LEMMA PageFacts ==
    ASSUME AdInv, CodesInv, NEW q \in AdQueries, NEW at \in Places \cup {None}
    PROVE  LET page == PageOf(q, at) IN
           /\ page.items \in Seq(RowsFrom(q, at))
           /\ \A i, j \in 1..Len(page.items) : page.items[i] = page.items[j] => i = j
           /\ page.next = None => \A r \in RowsFrom(q, at) : \E i \in 1..Len(page.items) : page.items[i] = r
           /\ page.next # None =>
                /\ page.next \in RowsFrom(q, at)
                /\ \A r \in RowsFrom(q, at) : (\E i \in 1..Len(page.items) : page.items[i] = r)
                     <=> ~Follows(q, PlaceOf(q.by, r), PlaceOf(q.by, page.next))
<1> DEFINE S == RowsFrom(q, at)
           R == {x \in S \X S : Follows(q, PlaceOf(q.by, x[2]), PlaceOf(q.by, x[1]))}
           rows == RowsAfter(q, at)
           n == UserPageLimit(q)
<1>1. /\ q.reverse \in BOOLEAN /\ n \in Nat \ {0} /\ S \subseteq RowsOf(q.by)
      /\ \A r \in S : PlaceOf(q.by, r) \in Places /\ PlaceOf(q.by, r)[2] = r
  BY RowFacts DEF RowsFrom
<1>2. IsFiniteSet(S) /\ S \subseteq Nat
  BY <1>1, RowFacts, FS_Subset
<1>3. \A x, y \in S : <<x, y>> \in R <=> Follows(q, PlaceOf(q.by, y), PlaceOf(q.by, x))
  OBVIOUS
<1>4. Orders(R, S)
  <2> HIDE DEF S, R
  <2>1. ASSUME NEW x \in S, NEW y \in S, NEW z \in S
        PROVE  /\ <<x, y>> \in R => <<y, x>> \notin R
               /\ x # y => <<x, y>> \in R \/ <<y, x>> \in R
               /\ <<x, y>> \in R /\ <<y, z>> \in R => <<x, z>> \in R
    <3> DEFINE a == PlaceOf(q.by, x)  b == PlaceOf(q.by, y)  c == PlaceOf(q.by, z)
    <3>1. a \in Places /\ b \in Places /\ c \in Places /\ a[2] = x /\ b[2] = y
      BY <1>1
    <3>2. /\ <<x, y>> \in R <=> Follows(q, b, a)
          /\ <<y, x>> \in R <=> Follows(q, a, b)
          /\ <<y, z>> \in R <=> Follows(q, c, b)
          /\ <<x, z>> \in R <=> Follows(q, c, a)
      BY <1>3
    <3> HIDE DEF a, b, c
    <3>3. /\ Follows(q, b, a) => ~Follows(q, a, b)
          /\ a[2] # b[2] => Follows(q, a, b) \/ Follows(q, b, a)
      BY <1>1, <3>1, PlacesOrdered
    <3>4. Follows(q, c, b) /\ Follows(q, b, a) => Follows(q, c, a)
      BY <1>1, <3>1, PlacesOrdered
    <3> QED
      BY <3>1, <3>2, <3>3, <3>4
  <2> QED
    BY <2>1 DEF Orders
<1>5. Sorts(R, S, rows)
  <2> DEFINE Sorted(s) == \A i, j \in DOMAIN s : i < j => Follows(q, PlaceOf(q.by, s[j]), PlaceOf(q.by, s[i]))
  <2>1. rows = CHOOSE s \in [1..Cardinality(S) -> S] : Sorted(s)
    BY DEF RowsAfter, AfterPlace, RowsFrom
  <2>2. PICK s0 : Sorts(R, S, s0)
    BY <1>2, <1>4, CanBeSorted
  <2> HIDE DEF S, R, rows
  <2>3. \A s \in [1..Cardinality(S) -> S] : Sorted(s) <=> Sorts(R, S, s)
    BY <1>3 DEF Sorts
  <2> HIDE DEF Sorted
  <2>4. s0 \in [1..Cardinality(S) -> S] /\ Sorted(s0)
    BY <2>2, <2>3 DEF Sorts
  <2>5. rows \in [1..Cardinality(S) -> S] /\ Sorted(rows)
    BY <2>1, <2>4
  <2> QED
    BY <2>3, <2>5
<1> DEFINE items == FirstOnes(rows, n)
<1>6. PageOf(q, at) = [items |-> items, next |-> IF Len(rows) > n THEN rows[n] ELSE None]
  BY DEF PageOf, FirstOnes
<1> HIDE DEF S, R, rows, n
<1>7. /\ items \in Seq(S)
      /\ \A i, j \in 1..Len(items) : items[i] = items[j] => i = j
      /\ ~(Len(rows) > n) => \A x \in S : \E i \in 1..Len(items) : items[i] = x
      /\ Len(rows) > n => /\ rows[n] \in S
                          /\ \A x \in S : (\E i \in 1..Len(items) : items[i] = x) <=> <<rows[n], x>> \notin R
  BY <1>1, <1>2, <1>4, <1>5, FirstOnesOfSorted
<1> HIDE DEF items
<1>8. Len(rows) > n => rows[n] # None
  <2>1. None \notin Nat
    BY AccountsAssumption
  <2> QED
    BY <1>2, <1>7, <2>1
<1>9. PageOf(q, at).items = items /\ PageOf(q, at).next = IF Len(rows) > n THEN rows[n] ELSE None
  BY <1>6
<1>10. CASE Len(rows) > n
  BY <1>3, <1>7, <1>8, <1>9, <1>10 DEF S
<1>11. CASE ~(Len(rows) > n)
  BY <1>7, <1>9, <1>11 DEF S
<1> QED
  BY <1>10, <1>11

\* A row stays at its place in a listing.
SameRow(q, r) == PlaceOf(q.by, r)' = PlaceOf(q.by, r) /\ Selected(q, r)' = Selected(q, r)

\* A listing stands when the rows it still has to show stay at their places.
LEMMA ListStands ==
    ASSUME ListInv, NEW l, l = adList, l # None, NEW m \in SUBSET Nat, l.moved \subseteq m,
           adList' = [l EXCEPT !.moved = m],
           RowsOf(l.query.by) \subseteq RowsOf(l.query.by)',
           l.step = "done" \/ \A r \in l.there \ m : SameRow(l.query, r)
    PROVE  ListInv'
<1>1. /\ l \in Listings /\ l.there \subseteq RowsOf(l.query.by)
      /\ l.cursor # None => l.cursor \in RowsOf(l.query.by)
      /\ l.step = "cursor" => l.cursor # None /\ l.shown # None
      /\ ~l.shifted => \A r \in l.there \ l.moved : ListedSoFar(l, r)
  BY DEF ListInv
<1> DEFINE k == [l EXCEPT !.moved = m]
<1>2. /\ k \in Listings /\ k.moved = m /\ k.query = l.query /\ k.step = l.step /\ k.cursor = l.cursor
      /\ k.at = l.at /\ k.shown = l.shown /\ k.seen = l.seen /\ k.shifted = l.shifted /\ k.there = l.there
  BY <1>1 DEF Listings
<1> HIDE DEF k
<1>3. ASSUME ~l.shifted, NEW r \in l.there \ m PROVE ListedSoFar(k, r)'
  <2>1. ListedSoFar(l, r)
    BY <1>1, <1>3
  <2>2. k.seen = l.seen /\ Reached(k) = Reached(l)
    BY <1>2 DEF OnceIn, NotIn, Reached
  <2>3. OnceIn(k.seen, r)' = OnceIn(k.seen, r) /\ NotIn(k.seen, r)' = NotIn(k.seen, r) /\ Reached(k)' = Reached(k)
    BY DEF OnceIn, NotIn, Reached
  <2>4. CASE l.step = "done"
    BY <1>2, <2>1, <2>2, <2>3, <2>4 DEF ListedSoFar
  <2>5. CASE l.step # "done"
    <3>1. SameRow(l.query, r)
      BY <2>5
    <3>2. Selected(k.query, r)' = Selected(l.query, r)
          /\ Follows(k.query, PlaceOf(k.query.by, r), Reached(k))'
               = Follows(l.query, PlaceOf(l.query.by, r), Reached(l))
      BY <1>2, <2>2, <2>3, <3>1 DEF SameRow, Follows
    <3> QED
      BY <1>2, <2>1, <2>2, <2>3, <2>5, <3>2 DEF ListedSoFar
  <2> QED
    BY <2>4, <2>5
<1>4. adList' = k
  BY DEF k
<1>5. RowsOf(adList.query.by)' = RowsOf(l.query.by)'
  BY <1>2, <1>4 DEF RowsOf
<1>6. ASSUME NEW r, ListedSoFar(k, r)' PROVE ListedSoFar(adList, r)'
  BY <1>4, <1>6 DEF ListedSoFar, OnceIn, NotIn, Reached, Selected, Follows, PlaceOf
<1>7. (adList \in Listings)'
  BY <1>2, <1>4 DEF Listings
<1>8. (~adList.shifted => \A r \in adList.there \ adList.moved : ListedSoFar(adList, r))'
  BY <1>2, <1>3, <1>4, <1>6
<1>9. (adList.there \subseteq RowsOf(adList.query.by))'
      /\ (adList.cursor # None => adList.cursor \in RowsOf(adList.query.by))'
      /\ (adList.step = "cursor" => adList.cursor # None /\ adList.shown # None)'
  BY <1>1, <1>2, <1>4, <1>5
<1> QED
  BY <1>7, <1>8, <1>9 DEF ListInv

\* The step of a request that changes rows leaves the listing standing.
LEMMA ListStays ==
    ASSUME AdInv, CodesInv, ListInv, \A q \in AdQueries : RowsOf(q.by) \subseteq RowsOf(q.by)',
           \/ adList' = adList /\ \A q \in AdQueries : \A r \in RowsOf(q.by) : SameRow(q, r)
           \/ ListFollows
    PROVE  ListInv'
<1>1. CASE adList = None
  <2>1. adList' = None
    BY <1>1 DEF ListFollows
  <2> QED
    BY <2>1 DEF ListInv
<1>2. CASE adList # None
  <2>1. PICK l : l = adList
    OBVIOUS
  <2>2. l \in Listings /\ l.query \in AdQueries /\ l.moved \in SUBSET Nat /\ l.there \subseteq RowsOf(l.query.by)
    BY <1>2, <2>1 DEF ListInv, Listings
  <2>3. RowsOf(l.query.by) \subseteq Nat
    BY <2>2, RowFacts
  <2>4. CASE adList' = adList /\ (l.step = "done" \/ \A r \in RowsOf(l.query.by) : SameRow(l.query, r))
    <3>1. adList' = [l EXCEPT !.moved = l.moved]
      BY <2>1, <2>2, <2>4 DEF Listings
    <3> QED
      BY <1>2, <2>1, <2>2, <2>4, <3>1, ListStands
  <2>5. CASE ListFollows /\ l.step # "done"
    <3>1. PICK q \in {adList.query} : adList' = [adList EXCEPT !.moved = @ \cup Moved(q)]
      BY <1>2, <2>1, <2>5 DEF ListFollows
    <3>2. q = l.query
      BY <2>1
    <3> DEFINE m == l.moved \cup Moved(q)
    <3>3. adList' = [l EXCEPT !.moved = m]
      BY <2>1, <3>1
    <3>4. m \in SUBSET Nat
      BY <2>2, <2>3, <3>2 DEF Moved
    <3>5. \A r \in l.there \ m : SameRow(l.query, r)
      BY <2>2, <3>2 DEF Moved, SameRow
    <3> HIDE DEF m
    <3>6. l.moved \subseteq m
      BY DEF m
    <3> QED
      BY <1>2, <2>1, <2>2, <3>3, <3>4, <3>5, <3>6, ListStands
  <2>6. CASE ListFollows /\ l.step = "done"
    BY <2>1, <2>4, <2>6 DEF ListFollows
  <2> QED
    BY <2>2, <2>4, <2>5, <2>6
<1> QED
  BY <1>1, <1>2

\* What two sequences have one after the other.
LEMMA InBoth ==
    ASSUME NEW s \in Seq(Nat), NEW t \in Seq(Nat), NEW r
    PROVE  /\ NotIn(s, r) /\ NotIn(t, r) => NotIn(s \o t, r)
           /\ OnceIn(s, r) /\ NotIn(t, r) => OnceIn(s \o t, r)
           /\ NotIn(s, r) /\ OnceIn(t, r) => OnceIn(s \o t, r)
<1> DEFINE u == s \o t  a == Len(s)  b == Len(t)
<1>1. /\ a \in Nat /\ b \in Nat /\ Len(u) = a + b
      /\ \A i \in 1..(a + b) : u[i] = IF i <= a THEN s[i] ELSE t[i - a]
  OBVIOUS
<1> HIDE DEF u, a, b
<1>2. \A i \in 1..a : i \in 1..(a + b) /\ u[i] = s[i]
  BY <1>1
<1>3. \A i \in 1..b : a + i \in 1..(a + b) /\ u[a + i] = t[i]
  BY <1>1
<1>4. \A i \in 1..(a + b) : i \notin 1..a => i - a \in 1..b /\ u[i] = t[i - a] /\ i = a + (i - a)
  BY <1>1
<1>5. ASSUME NotIn(s, r), NotIn(t, r) PROVE NotIn(u, r)
  <2>1. (\A i \in 1..a : s[i] # r) /\ \A i \in 1..b : t[i] # r
    BY <1>5 DEF NotIn, a, b
  <2> QED
    BY <1>1, <1>2, <1>4, <2>1 DEF NotIn
<1>6. ASSUME OnceIn(s, r), NotIn(t, r) PROVE OnceIn(u, r)
  <2>1. \A i \in 1..b : t[i] # r
    BY <1>6 DEF NotIn, b
  <2>2. PICK i \in 1..a : s[i] = r /\ \A j \in 1..a : s[j] = r => j = i
    BY <1>6 DEF OnceIn, a
  <2>3. i \in 1..(a + b) /\ u[i] = r
    BY <1>2, <2>2
  <2>4. \A j \in 1..(a + b) : u[j] = r => j = i
    BY <1>2, <1>4, <2>1, <2>2
  <2> QED
    BY <1>1, <2>3, <2>4 DEF OnceIn
<1>7. ASSUME NotIn(s, r), OnceIn(t, r) PROVE OnceIn(u, r)
  <2>1. \A i \in 1..a : s[i] # r
    BY <1>7 DEF NotIn, a
  <2>2. PICK i \in 1..b : t[i] = r /\ \A j \in 1..b : t[j] = r => j = i
    BY <1>7 DEF OnceIn, b
  <2>3. a + i \in 1..(a + b) /\ u[a + i] = r
    BY <1>3, <2>2
  <2>4. \A j \in 1..(a + b) : u[j] = r => j = a + i
    BY <1>2, <1>4, <2>1, <2>2
  <2> QED
    BY <1>1, <2>3, <2>4 DEF OnceIn
<1> QED
  BY <1>5, <1>6, <1>7 DEF u

\* A listing of which the step leaves rows alone: what it becomes is stated of one state.
LEMMA ListMoves ==
    ASSUME NEW k, adList' = k, adUser' = adUser, adCode' = adCode,
           k \in Listings, k.there \subseteq RowsOf(k.query.by),
           k.cursor # None => k.cursor \in RowsOf(k.query.by),
           k.step = "cursor" => k.cursor # None /\ k.shown # None,
           ~k.shifted => \A r \in k.there \ k.moved : ListedSoFar(k, r)
    PROVE  ListInv'
<1>1. RowsOf(adList.query.by)' = RowsOf(k.query.by)
  BY DEF RowsOf
<1>2. \A r : ListedSoFar(adList, r)' = ListedSoFar(k, r)
  BY DEF ListedSoFar, OnceIn, NotIn, Reached, Selected, Follows, PlaceOf
<1>3. (adList \in Listings)'
  BY DEF Listings
<1> QED
  BY <1>1, <1>2, <1>3 DEF ListInv

\* A listing begins with nothing shown.
LEMMA BeginUserListStep ==
    ASSUME AdInv, CodesInv, NEW q \in AdQueries, NEW p \in AdPasswords, BeginUserList(q, p)
    PROVE  ListInv'
<1> DEFINE k == [query |-> q, step |-> "page", cursor |-> None, at |-> None, shown |-> None,
                 seen |-> <<>>, moved |-> {}, shifted |-> FALSE,
                 there |-> {r \in RowsOf(q.by) : Selected(q, r)}]
<1>1. adList' = k /\ adUser' = adUser /\ adCode' = adCode
  BY DEF BeginUserList
<1>2. RowsOf(q.by) \subseteq Nat
  BY RowFacts
<1>3. k \in Listings
  BY <1>2 DEF Listings
<1>4. /\ k.query = q /\ k.step = "page" /\ k.cursor = None /\ k.at = None /\ k.seen = <<>>
      /\ k.there = {r \in RowsOf(q.by) : Selected(q, r)}
  OBVIOUS
<1> HIDE DEF k
<1>5. \A r \in k.there : ListedSoFar(k, r)
  BY <1>4 DEF ListedSoFar, Reached, NotIn
<1> QED
  BY <1>1, <1>3, <1>4, <1>5, ListMoves

\* A cursor's row that stayed at its place is where the page before ended.
LEMMA ReadCursorRowStep ==
    ASSUME AdInv, CodesInv, ListInv, ReadCursorRow
    PROVE  ListInv'
<1>1. PICK l : l = adList
  OBVIOUS
<1>2. /\ l \in Listings /\ l.there \subseteq RowsOf(l.query.by) /\ l.query \in AdQueries /\ l.step = "cursor"
      /\ l.cursor \in RowsOf(l.query.by) /\ l.cursor # None /\ l.shown # None
      /\ ~l.shifted => \A r \in l.there \ l.moved : ListedSoFar(l, r)
  BY <1>1 DEF ListInv, ReadCursorRow, Listings
<1> DEFINE p == PlaceOf(l.query.by, l.cursor)
           k == [l EXCEPT !.step = "page", !.at = p, !.shifted = @ \/ p # l.shown]
<1>3. adList' = k /\ adUser' = adUser /\ adCode' = adCode
  BY <1>1 DEF ReadCursorRow
<1>4. p \in Places
  BY <1>2, RowFacts
<1> HIDE DEF p
<1>5. /\ k \in Listings /\ k.query = l.query /\ k.step = "page" /\ k.cursor = l.cursor /\ k.at = p
      /\ k.seen = l.seen /\ k.moved = l.moved /\ k.shifted = (l.shifted \/ p # l.shown) /\ k.there = l.there
  BY <1>2, <1>4 DEF Listings
<1> HIDE DEF k
<1>6. ASSUME ~k.shifted, NEW r \in k.there \ k.moved PROVE ListedSoFar(k, r)
  <2>1. ~l.shifted /\ p = l.shown
    BY <1>5, <1>6
  <2>2. ListedSoFar(l, r)
    BY <1>2, <1>5, <1>6, <2>1
  <2>3. Reached(k) = Reached(l)
    BY <1>2, <1>5, <2>1 DEF Reached
  <2> QED
    BY <1>2, <1>5, <2>2, <2>3 DEF ListedSoFar
<1> QED
  BY <1>2, <1>3, <1>5, <1>6, ListMoves

\* A page shows the rows that follow, each once, up to its cursor's row.
LEMMA ReadPageStep ==
    ASSUME AdInv, CodesInv, ListInv, ReadPage
    PROVE  ListInv'
<1>1. PICK l : l = adList
  OBVIOUS
<1>2. /\ l \in Listings /\ l.there \subseteq RowsOf(l.query.by) /\ l.query \in AdQueries /\ l.step = "page"
      /\ l.at \in Places \cup {None} /\ l.seen \in Seq(Nat)
      /\ ~l.shifted => \A r \in l.there \ l.moved : ListedSoFar(l, r)
  BY <1>1 DEF ListInv, ReadPage, Listings
<1> DEFINE q == l.query
           page == PageOf(q, l.at)
           shown == IF page.next = None THEN None ELSE PlaceOf(q.by, page.next)
           k == [l EXCEPT !.seen = @ \o page.items, !.cursor = page.next,
                          !.step = IF page.next = None THEN "done" ELSE "cursor", !.shown = shown]
<1>3. adList' = k /\ adUser' = adUser /\ adCode' = adCode
  BY <1>1 DEF ReadPage
<1>4. /\ page.items \in Seq(RowsFrom(q, l.at))
      /\ \A i, j \in 1..Len(page.items) : page.items[i] = page.items[j] => i = j
      /\ page.next = None => \A r \in RowsFrom(q, l.at) : \E i \in 1..Len(page.items) : page.items[i] = r
      /\ page.next # None =>
           /\ page.next \in RowsFrom(q, l.at)
           /\ \A r \in RowsFrom(q, l.at) : (\E i \in 1..Len(page.items) : page.items[i] = r)
                <=> ~Follows(q, PlaceOf(q.by, r), PlaceOf(q.by, page.next))
  BY <1>2, PageFacts
<1>5. /\ q.reverse \in BOOLEAN /\ RowsOf(q.by) \subseteq Nat
      /\ \A r \in RowsOf(q.by) : PlaceOf(q.by, r) \in Places
  BY <1>2, RowFacts
<1> HIDE DEF page
<1>6. page.items \in Seq(Nat) /\ \A i \in 1..Len(page.items) : page.items[i] \in RowsFrom(q, l.at)
  BY <1>4, <1>5 DEF RowsFrom
<1>7. page.next # None => page.next \in RowsOf(q.by) /\ shown \in Places /\ shown # None
  BY <1>4, <1>5, AccountsAssumption DEF RowsFrom, Places
<1>8. page.next = None => shown = None
  OBVIOUS
<1>9. page.next # None => shown = PlaceOf(q.by, page.next)
  OBVIOUS
<1> HIDE DEF shown
<1>10. /\ k \in Listings /\ k.query = q /\ k.step = (IF page.next = None THEN "done" ELSE "cursor")
       /\ k.cursor = page.next /\ k.shown = shown /\ k.seen = l.seen \o page.items /\ k.moved = l.moved
       /\ k.shifted = l.shifted /\ k.there = l.there
  <2>1. l.seen \o page.items \in Seq(Nat)
    BY <1>2, <1>6
  <2>2. page.next \in Nat \cup {None} /\ shown \in Places \cup {None}
    BY <1>5, <1>7, <1>8
  <2> QED
    BY <1>2, <2>1, <2>2 DEF Listings
<1> HIDE DEF k
<1>11. ASSUME ~l.shifted, NEW r \in l.there \ l.moved PROVE ListedSoFar(k, r)
  <2>1. /\ Selected(q, r) /\ r \in RowsOf(q.by)
        /\ IF l.at = None \/ Follows(q, PlaceOf(q.by, r), l.at) THEN NotIn(l.seen, r) ELSE OnceIn(l.seen, r)
    BY <1>2, <1>11 DEF ListedSoFar, Reached
  <2>2. \A i \in 1..Len(page.items) : page.items[i] = r => OnceIn(page.items, r)
    BY <1>4 DEF OnceIn
  <2>3. CASE r \in RowsFrom(q, l.at)
    <3>1. NotIn(l.seen, r)
      BY <2>1, <2>3 DEF RowsFrom
    <3>2. CASE page.next = None
      <4>1. OnceIn(page.items, r)
        BY <1>4, <2>2, <2>3, <3>2
      <4>2. OnceIn(k.seen, r)
        BY <1>2, <1>6, <1>10, <3>1, <4>1, InBoth
      <4> QED
        BY <1>10, <3>2, <4>2 DEF ListedSoFar
    <3>3. CASE page.next # None /\ Follows(q, PlaceOf(q.by, r), shown)
      <4>1. NotIn(page.items, r)
        BY <1>4, <1>9, <2>3, <3>3 DEF NotIn
      <4>2. NotIn(k.seen, r)
        BY <1>2, <1>6, <1>10, <3>1, <4>1, InBoth
      <4> QED
        BY <1>10, <2>1, <3>3, <4>2 DEF ListedSoFar, Reached
    <3>4. CASE page.next # None /\ ~Follows(q, PlaceOf(q.by, r), shown)
      <4>1. OnceIn(page.items, r)
        BY <1>4, <1>9, <2>2, <2>3, <3>4
      <4>2. OnceIn(k.seen, r)
        BY <1>2, <1>6, <1>10, <3>1, <4>1, InBoth
      <4> QED
        BY <1>7, <1>10, <2>1, <3>4, <4>2 DEF ListedSoFar, Reached
    <3> QED
      BY <3>2, <3>3, <3>4
  <2>4. CASE r \notin RowsFrom(q, l.at)
    <3>1. l.at # None /\ ~Follows(q, PlaceOf(q.by, r), l.at) /\ OnceIn(l.seen, r)
      BY <2>1, <2>4 DEF RowsFrom
    <3>2. NotIn(page.items, r)
      BY <1>6, <2>4 DEF NotIn
    <3>3. OnceIn(k.seen, r)
      BY <1>2, <1>6, <1>10, <3>1, <3>2, InBoth
    <3>4. page.next # None => ~Follows(q, PlaceOf(q.by, r), shown)
      <4> SUFFICES ASSUME page.next # None PROVE ~Follows(q, PlaceOf(q.by, r), shown)
        OBVIOUS
      <4>1. Follows(q, shown, l.at)
        BY <1>4, <1>9, <3>1 DEF RowsFrom
      <4>2. PlaceOf(q.by, r) \in Places /\ shown \in Places /\ l.at \in Places
        BY <1>2, <1>5, <1>7, <2>1, <3>1
      <4>3. Follows(q, PlaceOf(q.by, r), shown) /\ Follows(q, shown, l.at) => Follows(q, PlaceOf(q.by, r), l.at)
        BY <1>5, <4>2, PlacesOrdered
      <4> QED
        BY <3>1, <4>1, <4>3
    <3> QED
      BY <1>7, <1>10, <2>1, <3>3, <3>4 DEF ListedSoFar, Reached
  <2> QED
    BY <2>3, <2>4
<1>12. k.there \subseteq RowsOf(k.query.by) /\ (k.cursor # None => k.cursor \in RowsOf(k.query.by))
       /\ (k.step = "cursor" => k.cursor # None /\ k.shown # None)
       /\ (~k.shifted => \A r \in k.there \ k.moved : ListedSoFar(k, r))
  BY <1>2, <1>7, <1>10, <1>11
<1> QED
  BY <1>3, <1>10, <1>12, ListMoves

\* Codes are only added, and used.
LEMMA CodesStep ==
    ASSUME CodesInv, [AdNext]_adVars PROVE CodesInv'
<1>1. CASE adCode' = adCode
  BY <1>1 DEF CodesInv
<1>2. ASSUME NEW c \in AdCodes, UseCode(c) PROVE CodesInv'
  BY <1>2 DEF UseCode, CodesInv
<1>3. ASSUME NEW c \in AdCodes, NEW p \in AdPasswords, GenerateCode(c, p) PROVE CodesInv'
  BY <1>3 DEF GenerateCode, CodesInv
<1>4. ASSUME NEW s \in AdSlots,
             \/ BeginUser(s) \/ CommitUser(s) \/ UpdateUser(s) \/ RollBack(s)
             \/ \E u \in DOMAIN adUser, c \in AdChanges, p \in AdPasswords : LockUser(s, u, c, p)
      PROVE  adCode' = adCode
  BY <1>4 DEF BeginUser, CommitUser, UpdateUser, RollBack, LockUser
<1>5. ReadCursorRow \/ ReadPage \/ (\E q \in AdQueries, p \in AdPasswords : BeginUserList(q, p)) => adCode' = adCode
  BY DEF ReadCursorRow, ReadPage, BeginUserList
<1>6. UNCHANGED adVars => adCode' = adCode
  BY DEF adVars
<1> QED
  BY <1>1, <1>2, <1>3, <1>4, <1>5, <1>6 DEF AdNext

\* A user's time of creation is that of its transaction, which is past.
LEMMA TimesStep ==
    ASSUME AdInv, TimesInv, [AdNext]_adVars PROVE TimesInv'
<1>1. /\ adUser \in Seq(UserRow) /\ adClock \in Nat /\ DOMAIN adUser = 1..Len(adUser) /\ Len(adUser) \in Nat
      /\ adOp \in [AdSlots -> Creation \cup Change \cup {None}]
  BY DEF AdInv
<1>2. CASE UNCHANGED <<adUser, adClock, adOp>>
  BY <1>2 DEF TimesInv
<1>3. ASSUME NEW s \in AdSlots, BeginUser(s) PROVE TimesInv'
  <2>1. /\ adUser' = adUser /\ adClock' = adClock + 1
        /\ adOp' = [adOp EXCEPT ![s] = [kind |-> "create", id |-> 0, at |-> adClock]]
    BY <1>3 DEF BeginUser
  <2>2. \A u \in 1..Len(adUser) : adUser[u].created \in Nat
    <3>1. \A u \in 1..Len(adUser) : adUser[u] \in UserRow
      BY <1>1
    <3> QED
      BY <3>1 DEF UserRow
  <2>3. \A u \in 1..Len(adUser') : adUser'[u].created <= adClock'
    BY <1>1, <2>1, <2>2 DEF TimesInv
  <2>4. \A t \in AdSlots : adOp[t] # None /\ adOp[t].kind = "create" => adOp[t].at \in Nat
    BY <1>1 DEF Creation, Change
  <2>5. \A t \in AdSlots : adOp'[t] # None /\ adOp'[t].kind = "create" => adOp'[t].at <= adClock'
    BY <1>1, <2>1, <2>4 DEF TimesInv
  <2> QED
    BY <2>3, <2>5 DEF TimesInv
<1>4. ASSUME NEW s \in AdSlots, CommitUser(s) PROVE TimesInv'
  <2>1. /\ adOp[s] # None /\ adOp[s].kind = "create" /\ adUser' = Append(adUser, NewUserRow(adOp[s].at))
        /\ adClock' = adClock /\ adOp' = [adOp EXCEPT ![s] = None]
    BY <1>4 DEF CommitUser
  <2>2. adOp[s].at <= adClock
    BY <2>1 DEF TimesInv
  <2>3. NewUserRow(adOp[s].at).created = adOp[s].at
    BY DEF NewUserRow
  <2>4. Len(adUser') = Len(adUser) + 1 /\ \A u \in 1..Len(adUser') : u \notin 1..Len(adUser) => adUser'[u] = NewUserRow(adOp[s].at)
    BY <1>1, <2>1
  <2>5. \A u \in 1..Len(adUser) : adUser'[u] = adUser[u]
    BY <1>1, <2>1
  <2>6. \A u \in 1..Len(adUser') : adUser'[u].created <= adClock'
    BY <2>1, <2>2, <2>3, <2>4, <2>5 DEF TimesInv
  <2>7. \A t \in AdSlots : adOp'[t] # None => adOp'[t] = adOp[t]
    BY <1>1, <2>1
  <2> QED
    BY <2>1, <2>6, <2>7 DEF TimesInv
<1>5. ASSUME NEW s \in AdSlots, UpdateUser(s) PROVE TimesInv'
  <2>1. /\ adOp[s] # None /\ adOp[s].kind = "change" /\ adClock' = adClock /\ adOp' = [adOp EXCEPT ![s] = None]
        /\ adUser' = [adUser EXCEPT ![adOp[s].id] = Written(adOp[s].change, adOp[s].entity, @)]
    BY <1>5 DEF UpdateUser
  <2>2. \A row \in UserRow : Written(adOp[s].change, adOp[s].entity, row).created = row.created
    BY DEF Written, UserRow
  <2>3. Len(adUser') = Len(adUser) /\ \A u \in 1..Len(adUser) : adUser'[u].created = adUser[u].created
    BY <1>1, <2>1, <2>2
  <2>4. \A t \in AdSlots : adOp'[t] # None => adOp'[t] = adOp[t]
    BY <1>1, <2>1
  <2> QED
    BY <2>1, <2>3, <2>4 DEF TimesInv
<1>6. ASSUME NEW s \in AdSlots, RollBack(s) PROVE TimesInv'
  <2>1. adUser' = adUser /\ adClock' = adClock /\ adOp' = [adOp EXCEPT ![s] = None]
    BY <1>6 DEF RollBack
  <2>2. \A t \in AdSlots : adOp'[t] # None => adOp'[t] = adOp[t]
    BY <1>1, <2>1
  <2> QED
    BY <2>1, <2>2 DEF TimesInv
<1>7. ASSUME NEW s \in AdSlots, NEW u \in DOMAIN adUser, NEW c \in AdChanges, NEW p \in AdPasswords, LockUser(s, u, c, p)
      PROVE  TimesInv'
  <2>1. /\ adUser' = adUser /\ adClock' = adClock
        /\ adOp' = [adOp EXCEPT ![s] = [kind |-> "change", id |-> u, change |-> c, entity |-> Applied(c, adUser[u])]]
    BY <1>7 DEF LockUser
  <2>2. \A t \in AdSlots : adOp'[t].kind = "create" => adOp'[t] = adOp[t]
    BY <1>1, <2>1
  <2> QED
    BY <2>1, <2>2 DEF TimesInv
<1>8. \A c \in AdCodes : UseCode(c) \/ (\E p \in AdPasswords : GenerateCode(c, p)) => UNCHANGED <<adUser, adClock, adOp>>
  BY DEF UseCode, GenerateCode
<1>9. ReadCursorRow \/ ReadPage \/ (\E q \in AdQueries, p \in AdPasswords : BeginUserList(q, p))
        => UNCHANGED <<adUser, adClock, adOp>>
  BY DEF ReadCursorRow, ReadPage, BeginUserList
<1>10. UNCHANGED adVars => UNCHANGED <<adUser, adClock, adOp>>
  BY DEF adVars
<1> QED
  BY <1>2, <1>3, <1>4, <1>5, <1>6, <1>7, <1>8, <1>9, <1>10 DEF AdNext

\* Every step keeps a listing's account of what it showed.
LEMMA UserListStep ==
    ASSUME AdInv, CodesInv, ListInv, [AdNext]_adVars PROVE ListInv'
<1>1. adUser \in Seq(UserRow)
  BY DEF AdInv
<1>2. ASSUME UNCHANGED <<adUser, adCode, adList>> PROVE ListInv'
  <2>1. \A q \in AdQueries : RowsOf(q.by) \subseteq RowsOf(q.by)'
    BY <1>2 DEF RowsOf
  <2>2. \A q \in AdQueries : \A r \in RowsOf(q.by) : SameRow(q, r)
    BY <1>2 DEF SameRow, PlaceOf, Selected
  <2> QED
    BY <1>2, <2>1, <2>2, ListStays
<1>3. ASSUME NEW s \in AdSlots, CommitUser(s) PROVE ListInv'
  <2>1. adUser' = Append(adUser, NewUserRow(adOp[s].at)) /\ adCode' = adCode /\ adList' = adList
    BY <1>3 DEF CommitUser
  <2>2. DOMAIN adUser \subseteq DOMAIN adUser' /\ \A r \in DOMAIN adUser : adUser'[r] = adUser[r]
    BY <1>1, <2>1
  <2>3. \A q \in AdQueries : RowsOf(q.by) \subseteq RowsOf(q.by)'
    BY <2>1, <2>2 DEF RowsOf
  <2>4. \A q \in AdQueries : \A r \in RowsOf(q.by) : SameRow(q, r)
    <3> SUFFICES ASSUME NEW q \in AdQueries, NEW r \in RowsOf(q.by) PROVE SameRow(q, r)
      OBVIOUS
    <3>1. q.by # "code" => adUser'[r] = adUser[r]
      BY <2>2 DEF RowsOf
    <3> QED
      BY <2>1, <3>1 DEF SameRow, PlaceOf, Selected
  <2> QED
    BY <2>1, <2>3, <2>4, ListStays
<1>4. ASSUME NEW s \in AdSlots, UpdateUser(s) PROVE ListInv'
  <2>1. DOMAIN adUser' = DOMAIN adUser /\ adCode' = adCode /\ ListFollows
    BY <1>1, <1>4 DEF UpdateUser
  <2>2. \A q \in AdQueries : RowsOf(q.by) \subseteq RowsOf(q.by)'
    BY <2>1 DEF RowsOf
  <2> QED
    BY <2>1, <2>2, ListStays
<1>5. ASSUME NEW c \in AdCodes, NEW p \in AdPasswords, GenerateCode(c, p) PROVE ListInv'
  <2>1. /\ adUser' = adUser /\ adList' = adList /\ c \notin DOMAIN adCode
        /\ adCode' = [x \in DOMAIN adCode \cup {c} |-> IF x = c THEN FALSE ELSE adCode[x]]
    BY <1>5 DEF GenerateCode
  <2>2. DOMAIN adCode \subseteq DOMAIN adCode' /\ \A r \in DOMAIN adCode : adCode'[r] = adCode[r]
    BY <2>1
  <2>3. \A q \in AdQueries : RowsOf(q.by) \subseteq RowsOf(q.by)'
    BY <2>1, <2>2 DEF RowsOf
  <2>4. \A q \in AdQueries : \A r \in RowsOf(q.by) : SameRow(q, r)
    <3> SUFFICES ASSUME NEW q \in AdQueries, NEW r \in RowsOf(q.by) PROVE SameRow(q, r)
      OBVIOUS
    <3>1. q.by = "code" => adCode'[r] = adCode[r]
      BY <2>2 DEF RowsOf
    <3> QED
      BY <2>1, <3>1 DEF SameRow, PlaceOf, Selected
  <2> QED
    BY <2>1, <2>3, <2>4, ListStays
<1>6. ASSUME NEW c \in AdCodes, UseCode(c) PROVE ListInv'
  <2>1. DOMAIN adCode' = DOMAIN adCode /\ adUser' = adUser /\ ListFollows
    BY <1>6 DEF UseCode
  <2>2. \A q \in AdQueries : RowsOf(q.by) \subseteq RowsOf(q.by)'
    BY <2>1 DEF RowsOf
  <2> QED
    BY <2>1, <2>2, ListStays
<1>7. ASSUME NEW s \in AdSlots,
             \/ BeginUser(s) \/ RollBack(s)
             \/ \E u \in DOMAIN adUser, c \in AdChanges, p \in AdPasswords : LockUser(s, u, c, p)
      PROVE  UNCHANGED <<adUser, adCode, adList>>
  BY <1>7 DEF BeginUser, RollBack, LockUser
<1>8. UNCHANGED adVars => UNCHANGED <<adUser, adCode, adList>>
  BY DEF adVars
<1> QED
  BY <1>2, <1>3, <1>4, <1>5, <1>6, <1>7, <1>8, BeginUserListStep, ReadCursorRowStep, ReadPageStep DEF AdNext

\* What is once in a sequence is counted once.
LEMMA OnceIsOne ==
    ASSUME NEW s \in Seq(Nat), NEW r, OnceIn(s, r)
    PROVE  Cardinality({i \in DOMAIN s : s[i] = r}) = 1
<1>1. PICK i \in 1..Len(s) : s[i] = r /\ \A j \in 1..Len(s) : s[j] = r => j = i
  BY DEF OnceIn
<1>2. {j \in DOMAIN s : s[j] = r} = {i}
  BY <1>1
<1> QED
  BY <1>2, FS_Singleton

\* Administration beside the users' own requests: no finished change of an account is
\* lost, and a listing that came to its end, its cursors' users unmoved, has every row
\* that was there all along and stayed at its place, once (user.rs list, split_list_page), for
\* any number of users, codes, requests and any size of a page.
THEOREM AccountsAreSound == AdSpec => []AccountsSound
<1> DEFINE Inv == AdInv /\ CodesInv /\ TimesInv /\ ListInv
<1>1. AdInit => Inv
  <2> SUFFICES ASSUME AdInit PROVE Inv
    OBVIOUS
  <2>1. ListInv /\ CodesInv
    BY DEF AdInit, ListInv, CodesInv
  <2>2. TimesInv
    <3>1. adUser = [u \in 1..AdFirst |-> NewUserRow(0)]
      BY DEF AdInit
    <3>2. AdFirst \in Nat /\ NewUserRow(0).created = 0
      BY AccountsAssumption DEF NewUserRow
    <3>5. Len(adUser) = AdFirst /\ \A u \in 1..AdFirst : adUser[u] = NewUserRow(0)
      BY <3>1, <3>2
    <3>3. adClock = 0 /\ \A s \in AdSlots : adOp[s] = None
      BY DEF AdInit
    <3> QED
      BY <3>2, <3>3, <3>5 DEF TimesInv
  <2> QED
    BY <2>1, <2>2, AdBegins
<1>2. Inv /\ [AdNext]_adVars => Inv'
  <2> SUFFICES ASSUME AdInv, CodesInv, TimesInv, ListInv, [AdNext]_adVars PROVE Inv'
    OBVIOUS
  <2>1. AdInv'
    BY AdStep
  <2>2. CodesInv'
    BY CodesStep
  <2>3. TimesInv'
    BY TimesStep
  <2>4. ListInv'
    BY UserListStep
  <2> QED
    BY <2>1, <2>2, <2>3, <2>4
<1>3. Inv => AccountsSound
  <2> SUFFICES ASSUME Inv PROVE AccountsSound
    OBVIOUS
  <2>1. AdTypeOK
    <3>1. adUser \in Seq(UserRow) /\ DOMAIN adUser = 1..Len(adUser) /\ adMeant = adUser
      BY DEF AdInv
    <3>2. adList # None => adList.query \in AdQueries /\ adList.cursor \in {None} \cup RowsOf(adList.query.by)
      BY DEF ListInv, Listings
    <3> QED
      BY <3>1, <3>2 DEF AdTypeOK, AdInv, CodesInv, TimesInv
  <2>2. ListedExactlyOnce
    <3> SUFFICES ASSUME adList # None, adList.step = "done", ~adList.shifted,
                        NEW r \in adList.there \ adList.moved
                 PROVE  Cardinality({i \in DOMAIN adList.seen : adList.seen[i] = r}) = 1
      BY DEF ListedExactlyOnce
    <3>1. adList.seen \in Seq(Nat) /\ OnceIn(adList.seen, r)
      BY DEF ListInv, Listings, ListedSoFar
    <3> QED
      BY <3>1, OnceIsOne
  <2> QED
    BY <2>1, <2>2 DEF AccountsSound, AdInv, NoChangeLost
<1> QED
  BY <1>1, <1>2, <1>3, PTL DEF AdSpec

-----------------------------------------------------------------------------
(* The repair of misnamed objects.                                           *)

\* Ids are handed out in order, a DELETE has removed its row, and a PUT of an old
\* entry has its object in place.
StoreInv ==
    /\ nrGen >= 1 /\ nrIds >= Cardinality(NrNames)
    /\ \A n \in NrNames : IsEntry(n) => nrRows[n].id >= 1 /\ nrRows[n].id <= nrIds
    /\ nrWrite # None /\ nrWrite.content = None => ~IsEntry(nrWrite.name)
    /\ nrWrite # None /\ nrWrite.content # None /\ Old(nrWrite.name) =>
         nrObjects[nrWrite.name] # None

\* A run that got as far as the delete has put the object in place, and an entry at
\* the old name is younger than its question.
DeleteInv(r) ==
    /\ nrRun[r].step \in {"owner", "delete"} /\ Old(EntryAt(r).name) =>
         nrObjects[EntryAt(r).name] # None
    /\ nrRun[r].step = "delete" =>
         /\ nrRun[r].asked >= Cardinality(NrNames) /\ nrRun[r].asked <= nrIds
         /\ IsEntry(OldName(r)) => nrRows[OldName(r)].id > nrRun[r].asked

\* An entry that waits is ahead of a run without a failure.
CoverInv(r) ==
    ~nrRun[r].failed => \A n \in NrNames : Waits(n) =>
      \/ nrRows[n].id > nrRun[r].after
      \/ \E i \in 1..Len(nrRun[r].batch) : /\ nrRun[r].batch[i].name = n
                                           /\ nrRun[r].batch[i].content = nrRows[n].content

RunInv(r) ==
    nrRun[r] # None =>
      /\ nrRun[r].step = "list" => Len(nrRun[r].batch) = 0
      /\ nrRun[r].step # "list" => Len(nrRun[r].batch) > 0
      /\ DeleteInv(r) /\ CoverInv(r)

NrInv == NrTypeOK /\ StoreInv /\ MarkedMeansRepaired /\ \A r \in NrRepairers : RunInv(r)

\* What no step does to the entries: none of an old version is added, or loses the
\* object at its path, or comes to wait for the repair.
Gentle ==
    /\ nrIds' >= nrIds
    /\ \A n \in NrNames : IsEntry(n)' => \/ nrRows'[n].id > nrIds
                                         \/ IsEntry(n) /\ nrRows'[n].id = nrRows[n].id
    /\ \A n \in NrNames : Old(n)' /\ nrObjects[n] # None => nrObjects'[n] # None
    /\ \A n \in NrNames : Waits(n)' => Waits(n) /\ nrRows'[n] = nrRows[n]

LEMMA RepairConstants ==
    /\ Cardinality(NrNames) \in Nat
    /\ \A n \in NrNames : n \in Nat /\ n \in Objects /\ Misnamed(n) \in Objects /\ Misnamed(n) # n
    /\ \A m, n \in NrNames : Misnamed(m) = Misnamed(n) => m = n
  BY RepairAssumption, FS_CardinalityType DEF Objects, Misnamed

\* The entry a run is at.
LEMMA EntryFacts ==
    ASSUME NrInv, NEW r \in NrRepairers, nrRun[r] # None
    PROVE  /\ nrRun[r] \in Repair /\ Len(nrRun[r].batch) \in Nat
           /\ nrRun[r].step # "list" => EntryAt(r).name \in NrNames /\ EntryAt(r).content \in NrContents
           /\ nrRun[r].step # "list" => OldName(r) \in Objects
<1>1. nrRun[r] \in Repair
  BY DEF NrInv, NrTypeOK
<1>2. nrRun[r].batch \in Seq(NrListed)
  BY <1>1 DEF Repair
<1>3. Len(nrRun[r].batch) \in Nat
  BY <1>2
<1>4. ASSUME nrRun[r].step # "list" PROVE EntryAt(r) \in NrListed
  <2>1. Len(nrRun[r].batch) > 0
    BY <1>4 DEF NrInv, RunInv
  <2>2. 1 \in 1..Len(nrRun[r].batch)
    BY <1>3, <2>1
  <2> QED BY <1>2, <2>2 DEF EntryAt
<1>5. ASSUME nrRun[r].step # "list"
      PROVE  EntryAt(r).name \in NrNames /\ EntryAt(r).content \in NrContents
  BY <1>4, <1>5 DEF NrListed
<1> QED BY <1>1, <1>3, <1>5, RepairConstants DEF OldName

\* An old entry was there before any later id.
LEMMA OldStays ==
    ASSUME NrInv, Gentle, NEW n \in NrNames, Old(n)', NrTypeOK'
    PROVE  Old(n) /\ nrRows'[n].id = nrRows[n].id
<1>1. IsEntry(n)' /\ nrRows'[n].id <= Cardinality(NrNames)
  BY DEF Old
<1>2. nrRows'[n].id \in Nat
  BY <1>1 DEF NrTypeOK, IsEntry, Entries, NrRow
<1>3. nrIds \in Nat /\ nrIds >= Cardinality(NrNames)
  BY DEF NrInv, NrTypeOK, StoreInv
<1>4. ~(nrRows'[n].id > nrIds)
  BY <1>1, <1>2, <1>3, RepairConstants
<1> QED BY <1>1, <1>4 DEF Gentle, Old

LEMMA OthersKeepRunInv ==
    ASSUME NrInv, NrTypeOK', Gentle, NEW r \in NrRepairers, nrRun'[r] = nrRun[r]
    PROVE  RunInv(r)'
<1> SUFFICES ASSUME nrRun[r] # None PROVE RunInv(r)'
  BY DEF RunInv
<1> DEFINE run == nrRun[r]
<1>1. run \in Repair /\ RunInv(r) /\ run.asked \in Nat
  BY EntryFacts DEF NrInv, Repair
<1>2. run.step # "list" => EntryAt(r).name \in NrNames
  BY EntryFacts
<1>3. EntryAt(r)' = EntryAt(r) /\ OldName(r)' = OldName(r)
  BY DEF EntryAt, OldName
<1>4. nrIds \in Nat /\ nrIds' \in Nat /\ nrIds' >= nrIds
  BY DEF NrInv, NrTypeOK, Gentle
<1>5. DeleteInv(r)'
  <2>1. ASSUME run.step \in {"owner", "delete"}, Old(EntryAt(r).name)'
        PROVE  nrObjects'[EntryAt(r).name] # None
    <3>1. EntryAt(r).name \in NrNames
      BY <1>2, <2>1
    <3>2. Old(EntryAt(r).name)
      BY <1>3, <2>1, <3>1, OldStays
    <3>3. nrObjects[EntryAt(r).name] # None
      BY <1>1, <2>1, <3>2 DEF RunInv, DeleteInv
    <3> QED BY <1>3, <2>1, <3>1, <3>3 DEF Gentle
  <2>2. ASSUME run.step = "delete"
        PROVE  /\ run.asked >= Cardinality(NrNames) /\ run.asked <= nrIds'
               /\ IsEntry(OldName(r))' => nrRows'[OldName(r)].id > run.asked
    <3>1. /\ run.asked >= Cardinality(NrNames) /\ run.asked <= nrIds
          /\ IsEntry(OldName(r)) => nrRows[OldName(r)].id > run.asked
      BY <1>1, <2>2 DEF RunInv, DeleteInv
    <3>2. ASSUME IsEntry(OldName(r))' PROVE nrRows'[OldName(r)].id > run.asked
      <4>1. OldName(r) \in NrNames
        BY <1>3, <3>2 DEF IsEntry, Entries
      <4>2. nrRows'[OldName(r)].id \in Nat
        BY <1>3, <3>2, <4>1 DEF NrTypeOK, IsEntry, Entries, NrRow
      <4> QED BY <1>1, <1>3, <1>4, <3>1, <3>2, <4>1, <4>2 DEF Gentle
    <3> QED BY <1>1, <1>4, <3>1, <3>2, RepairConstants
  <2> QED BY <1>3, <2>1, <2>2 DEF DeleteInv
<1>6. CoverInv(r)'
  <2> SUFFICES ASSUME ~run.failed, NEW n \in NrNames, Waits(n)'
               PROVE  \/ nrRows'[n].id > run.after
                      \/ \E i \in 1..Len(run.batch) : /\ run.batch[i].name = n
                                                      /\ run.batch[i].content = nrRows'[n].content
    BY DEF CoverInv
  <2>1. Waits(n) /\ nrRows'[n] = nrRows[n]
    BY DEF Gentle
  <2> QED BY <1>1, <2>1 DEF RunInv, CoverInv
<1> QED BY <1>1, <1>5, <1>6 DEF RunInv

\* A step of the users.
LEMMA UserStep ==
    ASSUME NrInv, NrTypeOK', StoreInv', Gentle, UNCHANGED <<nrRun, nrMarked>>
    PROVE  NrInv'
  BY OthersKeepRunInv DEF NrInv, MarkedMeansRepaired, Gentle

\* A step of one run.
LEMMA OneRunStep ==
    ASSUME NrInv, NrTypeOK', StoreInv', Gentle, NEW r \in NrRepairers, NEW run,
           nrRun' = [nrRun EXCEPT ![r] = run], RunInv(r)', MarkedMeansRepaired'
    PROVE  NrInv'
<1>1. \A q \in NrRepairers : q # r => nrRun'[q] = nrRun[q]
  BY DEF NrInv, NrTypeOK
<1>2. \A q \in NrRepairers : RunInv(q)'
  BY <1>1, OthersKeepRunInv
<1> QED BY <1>2 DEF NrInv

\* A step that leaves the rows and the objects alone.
LEMMA StoreStays ==
    ASSUME NrInv, UNCHANGED nrStore
    PROVE  Gentle /\ StoreInv'
<1>1. \A n : IsEntry(n)' = IsEntry(n) /\ Old(n)' = Old(n)
  BY DEF nrStore, IsEntry, Entries, Old
<1>2. \A n : Waits(n)' = Waits(n)
  BY <1>1 DEF nrStore, Waits, Holds
<1>3. nrIds \in Nat
  BY DEF NrInv, NrTypeOK
<1>4. StoreInv'
  BY <1>1 DEF NrInv, StoreInv, nrStore
<1> QED BY <1>1, <1>2, <1>3, <1>4 DEF Gentle, nrStore

\* A run goes on with the same entry.
LEMMA AdvanceStep ==
    ASSUME NrInv, NrTypeOK', StoreInv', Gentle, NEW r \in NrRepairers, nrRun[r] # None,
           nrRun[r].step # "list", NEW run \in Repair, run.step # "list",
           run.batch = nrRun[r].batch, run.after = nrRun[r].after, run.failed = nrRun[r].failed,
           nrRun' = [nrRun EXCEPT ![r] = run], UNCHANGED nrMarked, DeleteInv(r)'
    PROVE  NrInv'
<1>1. nrRun'[r] = run /\ RunInv(r)
  BY DEF NrInv, NrTypeOK
<1>2. CoverInv(r)'
  <2> SUFFICES ASSUME ~run.failed, NEW n \in NrNames, Waits(n)'
               PROVE  \/ nrRows'[n].id > run.after
                      \/ \E i \in 1..Len(run.batch) : /\ run.batch[i].name = n
                                                      /\ run.batch[i].content = nrRows'[n].content
    BY <1>1 DEF CoverInv
  <2>1. Waits(n) /\ nrRows'[n] = nrRows[n]
    BY DEF Gentle
  <2> QED BY <1>1, <2>1 DEF RunInv, CoverInv
<1>3. RunInv(r)'
  BY <1>1, <1>2 DEF RunInv
<1>4. MarkedMeansRepaired'
  BY DEF NrInv, MarkedMeansRepaired, Gentle
<1> QED BY <1>3, <1>4, OneRunStep

\* A run is through with an entry that does not wait, or counts it as failed.
LEMMA FinishStep ==
    ASSUME NrInv, NrTypeOK', StoreInv', Gentle, NEW r \in NrRepairers, nrRun[r] # None,
           nrRun[r].step # "list", NEW failed \in BOOLEAN,
           nrRun' = [nrRun EXCEPT ![r] = Finished(nrRun[r], failed)], UNCHANGED nrMarked,
           failed \/ ~(Waits(EntryAt(r).name) /\ EntryAt(r).content = nrRows[EntryAt(r).name].content)
    PROVE  NrInv'
<1> DEFINE old == nrRun[r]
           run == Finished(old, failed)
<1>1. nrRun'[r] = run /\ RunInv(r) /\ old \in Repair
  BY DEF NrInv, NrTypeOK
<1>2. old.batch \in Seq(NrListed) /\ Len(old.batch) \in Nat /\ Len(old.batch) > 0
  BY <1>1, EntryFacts DEF RunInv, Repair
<1>3. /\ Tail(old.batch) \in Seq(NrListed) /\ Len(Tail(old.batch)) = Len(old.batch) - 1
      /\ \A i \in 1..(Len(old.batch) - 1) : Tail(old.batch)[i] = old.batch[i + 1]
  BY <1>2
<1>4. /\ run.step = (IF Len(old.batch) = 1 THEN "list" ELSE "stat") /\ run.batch = Tail(old.batch)
      /\ run.after = old.after /\ run.failed = (old.failed \/ failed)
  BY <1>1 DEF Finished, Repair
<1> HIDE DEF run, old
<1>5. CoverInv(r)'
  <2> SUFFICES ASSUME ~run.failed, NEW n \in NrNames, Waits(n)', ~(nrRows'[n].id > run.after)
               PROVE  \E i \in 1..Len(run.batch) : /\ run.batch[i].name = n
                                                   /\ run.batch[i].content = nrRows'[n].content
    BY <1>1 DEF CoverInv
  <2>1. Waits(n) /\ nrRows'[n] = nrRows[n] /\ ~old.failed /\ ~failed
    BY <1>4 DEF Gentle
  <2>2. PICK i \in 1..Len(old.batch) : old.batch[i].name = n /\ old.batch[i].content = nrRows[n].content
    BY <1>1, <1>4, <2>1 DEF RunInv, CoverInv, old
  <2>3. i # 1
    BY <2>1, <2>2 DEF EntryAt, old
  <2>4. i - 1 \in 1..(Len(old.batch) - 1) /\ i \in Nat
    BY <1>2, <2>2, <2>3
  <2>5. Tail(old.batch)[i - 1] = old.batch[i]
    <3>1. Tail(old.batch)[i - 1] = old.batch[(i - 1) + 1]
      BY <1>3, <2>4
    <3>2. (i - 1) + 1 = i
      BY <2>4
    <3> QED BY <3>1, <3>2
  <2>6. i - 1 \in 1..Len(run.batch) /\ run.batch[i - 1] = old.batch[i]
    BY <1>3, <1>4, <2>4, <2>5
  <2>7. run.batch[i - 1].name = n /\ run.batch[i - 1].content = nrRows'[n].content
    BY <2>1, <2>2, <2>6
  <2> QED BY <2>6, <2>7
<1>6. RunInv(r)'
  <2>1. run.step = "list" => Len(run.batch) = 0
    BY <1>2, <1>3, <1>4
  <2>2. ASSUME run.step # "list" PROVE Len(run.batch) > 0
    <3> DEFINE k == Len(old.batch)
    <3>1. k \in Nat /\ k > 0 /\ k # 1 /\ Len(run.batch) = k - 1
      BY <1>2, <1>3, <1>4, <2>2
    <3> HIDE DEF k
    <3> QED BY <3>1
  <2>3. DeleteInv(r)'
    BY <1>1, <1>4 DEF DeleteInv
  <2> QED BY <1>1, <1>5, <2>1, <2>2, <2>3 DEF RunInv
<1>7. MarkedMeansRepaired'
  BY DEF NrInv, MarkedMeansRepaired, Gentle
<1> QED BY <1>6, <1>7, OneRunStep DEF run

LEMMA FinishedType ==
    ASSUME NEW run \in Repair, Len(run.batch) > 0, NEW failed \in BOOLEAN
    PROVE  Finished(run, failed) \in Repair
<1>1. run.batch \in Seq(NrListed) /\ Tail(run.batch) \in Seq(NrListed) /\ run.failed \in BOOLEAN
  <2>1. run.batch \in Seq(NrListed) /\ run.failed \in BOOLEAN
    BY DEF Repair
  <2> QED BY <2>1
<1>2. 0 \in Nat /\ 1 \in 0..Attempts
  BY RepairAssumption
<1> DEFINE step == IF Len(run.batch) = 1 THEN "list" ELSE "stat"
           a == [run EXCEPT !.step = step, !.batch = Tail(run.batch), !.tries = 1]
           b == [a EXCEPT !.inPlace = FALSE, !.gen = 0, !.placed = 0]
<1>3. a \in Repair
  <2>1. step \in {"list", "stat", "find", "hash", "compare", "copy", "owner", "delete"}
    OBVIOUS
  <2> HIDE DEF step
  <2> QED BY <1>1, <1>2, <2>1 DEF Repair
<1>4. \A x \in Repair : [x EXCEPT !.inPlace = FALSE, !.gen = 0, !.placed = 0] \in Repair
  BY <1>2 DEF Repair
<1>5. \A x \in Repair, f \in BOOLEAN : [x EXCEPT !.asked = 0, !.failed = f] \in Repair
  BY <1>2 DEF Repair
<1>6. Finished(run, failed) = [b EXCEPT !.asked = 0, !.failed = run.failed \/ failed]
  BY DEF Finished, Repair
<1>7. (run.failed \/ failed) \in BOOLEAN
  BY <1>1
<1> HIDE DEF a, b
<1>8. b \in Repair
  BY <1>3, <1>4 DEF b
<1> QED BY <1>5, <1>6, <1>7, <1>8

\* A run changes nothing but what it knows, and goes on with its entry.
LEMMA LookStep ==
    ASSUME NrInv, NEW r \in NrRepairers, nrRun[r] # None, nrRun[r].step # "list",
           NEW run \in Repair, run.step # "list", run.batch = nrRun[r].batch,
           run.after = nrRun[r].after, run.failed = nrRun[r].failed,
           nrRun' = [nrRun EXCEPT ![r] = run], RunOnly, DeleteInv(r)'
    PROVE  NrInv'
<1>1. Gentle /\ StoreInv'
  BY StoreStays DEF RunOnly
<1>2. NrTypeOK'
  BY DEF NrInv, NrTypeOK, RunOnly, nrStore
<1> QED BY <1>1, <1>2, AdvanceStep DEF RunOnly

\* A run changes nothing but what it knows, and is through with its entry.
LEMMA DoneStep ==
    ASSUME NrInv, NEW r \in NrRepairers, nrRun[r] # None, nrRun[r].step # "list",
           NEW failed \in BOOLEAN, RunOnly,
           nrRun' = [nrRun EXCEPT ![r] = Finished(nrRun[r], failed)],
           failed \/ ~(Waits(EntryAt(r).name) /\ EntryAt(r).content = nrRows[EntryAt(r).name].content)
    PROVE  NrInv'
<1>1. Gentle /\ StoreInv'
  BY StoreStays DEF RunOnly
<1>2. Finished(nrRun[r], failed) \in Repair
  <2>1. nrRun[r] \in Repair /\ Len(nrRun[r].batch) > 0
    BY EntryFacts DEF NrInv, RunInv
  <2> QED BY <2>1, FinishedType
<1>3. NrTypeOK'
  BY <1>2 DEF NrInv, NrTypeOK, RunOnly, nrStore
<1> QED BY <1>1, <1>3, FinishStep DEF RunOnly

LEMMA TryAgainStep ==
    ASSUME NrInv, NEW r \in NrRepairers, nrRun[r] # None, nrRun[r].step # "list", TryAgain(r), RunOnly
    PROVE  NrInv'
<1>1. CASE nrRun[r].tries < Attempts
  <2> DEFINE n == nrRun[r].tries + 1
             run == [nrRun[r] EXCEPT !.step = "stat", !.tries = n, !.inPlace = FALSE]
  <2>1. nrRun[r] \in Repair /\ nrRun[r].tries \in 0..Attempts
    BY EntryFacts DEF Repair
  <2>2. n \in 0..Attempts
    BY <1>1, <2>1, RepairAssumption
  <2>3. nrRun' = [nrRun EXCEPT ![r] = run]
    BY <1>1 DEF TryAgain
  <2> HIDE DEF n
  <2>4. /\ run \in Repair /\ run.step = "stat" /\ run.batch = nrRun[r].batch
        /\ run.after = nrRun[r].after /\ run.failed = nrRun[r].failed
    BY <2>1, <2>2 DEF Repair
  <2> HIDE DEF run
  <2>5. nrRun'[r] = run
    BY <2>3 DEF NrInv, NrTypeOK
  <2>6. DeleteInv(r)'
    BY <2>4, <2>5 DEF DeleteInv
  <2> QED BY <2>3, <2>4, <2>6, LookStep
<1>2. CASE ~(nrRun[r].tries < Attempts)
  BY <1>2, DoneStep DEF TryAgain, FailEntry
<1> QED BY <1>1, <1>2

LEMMA StatStep ==
    ASSUME NrInv, NEW r \in NrRepairers, StatPath(r)
    PROVE  NrInv'
<1>1. nrRun[r] # None /\ nrRun[r].step = "stat" /\ RunOnly
  BY DEF StatPath, AtStep
<1> DEFINE there == nrObjects[EntryAt(r).name] # None
           run == [nrRun[r] EXCEPT !.step = "find", !.inPlace = there]
<1>2. nrRun' = [nrRun EXCEPT ![r] = run]
  BY DEF StatPath
<1>3. nrRun[r] \in Repair
  BY <1>1, EntryFacts
<1>4. there \in BOOLEAN
  OBVIOUS
<1> HIDE DEF there
<1>5. /\ run \in Repair /\ run.step = "find" /\ run.batch = nrRun[r].batch
      /\ run.after = nrRun[r].after /\ run.failed = nrRun[r].failed
  BY <1>3, <1>4 DEF Repair
<1> HIDE DEF run
<1>6. DeleteInv(r)'
  BY <1>2, <1>5 DEF DeleteInv, NrInv, NrTypeOK
<1> QED BY <1>1, <1>2, <1>5, <1>6, LookStep

LEMMA FindStep ==
    ASSUME NrInv, NEW r \in NrRepairers, FindMisnamed(r)
    PROVE  NrInv'
<1>1. nrRun[r] # None /\ nrRun[r].step = "find" /\ RunOnly
  BY DEF FindMisnamed, AtStep
<1>2. CASE nrObjects[OldName(r)] = None
  BY <1>1, <1>2, DoneStep DEF FindMisnamed, Finish, Waits, Holds, OldName
<1>3. CASE nrObjects[OldName(r)] # None
  <2> DEFINE g == nrObjects[OldName(r)].gen
             run == [nrRun[r] EXCEPT !.step = "hash", !.gen = g]
  <2>1. nrRun[r] \in Repair /\ OldName(r) \in Objects
    BY <1>1, EntryFacts
  <2>2. g \in Nat
    BY <1>3, <2>1 DEF NrInv, NrTypeOK, NrObject
  <2>3. nrRun' = [nrRun EXCEPT ![r] = run]
    BY <1>3 DEF FindMisnamed
  <2> HIDE DEF g
  <2>4. /\ run \in Repair /\ run.step = "hash" /\ run.batch = nrRun[r].batch
        /\ run.after = nrRun[r].after /\ run.failed = nrRun[r].failed
    BY <2>1, <2>2 DEF Repair
  <2> HIDE DEF run
  <2>5. DeleteInv(r)'
    BY <2>3, <2>4 DEF DeleteInv, NrInv, NrTypeOK
  <2> QED BY <1>1, <2>3, <2>4, <2>5, LookStep
<1> QED BY <1>2, <1>3

\* A run goes to another step with its entry.
LEMMA GoesFacts ==
    ASSUME NrInv, NEW r \in NrRepairers, nrRun[r] # None, nrRun[r].step # "list",
           NEW step \in {"compare", "copy"}, Goes(r, step)
    PROVE  \E run \in Repair :
             /\ nrRun' = [nrRun EXCEPT ![r] = run] /\ nrRun'[r] = run /\ run.step = step
             /\ run.batch = nrRun[r].batch /\ run.after = nrRun[r].after /\ run.failed = nrRun[r].failed
<1> DEFINE run == [nrRun[r] EXCEPT !.step = step]
<1>1. nrRun[r] \in Repair
  BY EntryFacts
<1>2. nrRun' = [nrRun EXCEPT ![r] = run]
  BY DEF Goes
<1>3. /\ run \in Repair /\ run.step = step /\ run.batch = nrRun[r].batch
      /\ run.after = nrRun[r].after /\ run.failed = nrRun[r].failed
  BY <1>1 DEF Repair
<1> HIDE DEF run
<1>4. nrRun'[r] = run
  BY <1>2 DEF NrInv, NrTypeOK
<1> QED BY <1>2, <1>3, <1>4

\* A run has its object in place.
LEMMA InPlaceFacts ==
    ASSUME NrInv, NEW r \in NrRepairers, nrRun[r] # None, nrRun[r].step # "list",
           NEW gen \in Nat, InPlace(r, gen)
    PROVE  \E run \in Repair :
             /\ nrRun' = [nrRun EXCEPT ![r] = run] /\ nrRun'[r] = run /\ run.step = "owner"
             /\ run.batch = nrRun[r].batch /\ run.after = nrRun[r].after /\ run.failed = nrRun[r].failed
<1> DEFINE run == [nrRun[r] EXCEPT !.step = "owner", !.placed = gen]
<1>1. nrRun[r] \in Repair
  BY EntryFacts
<1>2. nrRun' = [nrRun EXCEPT ![r] = run]
  BY DEF InPlace
<1>3. /\ run \in Repair /\ run.step = "owner" /\ run.batch = nrRun[r].batch
      /\ run.after = nrRun[r].after /\ run.failed = nrRun[r].failed
  BY <1>1 DEF Repair
<1> HIDE DEF run
<1>4. nrRun'[r] = run
  BY <1>2 DEF NrInv, NrTypeOK
<1> QED BY <1>2, <1>3, <1>4

LEMMA HashStep ==
    ASSUME NrInv, NEW r \in NrRepairers, HashMisnamed(r)
    PROVE  NrInv'
<1>1. nrRun[r] # None /\ nrRun[r].step = "hash" /\ RunOnly
  BY DEF HashMisnamed, AtStep
<1> DEFINE gone == nrObjects[OldName(r)] = None
           same == Holds(nrObjects, OldName(r), EntryAt(r).content)
<1>2. CASE gone /\ nrRun[r].inPlace
  <2>1. Finish(r)
    BY <1>2 DEF HashMisnamed
  <2> QED BY <1>1, <1>2, <2>1, DoneStep DEF Finish, Waits, Holds, OldName
<1>3. CASE gone /\ ~nrRun[r].inPlace
  <2>1. TryAgain(r)
    BY <1>3 DEF HashMisnamed
  <2> QED BY <1>1, <2>1, TryAgainStep
<1>4. CASE ~gone /\ ~same
  <2>1. Finish(r)
    BY <1>4 DEF HashMisnamed
  <2>2. ~(Waits(EntryAt(r).name) /\ EntryAt(r).content = nrRows[EntryAt(r).name].content)
    BY <1>4 DEF Waits, OldName
  <2> QED BY <1>1, <2>1, <2>2, DoneStep DEF Finish
<1>5. CASE ~gone /\ same
  <2> DEFINE step == IF nrRun[r].inPlace THEN "compare" ELSE "copy"
  <2>1. Goes(r, step) /\ step \in {"compare", "copy"}
    BY <1>5 DEF HashMisnamed
  <2> HIDE DEF step
  <2>2. PICK run \in Repair :
             /\ nrRun' = [nrRun EXCEPT ![r] = run] /\ nrRun'[r] = run /\ run.step = step
             /\ run.batch = nrRun[r].batch /\ run.after = nrRun[r].after /\ run.failed = nrRun[r].failed
    BY <1>1, <2>1, GoesFacts
  <2>3. DeleteInv(r)'
    BY <2>1, <2>2 DEF DeleteInv
  <2> QED BY <1>1, <2>1, <2>2, <2>3, LookStep
<1> QED BY <1>2, <1>3, <1>4, <1>5

LEMMA CompareStep ==
    ASSUME NrInv, NEW r \in NrRepairers, ComparePlaces(r)
    PROVE  NrInv'
<1> DEFINE n == EntryAt(r).name
<1>1. nrRun[r] # None /\ nrRun[r].step = "compare" /\ RunOnly
  BY DEF ComparePlaces, AtStep
<1>2. CASE nrObjects[n] = None
  <2>1. FailEntry(r)
    BY <1>2 DEF ComparePlaces
  <2> QED BY <1>1, <2>1, DoneStep DEF FailEntry
<1>3. CASE nrObjects[n] # None /\ ~Holds(nrObjects, n, EntryAt(r).content)
  <2>1. Finish(r)
    BY <1>3 DEF ComparePlaces
  <2> QED BY <1>1, <1>3, <2>1, DoneStep DEF Finish, Waits
<1>4. CASE nrObjects[n] # None /\ Holds(nrObjects, n, EntryAt(r).content)
  <2>1. InPlace(r, nrObjects[n].gen)
    BY <1>4 DEF ComparePlaces
  <2>0. PICK g \in Nat : g = nrObjects[n].gen
    <3>1. n \in Objects
      BY <1>1, EntryFacts, RepairConstants
    <3> QED BY <1>4, <3>1 DEF NrInv, NrTypeOK, NrObject
  <2>2. PICK run \in Repair :
             /\ nrRun' = [nrRun EXCEPT ![r] = run] /\ nrRun'[r] = run /\ run.step = "owner"
             /\ run.batch = nrRun[r].batch /\ run.after = nrRun[r].after /\ run.failed = nrRun[r].failed
    BY <1>1, <2>0, <2>1, InPlaceFacts
  <2>3. EntryAt(r)' = EntryAt(r) /\ nrObjects' = nrObjects
    BY <1>1, <2>2 DEF EntryAt, RunOnly, nrStore
  <2>4. DeleteInv(r)'
    BY <1>4, <2>2, <2>3 DEF DeleteInv
  <2> QED BY <1>1, <2>2, <2>4, LookStep
<1> QED BY <1>2, <1>3, <1>4

LEMMA AskStep ==
    ASSUME NrInv, NEW r \in NrRepairers, AskOwner(r)
    PROVE  NrInv'
<1>1. nrRun[r] # None /\ nrRun[r].step = "owner" /\ RunOnly
  BY DEF AskOwner, AtStep
<1>2. Old(EntryAt(r).name) => nrObjects[EntryAt(r).name] # None
  BY <1>1 DEF NrInv, RunInv, DeleteInv
<1>3. CASE IsEntry(OldName(r))
  BY <1>1, <1>2, <1>3, DoneStep DEF AskOwner, Finish, Waits
<1>4. CASE ~IsEntry(OldName(r))
  <2> DEFINE run == [nrRun[r] EXCEPT !.step = "delete", !.asked = nrIds]
  <2>1. nrRun[r] \in Repair /\ nrIds \in Nat
    BY <1>1, EntryFacts DEF NrInv, NrTypeOK
  <2>2. nrRun' = [nrRun EXCEPT ![r] = run]
    BY <1>4 DEF AskOwner
  <2>3. /\ run \in Repair /\ run.step = "delete" /\ run.batch = nrRun[r].batch /\ run.asked = nrIds
        /\ run.after = nrRun[r].after /\ run.failed = nrRun[r].failed
    BY <2>1 DEF Repair
  <2> HIDE DEF run
  <2>4. nrRun'[r] = run
    BY <2>2 DEF NrInv, NrTypeOK
  <2>5. EntryAt(r)' = EntryAt(r) /\ OldName(r)' = OldName(r)
        /\ nrObjects' = nrObjects /\ nrRows' = nrRows /\ nrIds' = nrIds
    BY <1>1, <2>3, <2>4 DEF EntryAt, OldName, RunOnly, nrStore
  <2>6. ~IsEntry(OldName(r))' /\ (Old(EntryAt(r).name)' => Old(EntryAt(r).name))
    BY <1>4, <2>5 DEF IsEntry, Entries, Old
  <2>7. nrIds >= Cardinality(NrNames)
    BY DEF NrInv, StoreInv
  <2>8. DeleteInv(r)'
    BY <1>2, <2>1, <2>3, <2>4, <2>5, <2>6, <2>7 DEF DeleteInv
  <2> QED BY <1>1, <2>2, <2>3, <2>8, LookStep
<1> QED BY <1>3, <1>4

\* An object of a new generation, at a path without one or in the place of another.
LEMMA NewObject ==
    ASSUME NrInv, NEW n \in NrNames, NEW c \in NrContents, nrGen' = nrGen + 1,
           nrObjects' = [nrObjects EXCEPT ![n] = [gen |-> nrGen + 1, content |-> c]],
           UNCHANGED <<nrRows, nrIds>>
    PROVE  /\ nrObjects' \in [Objects -> NrObject \cup {None}] /\ nrGen' \in Nat /\ nrGen' >= 1
           /\ nrObjects'[n] # None /\ nrObjects'[n].content = c
           /\ \A o \in Objects : o # n => nrObjects'[o] = nrObjects[o]
           /\ Gentle
<1> DEFINE new == [gen |-> nrGen + 1, content |-> c]
<1>1. nrGen \in Nat /\ nrGen >= 1 /\ nrObjects \in [Objects -> NrObject \cup {None}]
      /\ nrIds \in Nat /\ n \in Objects
  BY RepairConstants DEF NrInv, NrTypeOK, StoreInv
<1>2. new \in NrObject /\ new.gen # 1 /\ new.content = c
  BY <1>1 DEF NrObject
<1>3. new # None
  BY <1>2, RepairAssumption
<1> HIDE DEF new
<1>4. /\ nrObjects' \in [Objects -> NrObject \cup {None}] /\ nrObjects'[n] = new
      /\ \A o \in Objects : o # n => nrObjects'[o] = nrObjects[o]
  BY <1>1, <1>2 DEF new
<1>5. \A m \in NrNames : IsEntry(m)' = IsEntry(m) /\ Old(m)' = Old(m)
  BY DEF IsEntry, Entries, Old
<1>6. ASSUME NEW m \in NrNames, Waits(m)' PROVE Waits(m)
  <2>1. Misnamed(m) \in Objects /\ m \in Objects
    BY RepairConstants
  <2>2. m # n /\ Misnamed(m) # n
    BY <1>2, <1>3, <1>4, <1>6 DEF Waits
  <2>3. nrObjects'[m] = nrObjects[m] /\ nrObjects'[Misnamed(m)] = nrObjects[Misnamed(m)]
    BY <1>4, <2>1, <2>2
  <2> QED BY <1>5, <1>6, <2>3 DEF Waits, Holds
<1>7. \A m \in NrNames : nrObjects[m] # None => nrObjects'[m] # None
  BY <1>3, <1>4, RepairConstants
<1>8. Gentle
  BY <1>1, <1>5, <1>6, <1>7 DEF Gentle
<1> QED BY <1>1, <1>2, <1>3, <1>4, <1>8

\* The object of an old entry's path stays, so no entry comes to wait.
LEMMA ObjectGone ==
    ASSUME NrInv, NEW o \in Objects, ~Old(o), nrObjects' = [nrObjects EXCEPT ![o] = None],
           UNCHANGED <<nrRows, nrIds>>
    PROVE  /\ nrObjects' \in [Objects -> NrObject \cup {None}] /\ Gentle
           /\ \A n \in Objects : n # o => nrObjects'[n] = nrObjects[n]
<1>1. nrObjects \in [Objects -> NrObject \cup {None}] /\ nrIds \in Nat
  BY DEF NrInv, NrTypeOK
<1>2. /\ nrObjects' \in [Objects -> NrObject \cup {None}] /\ nrObjects'[o] = None
      /\ \A n \in Objects : n # o => nrObjects'[n] = nrObjects[n]
  BY <1>1
<1>3. \A m \in NrNames : IsEntry(m)' = IsEntry(m) /\ Old(m)' = Old(m)
  BY DEF IsEntry, Entries, Old
<1>4. ASSUME NEW m \in NrNames, Waits(m)' PROVE Waits(m)
  <2>1. Misnamed(m) \in Objects /\ m \in Objects
    BY RepairConstants
  <2>2. m # o /\ Misnamed(m) # o
    BY <1>2, <1>3, <1>4 DEF Waits, Holds
  <2>3. nrObjects'[m] = nrObjects[m] /\ nrObjects'[Misnamed(m)] = nrObjects[Misnamed(m)]
    BY <1>2, <2>1, <2>2
  <2> QED BY <1>3, <1>4, <2>3 DEF Waits, Holds
<1>5. \A m \in NrNames : Old(m)' /\ nrObjects[m] # None => nrObjects'[m] # None
  BY <1>2, <1>3, RepairConstants
<1> QED BY <1>1, <1>2, <1>3, <1>4, <1>5 DEF Gentle

LEMMA CopyStep ==
    ASSUME NrInv, NEW r \in NrRepairers, CopyObject(r)
    PROVE  NrInv'
<1> DEFINE n == EntryAt(r).name
           o == nrObjects[OldName(r)]
           refused == nrObjects[n] # None \/ o = None \/ (o # None => o.gen # nrRun[r].gen)
<1>1. nrRun[r] # None /\ nrRun[r].step = "copy"
  BY DEF CopyObject, AtStep
<1>2. n \in NrNames /\ OldName(r) \in Objects
  BY <1>1, EntryFacts
<1>3. CASE refused
  <2>1. TryAgain(r) /\ RunOnly
    BY <1>3 DEF CopyObject, RunOnly, nrStore
  <2> QED BY <1>1, <2>1, TryAgainStep
<1>4. CASE ~refused
  <2>1. /\ nrGen' = nrGen + 1 /\ InPlace(r, nrGen + 1)
        /\ nrObjects' = [nrObjects EXCEPT ![n] = [gen |-> nrGen + 1, content |-> o.content]]
        /\ UNCHANGED <<nrRows, nrIds, nrWrite, nrWrites, nrMarked, nrRuns>>
    BY <1>4 DEF CopyObject
  <2>0. PICK g \in Nat : g = nrGen + 1
    BY DEF NrInv, NrTypeOK
  <2>2. o.content \in NrContents
    BY <1>2, <1>4 DEF NrInv, NrTypeOK, NrObject
  <2> HIDE DEF n, o
  <2>3. /\ nrObjects' \in [Objects -> NrObject \cup {None}] /\ nrGen' \in Nat /\ nrGen' >= 1
        /\ nrObjects'[n] # None /\ Gentle
    BY <1>2, <2>1, <2>2, NewObject
  <2>4. PICK run \in Repair :
             /\ nrRun' = [nrRun EXCEPT ![r] = run] /\ nrRun'[r] = run /\ run.step = "owner"
             /\ run.batch = nrRun[r].batch /\ run.after = nrRun[r].after /\ run.failed = nrRun[r].failed
    BY <1>1, <2>0, <2>1, InPlaceFacts
  <2>5. NrTypeOK'
    BY <2>1, <2>3, <2>4 DEF NrInv, NrTypeOK
  <2>6. StoreInv'
    <3>1. \A m : IsEntry(m)' = IsEntry(m) /\ Old(m)' = Old(m)
      BY <2>1 DEF IsEntry, Entries, Old
    <3>2. ASSUME nrWrite # None, nrWrite.content # None, Old(nrWrite.name)
          PROVE  nrObjects'[nrWrite.name] # None
      <4>1. nrObjects[nrWrite.name] # None /\ nrWrite.name \in NrNames
        BY <3>2 DEF NrInv, StoreInv, Old, IsEntry, Entries
      <4> QED BY <2>3, <3>1, <3>2, <4>1 DEF Gentle
    <3> QED BY <2>1, <2>3, <3>1, <3>2 DEF NrInv, StoreInv
  <2>7. DeleteInv(r)'
    <3>1. EntryAt(r)' = EntryAt(r)
      BY <2>4 DEF EntryAt
    <3> QED BY <2>3, <2>4, <3>1 DEF DeleteInv, n
  <2> QED BY <1>1, <2>1, <2>3, <2>4, <2>5, <2>6, <2>7, AdvanceStep
<1> QED BY <1>3, <1>4

\* The entry at the old name of a run that is at its delete is not an old one.
LEMMA DeletedIsNotOld ==
    ASSUME NrInv, NEW r \in NrRepairers, AtStep(r, "delete")
    PROVE  /\ OldName(r) \in Objects /\ ~Old(OldName(r))
           /\ Old(EntryAt(r).name) => nrObjects[EntryAt(r).name] # None
           /\ IsEntry(OldName(r)) => nrRows[OldName(r)].id > nrRun[r].asked
<1>1. nrRun[r] # None /\ nrRun[r].step = "delete" /\ nrRun[r] \in Repair
  BY EntryFacts DEF AtStep
<1>2. /\ nrRun[r].asked >= Cardinality(NrNames) /\ nrRun[r].asked \in Nat
      /\ IsEntry(OldName(r)) => nrRows[OldName(r)].id > nrRun[r].asked
  BY <1>1 DEF NrInv, RunInv, DeleteInv, Repair
<1>3. IsEntry(OldName(r)) => nrRows[OldName(r)].id \in Nat
  BY DEF NrInv, NrTypeOK, IsEntry, Entries, NrRow
<1>4. ~Old(OldName(r))
  BY <1>2, <1>3, RepairConstants DEF Old
<1>5. Old(EntryAt(r).name) => nrObjects[EntryAt(r).name] # None
  BY <1>1 DEF NrInv, RunInv, DeleteInv
<1> QED BY <1>1, <1>2, <1>4, <1>5, EntryFacts

LEMMA DeleteStep ==
    ASSUME NrInv, NEW r \in NrRepairers, DeleteMisnamed(r)
    PROVE  NrInv'
<1>1. nrRun[r] # None /\ nrRun[r].step = "delete" /\ AtStep(r, "delete")
  BY DEF DeleteMisnamed, AtStep
<1>2. OldName(r) \in Objects /\ ~Old(OldName(r)) /\ ~Waits(EntryAt(r).name)
  BY <1>1, DeletedIsNotOld DEF Waits
<1>3. CASE ~SameGeneration(r)
  <2>1. FailEntry(r) /\ RunOnly
    BY <1>3 DEF DeleteMisnamed, RunOnly, nrStore
  <2> QED BY <1>1, <2>1, DoneStep DEF FailEntry
<1>4. CASE SameGeneration(r)
  <2>1. /\ Finish(r) /\ nrObjects' = [nrObjects EXCEPT ![OldName(r)] = None]
        /\ UNCHANGED <<nrRows, nrGen, nrIds, nrWrite, nrWrites, nrMarked, nrRuns>>
    BY <1>4 DEF DeleteMisnamed
  <2>2. nrObjects' \in [Objects -> NrObject \cup {None}] /\ Gentle
    BY <1>2, <2>1, ObjectGone
  <2>3. Finished(nrRun[r], FALSE) \in Repair
    <3>1. nrRun[r] \in Repair /\ Len(nrRun[r].batch) > 0
      BY <1>1, EntryFacts DEF NrInv, RunInv
    <3> QED BY <3>1, FinishedType
  <2>4. NrTypeOK'
    BY <2>1, <2>2, <2>3 DEF NrInv, NrTypeOK, Finish
  <2>5. StoreInv'
    <3>1. \A m : IsEntry(m)' = IsEntry(m) /\ Old(m)' = Old(m)
      BY <2>1 DEF IsEntry, Entries, Old
    <3>2. ASSUME nrWrite # None, nrWrite.content # None, Old(nrWrite.name)
          PROVE  nrObjects'[nrWrite.name] # None
      <4>1. nrObjects[nrWrite.name] # None /\ nrWrite.name \in NrNames
        BY <3>2 DEF NrInv, StoreInv, Old, IsEntry, Entries
      <4> QED BY <2>2, <3>1, <3>2, <4>1 DEF Gentle
    <3> QED BY <2>1, <3>1, <3>2 DEF NrInv, StoreInv
  <2> QED BY <1>1, <1>2, <2>1, <2>2, <2>4, <2>5, FinishStep DEF Finish
<1> QED BY <1>3, <1>4

\* A run begins, fails on its entry, or is over without a mark.
LEMMA RunEndsStep ==
    ASSUME NrInv, NEW r \in NrRepairers, StartRun(r) \/ RepairFails(r) \/ AbortRun(r)
    PROVE  NrInv'
<1>1. CASE RepairFails(r)
  BY <1>1, DoneStep DEF RepairFails, FailEntry
<1>2. CASE AbortRun(r)
  <2>1. Gentle /\ StoreInv' /\ NrTypeOK'
    BY <1>2, StoreStays DEF AbortRun, RunOnly, NrInv, NrTypeOK, nrStore
  <2>2. nrRun'[r] = None /\ MarkedMeansRepaired'
    BY <1>2, <2>1 DEF AbortRun, RunOnly, NrInv, NrTypeOK, MarkedMeansRepaired, Gentle
  <2> QED BY <1>2, <2>1, <2>2, OneRunStep DEF AbortRun, RunInv
<1>3. CASE StartRun(r)
  <2> DEFINE run == [step |-> "list", after |-> 0, batch |-> <<>>, tries |-> 0,
                     inPlace |-> FALSE, gen |-> 0, placed |-> 0, asked |-> 0, failed |-> FALSE]
  <2>1. nrRun' = [nrRun EXCEPT ![r] = run] /\ UNCHANGED <<nrStore, nrMarked>>
    BY <1>3 DEF StartRun
  <2>2. run \in Repair
    <3>1. <<>> \in Seq(NrListed) /\ 0 \in 0..Attempts
      BY RepairAssumption
    <3> QED BY <3>1 DEF Repair
  <2>3. run.step = "list" /\ Len(run.batch) = 0 /\ run.after = 0
    OBVIOUS
  <2> HIDE DEF run
  <2>4. Gentle /\ StoreInv' /\ NrTypeOK'
    BY <2>1, <2>2, StoreStays DEF NrInv, NrTypeOK, nrStore
  <2>5. nrRun'[r] = run
    BY <2>1 DEF NrInv, NrTypeOK
  <2>6. MarkedMeansRepaired'
    BY <2>1, <2>4 DEF NrInv, MarkedMeansRepaired, Gentle
  <2>7. ASSUME NEW n \in NrNames, Waits(n)' PROVE nrRows'[n].id > 0
    <3>1. IsEntry(n)'
      BY <2>7 DEF Waits, Old
    <3>2. nrRows'[n].id >= 1 /\ nrRows'[n].id \in Nat
      BY <2>4, <3>1 DEF StoreInv, NrTypeOK, IsEntry, Entries, NrRow
    <3> QED BY <3>2
  <2>8. RunInv(r)'
    BY <2>3, <2>5, <2>7 DEF RunInv, DeleteInv, CoverInv
  <2> QED BY <2>1, <2>4, <2>6, <2>8, OneRunStep
<1> QED BY <1>1, <1>2, <1>3

\* A listing brings every entry that waits and is not beyond its end, and the one
\* that brings nothing leaves none.
LEMMA ListStep ==
    ASSUME NrInv, NEW r \in NrRepairers, ListEntries(r)
    PROVE  NrInv'
<1> DEFINE old == nrRun[r]
<1>1. old # None /\ old.step = "list" /\ old \in Repair /\ Len(old.batch) = 0 /\ RunInv(r)
  BY EntryFacts DEF ListEntries, AtStep, NrInv, RunInv
<1>2. UNCHANGED <<nrStore, nrRuns>>
  BY DEF ListEntries
<1>3. Gentle /\ StoreInv' /\ \A n \in NrNames : Waits(n)' => Waits(n) /\ nrRows'[n] = nrRows[n]
  BY <1>2, StoreStays DEF Gentle
<1>4. PICK k \in 0..BatchSize : \E names \in [1..k -> Later(old.after)] :
       /\ NextBatch(names, old.after)
       /\ IF k = 0
          THEN /\ nrRun' = [nrRun EXCEPT ![r] = None]
               /\ nrMarked' = (nrMarked \/ IsComplete(old))
          ELSE /\ nrRun' = [nrRun EXCEPT ![r].step = "stat", ![r].batch = Listed(names),
                                         ![r].after = nrRows[names[k]].id, ![r].tries = 1]
               /\ UNCHANGED nrMarked
  BY DEF ListEntries
<1>5. PICK names \in [1..k -> Later(old.after)] :
       /\ NextBatch(names, old.after)
       /\ IF k = 0
          THEN /\ nrRun' = [nrRun EXCEPT ![r] = None]
               /\ nrMarked' = (nrMarked \/ IsComplete(old))
          ELSE /\ nrRun' = [nrRun EXCEPT ![r].step = "stat", ![r].batch = Listed(names),
                                         ![r].after = nrRows[names[k]].id, ![r].tries = 1]
               /\ UNCHANGED nrMarked
  BY <1>4
<1>6. k \in Nat /\ names \in Seq(Later(old.after)) /\ Len(names) = k /\ DOMAIN names = 1..k
  BY <1>5, RepairAssumption
<1>7. \A n \in Later(old.after) : n \in NrNames /\ nrRows[n] \in NrRow
  BY DEF Later, Entries, NrInv, NrTypeOK
<1>8. ASSUME ~old.failed, NEW n \in NrNames, Waits(n) PROVE n \in Later(old.after)
  <2>1. nrRows[n].id > old.after
    BY <1>1, <1>8 DEF RunInv, CoverInv
  <2> QED BY <1>8, <2>1 DEF Later, Waits, Old, IsEntry
<1>9. CASE k = 0
  <2>1. nrRun' = [nrRun EXCEPT ![r] = None] /\ nrMarked' = (nrMarked \/ IsComplete(old))
    BY <1>5, <1>9
  <2>2. \A n \in Later(old.after) : FALSE
    <3>1. BatchSize # 0
      BY RepairAssumption
    <3> QED BY <1>5, <1>6, <1>9, <3>1 DEF NextBatch
  <2>3. MarkedMeansRepaired'
    <3>1. CASE nrMarked
      BY <1>3, <3>1 DEF NrInv, MarkedMeansRepaired
    <3>2. CASE ~nrMarked
      <4>1. nrMarked' => ~old.failed
        BY <2>1, <3>2 DEF IsComplete
      <4> QED BY <1>3, <1>8, <2>2, <4>1 DEF MarkedMeansRepaired
    <3> QED BY <3>1, <3>2
  <2>4. NrTypeOK'
    BY <1>2, <2>1 DEF NrInv, NrTypeOK, nrStore
  <2>5. nrRun'[r] = None
    BY <2>1 DEF NrInv, NrTypeOK
  <2> QED BY <1>3, <2>1, <2>3, <2>4, <2>5, OneRunStep DEF RunInv
<1>10. CASE k # 0
  <2> DEFINE last == nrRows[names[k]].id
             batch == Listed(names)
             run == [old EXCEPT !.step = "stat", !.batch = batch, !.after = last, !.tries = 1]
  <2>1. nrRun' = [nrRun EXCEPT ![r] = run] /\ UNCHANGED nrMarked
    BY <1>5, <1>10
  <2>2. names[k] \in NrNames /\ nrRows[names[k]] \in NrRow /\ last \in Nat
    <3>1. k \in 1..k
      BY <1>6, <1>10
    <3>2. names[k] \in Later(old.after)
      BY <1>5, <3>1
    <3> QED BY <1>7, <3>2 DEF NrRow
  <2>3. /\ batch \in Seq(NrListed) /\ Len(batch) = k
        /\ \A i \in 1..k : batch[i].name = names[i] /\ batch[i].content = nrRows[names[i]].content
    <3>1. ASSUME NEW i \in 1..k
          PROVE  [name |-> names[i], content |-> nrRows[names[i]].content, id |-> nrRows[names[i]].id]
                   \in NrListed
      <4>1. names[i] \in NrNames /\ nrRows[names[i]] \in NrRow
        BY <1>5, <1>7
      <4> QED BY <4>1 DEF NrRow, NrListed
    <3>2. batch = [i \in 1..k |->
             [name |-> names[i], content |-> nrRows[names[i]].content, id |-> nrRows[names[i]].id]]
      BY <1>6 DEF Listed
    <3> HIDE DEF batch
    <3> QED BY <1>6, <3>1, <3>2
  <2> HIDE DEF batch, last
  <2>4. /\ run \in Repair /\ run.step = "stat" /\ run.batch = batch /\ run.after = last
        /\ run.failed = old.failed
    <3>1. 1 \in 0..Attempts
      BY RepairAssumption
    <3> QED BY <1>1, <2>2, <2>3, <3>1 DEF Repair
  <2> HIDE DEF run
  <2>5. nrRun'[r] = run
    BY <2>1 DEF NrInv, NrTypeOK
  <2>6. NrTypeOK'
    BY <1>2, <2>1, <2>4 DEF NrInv, NrTypeOK, nrStore
  <2>7. MarkedMeansRepaired'
    BY <1>3, <2>1 DEF NrInv, MarkedMeansRepaired
  <2>8. CoverInv(r)'
    <3> SUFFICES ASSUME ~run.failed, NEW n \in NrNames, Waits(n)'
                 PROVE  \/ nrRows'[n].id > run.after
                        \/ \E i \in 1..Len(run.batch) : /\ run.batch[i].name = n
                                                        /\ run.batch[i].content = nrRows'[n].content
      BY <2>5 DEF CoverInv
    <3>1. Waits(n) /\ nrRows'[n] = nrRows[n] /\ n \in Later(old.after)
      BY <1>3, <1>8, <2>4
    <3>2. CASE \E i \in 1..k : names[i] = n
      BY <2>3, <2>4, <3>1, <3>2
    <3>3. CASE \A i \in 1..k : last < nrRows[n].id
      <4>1. k \in 1..k
        BY <1>6, <1>10
      <4>2. last < nrRows[n].id
        BY <3>3, <4>1
      <4>3. nrRows[n].id \in Nat
        BY <1>7, <3>1 DEF NrRow
      <4> QED BY <2>2, <2>4, <3>1, <4>2, <4>3
    <3>4. (\E i \in 1..k : names[i] = n) \/ (\A i \in 1..k : nrRows[names[i]].id < nrRows[n].id)
      BY <1>5, <1>6, <3>1 DEF NextBatch
    <3>5. k \in 1..k
      BY <1>6, <1>10
    <3> QED BY <3>2, <3>3, <3>4, <3>5 DEF last
  <2>9. RunInv(r)'
    <3>1. DeleteInv(r)'
      BY <2>4, <2>5 DEF DeleteInv
    <3>2. Len(run.batch) > 0
      BY <1>6, <1>10, <2>3, <2>4
    <3> QED BY <2>4, <2>5, <2>8, <3>1, <3>2 DEF RunInv
  <2> QED BY <1>3, <2>1, <2>6, <2>7, <2>9, OneRunStep
<1> QED BY <1>9, <1>10

LEMMA PutStep ==
    ASSUME NrInv, NEW n \in NrNames, NEW c \in NrContents, PublishObject(n, c)
    PROVE  NrInv'
<1> DEFINE put == [name |-> n, content |-> c]
<1>1. /\ nrGen' = nrGen + 1 /\ nrWrite' = put
      /\ nrObjects' = [nrObjects EXCEPT ![n] = [gen |-> nrGen + 1, content |-> c]]
      /\ UNCHANGED <<nrRows, nrIds, nrMarked, nrRun, nrRuns>>
  BY DEF PublishObject
<1>2. /\ nrObjects' \in [Objects -> NrObject \cup {None}] /\ nrGen' \in Nat /\ nrGen' >= 1
      /\ nrObjects'[n] # None /\ Gentle
  BY <1>1, NewObject
<1>3. put \in NrPut /\ put.name = n /\ put.content # None
  BY RepairAssumption DEF NrPut
<1> HIDE DEF put
<1>4. NrTypeOK'
  BY <1>1, <1>2, <1>3 DEF NrInv, NrTypeOK
<1>5. \A m : IsEntry(m)' = IsEntry(m)
  BY <1>1 DEF IsEntry, Entries
<1>6. StoreInv'
  BY <1>1, <1>2, <1>3, <1>5 DEF NrInv, StoreInv
<1> QED BY <1>1, <1>2, <1>4, <1>6, UserStep

LEMMA EndWriteStep ==
    ASSUME NrInv, NEW commit \in BOOLEAN, EndWrite(commit)
    PROVE  NrInv'
<1>1. /\ nrWrite # None /\ nrWrite.content # None /\ nrWrite' = None
      /\ UNCHANGED <<nrObjects, nrGen, nrWrites, nrMarked, nrRun, nrRuns>>
  BY DEF EndWrite
<1>2. PICK n \in NrNames, c \in NrContents : nrWrite.name = n /\ nrWrite.content = c
  BY <1>1 DEF NrInv, NrTypeOK, NrPut
<1> DEFINE new == ~IsEntry(n)
           id == IF new THEN nrIds + 1 ELSE nrRows[n].id
<1>3. nrIds \in Nat /\ nrIds >= Cardinality(NrNames)
  BY DEF NrInv, NrTypeOK, StoreInv
<1>4. CASE ~commit
  <2>1. UNCHANGED <<nrRows, nrIds>>
    BY <1>4 DEF EndWrite
  <2>2. NrTypeOK'
    BY <1>1, <2>1 DEF NrInv, NrTypeOK
  <2>3. \A m : IsEntry(m)' = IsEntry(m) /\ Old(m)' = Old(m) /\ Waits(m)' = Waits(m)
    BY <1>1, <2>1 DEF IsEntry, Entries, Old, Waits, Holds
  <2>4. Gentle
    BY <1>1, <1>3, <2>1, <2>3 DEF Gentle
  <2>5. StoreInv'
    BY <1>1, <2>1, <2>3 DEF NrInv, StoreInv
  <2> QED BY <1>1, <2>2, <2>4, <2>5, UserStep
<1>5. CASE commit
  <2> DEFINE row == [id |-> id, content |-> c]
  <2>1. nrIds' = (IF new THEN nrIds + 1 ELSE nrIds) /\ nrRows' = [nrRows EXCEPT ![n] = row]
    BY <1>2, <1>5 DEF EndWrite
  <2>2. /\ id \in Nat /\ id >= 1 /\ id <= nrIds' /\ nrIds' >= nrIds /\ nrIds' \in Nat
        /\ new => id > nrIds
    <3>1. CASE new
      <4>1. id = nrIds + 1 /\ nrIds' = nrIds + 1
        BY <2>1, <3>1
      <4> HIDE DEF id, new
      <4> QED BY <1>3, <4>1
    <3>2. CASE ~new
      <4>1. id = nrRows[n].id /\ nrIds' = nrIds
        BY <2>1, <3>2
      <4>2. id \in Nat /\ id >= 1 /\ id <= nrIds
        BY <1>2, <3>2, <4>1 DEF NrInv, NrTypeOK, StoreInv, IsEntry, Entries, NrRow
      <4> HIDE DEF id
      <4> QED BY <1>3, <3>2, <4>1, <4>2
    <3> QED BY <3>1, <3>2
  <2>3. ~new => id = nrRows[n].id
    OBVIOUS
  <2> HIDE DEF id
  <2>4. row \in NrRow /\ row.id = id /\ row # None
    BY <1>2, <2>2, RepairAssumption DEF NrRow
  <2> HIDE DEF row
  <2>5. nrRows'[n] = row /\ \A m \in NrNames : m # n => nrRows'[m] = nrRows[m]
    BY <2>1 DEF NrInv, NrTypeOK
  <2>6. NrTypeOK'
    BY <1>1, <1>2, <2>1, <2>2, <2>4 DEF NrInv, NrTypeOK
  <2>7. \A m \in NrNames : m # n => IsEntry(m)' = IsEntry(m) /\ Old(m)' = Old(m) /\ Waits(m)' = Waits(m)
    BY <1>1, <2>5 DEF IsEntry, Entries, Old, Waits, Holds
  <2>8. Old(n)' => Old(n)
    <3> SUFFICES ASSUME Old(n)' PROVE Old(n)
      OBVIOUS
    <3>1. id <= Cardinality(NrNames)
      BY <1>1, <2>4, <2>5 DEF Old
    <3>2. ~new
      BY <1>3, <2>2, <3>1, RepairConstants
    <3> QED BY <2>3, <3>1, <3>2 DEF Old
  <2>9. Old(n)' => nrObjects[n] # None
    BY <1>1, <1>2, <2>8 DEF NrInv, StoreInv
  <2>10. ~Waits(n)'
    <3>1. nrObjects'[n] = nrObjects[n]
      BY <1>1
    <3> QED BY <2>9, <3>1 DEF Waits
  <2>11. Gentle
    <3>1. \A m \in NrNames : IsEntry(m)' => \/ nrRows'[m].id > nrIds
                                            \/ IsEntry(m) /\ nrRows'[m].id = nrRows[m].id
      BY <2>2, <2>3, <2>4, <2>5, <2>7
    <3>2. \A m \in NrNames : Waits(m)' => Waits(m) /\ nrRows'[m] = nrRows[m]
      BY <2>5, <2>7, <2>10
    <3> QED BY <1>1, <2>2, <3>1, <3>2 DEF Gentle
  <2>12. StoreInv'
    <3>1. ASSUME NEW m \in NrNames, IsEntry(m)' PROVE nrRows'[m].id >= 1 /\ nrRows'[m].id <= nrIds'
      <4>1. CASE m = n
        BY <2>2, <2>4, <2>5, <4>1
      <4>2. CASE m # n
        <5>1. IsEntry(m) /\ nrRows'[m] = nrRows[m]
          BY <2>5, <2>7, <3>1, <4>2
        <5>2. nrRows[m].id >= 1 /\ nrRows[m].id <= nrIds /\ nrRows[m].id \in Nat
          BY <5>1 DEF NrInv, NrTypeOK, StoreInv, IsEntry, Entries, NrRow
        <5> QED BY <1>3, <2>2, <5>1, <5>2
      <4> QED BY <4>1, <4>2
    <3>2. nrIds' >= Cardinality(NrNames)
      BY <1>3, <2>2, RepairConstants
    <3> QED BY <1>1, <3>1, <3>2 DEF NrInv, StoreInv
  <2> QED BY <1>1, <2>6, <2>11, <2>12, UserStep
<1> QED BY <1>4, <1>5

LEMMA DeleteRowStep ==
    ASSUME NrInv, NEW n \in NrNames, DeleteRow(n)
    PROVE  NrInv'
<1> DEFINE del == [name |-> n, content |-> None]
<1>1. /\ nrRows' = [nrRows EXCEPT ![n] = None] /\ nrWrite' = del
      /\ UNCHANGED <<nrObjects, nrGen, nrIds, nrMarked, nrRun, nrRuns>>
  BY DEF DeleteRow
<1>2. del \in NrPut /\ del.name = n /\ del.content = None
  BY DEF NrPut
<1> HIDE DEF del
<1>3. NrTypeOK' /\ nrIds \in Nat
  BY <1>1, <1>2 DEF NrInv, NrTypeOK
<1>4. nrRows'[n] = None /\ \A m \in NrNames : m # n => nrRows'[m] = nrRows[m]
  BY <1>1 DEF NrInv, NrTypeOK
<1>5. ~IsEntry(n)' /\ ~Old(n)' /\ ~Waits(n)'
  BY <1>4 DEF IsEntry, Entries, Old, Waits
<1>6. \A m \in NrNames : m # n => IsEntry(m)' = IsEntry(m) /\ Old(m)' = Old(m) /\ Waits(m)' = Waits(m)
  BY <1>1, <1>4 DEF IsEntry, Entries, Old, Waits, Holds
<1>7. Gentle
  BY <1>1, <1>3, <1>4, <1>5, <1>6 DEF Gentle
<1>8. StoreInv'
  BY <1>1, <1>2, <1>4, <1>5, <1>6 DEF NrInv, StoreInv
<1> QED BY <1>1, <1>3, <1>7, <1>8, UserStep

LEMMA RemoveStep ==
    ASSUME NrInv, RemoveObject
    PROVE  NrInv'
<1> DEFINE n == nrWrite.name
<1>1. /\ nrWrite # None /\ nrWrite.content = None /\ nrWrite' = None
      /\ nrObjects' = [nrObjects EXCEPT ![n] = None]
      /\ UNCHANGED <<nrRows, nrGen, nrIds, nrWrites, nrMarked, nrRun, nrRuns>>
  BY DEF RemoveObject
<1>2. n \in NrNames /\ n \in Objects /\ ~Old(n)
  BY <1>1, RepairConstants DEF NrInv, NrTypeOK, NrPut, StoreInv, Old
<1> HIDE DEF n
<1>3. nrObjects' \in [Objects -> NrObject \cup {None}] /\ Gentle
  BY <1>1, <1>2, ObjectGone
<1>4. NrTypeOK'
  BY <1>1, <1>3 DEF NrInv, NrTypeOK
<1>5. \A m : IsEntry(m)' = IsEntry(m)
  BY <1>1 DEF IsEntry, Entries
<1>6. StoreInv'
  BY <1>1, <1>5 DEF NrInv, StoreInv
<1> QED BY <1>1, <1>3, <1>4, <1>6, UserStep

LEMMA RepairInit == NrInit => NrInv
  <1> SUFFICES ASSUME NrInit PROVE NrInv
    OBVIOUS
  <1>1. NrTypeOK
    <2> DEFINE N == Cardinality(NrNames)
    <2>1. N \in Nat
      BY RepairConstants
    <2> HIDE DEF N
    <2>2. [id : 1..N, content : NrContents] \subseteq NrRow /\ [gen : {1}, content : NrContents] \subseteq NrObject
      BY <2>1 DEF NrRow, NrObject
    <2>3. nrRows \in [NrNames -> NrRow \cup {None}]
      BY <2>2 DEF NrInit, N
    <2>4. nrObjects \in [Objects -> NrObject \cup {None}]
      BY <2>2 DEF NrInit
    <2>5. nrRun \in [NrRepairers -> Repair \cup {None}] /\ nrGen \in Nat /\ nrIds \in Nat
      BY <2>1 DEF NrInit, N
    <2> QED BY <2>3, <2>4, <2>5 DEF NrInit, NrTypeOK
  <1>2. StoreInv
    <2>1. ASSUME NEW n \in NrNames, IsEntry(n) PROVE nrRows[n].id >= 1 /\ nrRows[n].id <= nrIds
      <3>1. nrRows[n] \in [id : 1..Cardinality(NrNames), content : NrContents]
        BY <2>1 DEF NrInit, IsEntry, Entries
      <3>2. nrRows[n].id \in 1..Cardinality(NrNames)
        BY <3>1
      <3> QED BY <3>2, RepairConstants DEF NrInit
    <2> QED BY <2>1, RepairConstants DEF NrInit, StoreInv
  <1>3. MarkedMeansRepaired /\ \A r \in NrRepairers : nrRun[r] = None
    BY DEF NrInit, MarkedMeansRepaired
  <1> QED BY <1>1, <1>2, <1>3 DEF NrInv, RunInv

LEMMA RepairNext == NrInv /\ [NrNext]_nrVars => NrInv'
  <1> SUFFICES ASSUME NrInv, [NrNext]_nrVars PROVE NrInv'
    OBVIOUS
  <1>1. CASE UNCHANGED nrVars
    <2>1. Gentle /\ StoreInv'
      BY <1>1, StoreStays DEF nrVars, nrStore
    <2>2. NrTypeOK'
      BY <1>1 DEF nrVars, NrInv, NrTypeOK
    <2> QED BY <1>1, <2>1, <2>2, UserStep DEF nrVars
  <1>2. ASSUME NEW r \in NrRepairers, RepairStep(r) PROVE NrInv'
    BY <1>2, RunEndsStep, ListStep, StatStep, FindStep, HashStep, CompareStep, CopyStep, AskStep,
       DeleteStep DEF RepairStep
  <1>3. ASSUME NEW n \in NrNames, DeleteRow(n) \/ \E c \in NrContents : PublishObject(n, c) PROVE NrInv'
    BY <1>3, DeleteRowStep, PutStep
  <1>4. ASSUME NEW b \in BOOLEAN, EndWrite(b) PROVE NrInv'
    BY <1>4, EndWriteStep
  <1>5. CASE RemoveObject
    BY <1>5, RemoveStep
  <1> QED BY <1>1, <1>2, <1>3, <1>4, <1>5 DEF NrNext

\* What a run knows of the objects: which one it looked at under the misnamed name, and
\* which one at the path it takes for the entry's.
Is(o, gen, content) ==
    nrObjects[o] # None /\ nrObjects[o].gen = gen => nrObjects[o].content = content

PlacedInv(r) ==
    nrRun[r] # None =>
      /\ nrRun[r].gen <= nrGen /\ nrRun[r].placed <= nrGen
      /\ nrRun[r].step \in {"compare", "copy", "owner", "delete"} =>
           Is(OldName(r), nrRun[r].gen, EntryAt(r).content)
      /\ nrRun[r].step \in {"owner", "delete"} =>
           Is(EntryAt(r).name, nrRun[r].placed, EntryAt(r).content)

PlacesInv ==
    /\ \A o \in Objects : nrObjects[o] # None => nrObjects[o].gen <= nrGen
    /\ \A r \in NrRepairers : PlacedInv(r)

\* What a step does to the objects: each stays, goes, or is a newer one.
Newer ==
    /\ nrGen' >= nrGen
    /\ \A o \in Objects : \/ nrObjects'[o] = nrObjects[o]
                          \/ nrObjects'[o] = None
                          \/ nrObjects'[o] # None /\ nrObjects'[o].gen > nrGen
    /\ \A o \in Objects : nrObjects'[o] # None => nrObjects'[o].gen <= nrGen'

LEMMA StepIsNewer == NrInv /\ PlacesInv /\ [NrNext]_nrVars => Newer
  <1> SUFFICES ASSUME NrInv, PlacesInv, [NrNext]_nrVars PROVE Newer
    OBVIOUS
  <1>0. /\ nrGen \in Nat /\ nrObjects \in [Objects -> NrObject \cup {None}]
        /\ \A o \in Objects : nrObjects[o] # None => nrObjects[o].gen <= nrGen
    BY DEF NrInv, NrTypeOK, PlacesInv
  <1>1. ASSUME UNCHANGED <<nrObjects, nrGen>> PROVE Newer
    BY <1>0, <1>1 DEF Newer
  <1>2. ASSUME NEW n \in Objects, nrObjects' = [nrObjects EXCEPT ![n] = None], UNCHANGED nrGen
        PROVE  Newer
    BY <1>0, <1>2 DEF Newer
  <1>3. ASSUME NEW n \in NrNames, NEW c \in NrContents, nrGen' = nrGen + 1,
               nrObjects' = [nrObjects EXCEPT ![n] = [gen |-> nrGen + 1, content |-> c]]
        PROVE  Newer
    <2> DEFINE new == [gen |-> nrGen + 1, content |-> c]
    <2>1. new.gen = nrGen + 1 /\ new \in NrObject
      BY <1>0 DEF NrObject
    <2>2. new # None
      BY <2>1, RepairAssumption
    <2> HIDE DEF new
    <2>3. nrObjects'[n] = new /\ \A o \in Objects : o # n => nrObjects'[o] = nrObjects[o]
      BY <1>0, <1>3, RepairConstants DEF new
    <2>4. nrGen + 1 > nrGen /\ nrGen' >= nrGen /\ nrGen + 1 <= nrGen'
      BY <1>0, <1>3
    <2>5. ASSUME NEW o \in Objects, nrObjects'[o] # None PROVE nrObjects'[o].gen <= nrGen'
      <3>1. CASE o = n
        BY <2>1, <2>3, <2>4, <3>1
      <3>2. CASE o # n
        <4>1. nrObjects[o] # None /\ nrObjects'[o] = nrObjects[o] /\ nrObjects[o].gen <= nrGen
          BY <1>0, <2>3, <2>5, <3>2
        <4>2. nrObjects[o].gen \in Nat
          BY <1>0, <4>1 DEF NrObject
        <4> QED BY <1>0, <1>3, <4>1, <4>2
      <3> QED BY <3>1, <3>2
    <2> QED BY <2>1, <2>2, <2>3, <2>4, <2>5 DEF Newer
  <1>4. CASE UNCHANGED nrVars
    BY <1>1, <1>4 DEF nrVars
  <1>5. ASSUME NEW r \in NrRepairers, RepairStep(r) PROVE Newer
    <2>1. CASE CopyObject(r)
      <3> DEFINE n == EntryAt(r).name
                 o == nrObjects[OldName(r)]
      <3>1. n \in NrNames /\ OldName(r) \in Objects
        BY <2>1, EntryFacts DEF CopyObject, AtStep
      <3>2. CASE nrObjects[n] # None \/ o = None \/ (o # None => o.gen # nrRun[r].gen)
        <4>1. UNCHANGED <<nrObjects, nrGen>>
          BY <2>1, <3>2 DEF CopyObject
        <4> QED BY <1>1, <4>1
      <3>3. CASE ~(nrObjects[n] # None \/ o = None \/ (o # None => o.gen # nrRun[r].gen))
        <4>1. /\ nrGen' = nrGen + 1
              /\ nrObjects' = [nrObjects EXCEPT ![n] = [gen |-> nrGen + 1, content |-> o.content]]
          BY <2>1, <3>3 DEF CopyObject
        <4>2. PICK c \in NrContents : c = o.content
          BY <1>0, <3>1, <3>3 DEF NrObject
        <4> QED BY <1>3, <3>1, <4>1, <4>2
      <3> QED BY <3>2, <3>3
    <2>2. CASE DeleteMisnamed(r)
      <3>1. OldName(r) \in Objects /\ UNCHANGED nrGen
        BY <2>2, DeletedIsNotOld DEF DeleteMisnamed
      <3>2. nrObjects' = nrObjects \/ nrObjects' = [nrObjects EXCEPT ![OldName(r)] = None]
        BY <2>2 DEF DeleteMisnamed
      <3> QED BY <1>1, <1>2, <3>1, <3>2
    <2>3. CASE ~CopyObject(r) /\ ~DeleteMisnamed(r)
      <3>1. UNCHANGED <<nrObjects, nrGen>>
        BY <1>5, <2>3 DEF RepairStep, StartRun, ListEntries, StatPath, FindMisnamed, HashMisnamed,
             ComparePlaces, AskOwner, RepairFails, AbortRun, RunOnly, nrStore
      <3> QED BY <1>1, <3>1
    <2> QED BY <2>1, <2>2, <2>3
  <1>6. ASSUME NEW n \in NrNames, NEW c \in NrContents, PublishObject(n, c) PROVE Newer
    <2>1. /\ nrGen' = nrGen + 1
          /\ nrObjects' = [nrObjects EXCEPT ![n] = [gen |-> nrGen + 1, content |-> c]]
      BY <1>6 DEF PublishObject
    <2> QED BY <1>3, <2>1
  <1>7. ASSUME NEW n \in NrNames, DeleteRow(n) PROVE Newer
    BY <1>1, <1>7 DEF DeleteRow
  <1>8. ASSUME NEW b \in BOOLEAN, EndWrite(b) PROVE Newer
    BY <1>1, <1>8 DEF EndWrite
  <1>9. CASE RemoveObject
    <2>1. nrWrite.name \in Objects
      BY <1>9, RepairConstants DEF RemoveObject, NrInv, NrTypeOK, NrPut
    <2> QED BY <1>2, <1>9, <2>1 DEF RemoveObject
  <1> QED BY <1>4, <1>5, <1>6, <1>7, <1>8, <1>9 DEF NrNext

\* What is known of an object stays true of it.
LEMMA IsStays ==
    ASSUME NrInv, Newer, NEW o \in Objects, NEW gen \in Nat, NEW content, gen <= nrGen,
           Is(o, gen, content)
    PROVE  Is(o, gen, content)'
<1>1. nrGen \in Nat
  BY DEF NrInv, NrTypeOK
<1>2. CASE nrObjects'[o] = nrObjects[o]
  BY <1>2 DEF Is
<1>3. CASE nrObjects'[o] = None
  BY <1>3 DEF Is
<1>4. CASE nrObjects'[o] # None /\ nrObjects'[o].gen > nrGen
  <2>1. nrObjects'[o].gen # gen
    BY <1>1, <1>4
  <2> QED BY <2>1 DEF Is
<1> QED BY <1>2, <1>3, <1>4 DEF Newer

\* Another run knows what it knew.
LEMMA PlacedStays ==
    ASSUME NrInv, NrTypeOK', PlacesInv, Newer, NEW r \in NrRepairers, nrRun'[r] = nrRun[r]
    PROVE  PlacedInv(r)'
<1> SUFFICES ASSUME nrRun[r] # None PROVE PlacedInv(r)'
  BY DEF PlacedInv
<1>1. PICK run \in Repair : run = nrRun[r]
  BY EntryFacts
<1>2. run.gen \in Nat /\ run.placed \in Nat /\ nrGen \in Nat /\ nrGen' \in Nat /\ nrGen' >= nrGen
  BY DEF Repair, NrInv, NrTypeOK, Newer
<1>3. PlacedInv(r) /\ run.gen <= nrGen /\ run.placed <= nrGen
  BY <1>1 DEF PlacesInv, PlacedInv
<1>4. run.gen <= nrGen' /\ run.placed <= nrGen'
  BY <1>2, <1>3
<1>5. EntryAt(r) = run.batch[1] /\ EntryAt(r)' = run.batch[1]
  BY <1>1 DEF EntryAt
<1>6. OldName(r) = Misnamed(run.batch[1].name) /\ OldName(r)' = Misnamed(run.batch[1].name)
  BY <1>5 DEF OldName
<1>7. ASSUME run.step # "list"
      PROVE  run.batch[1].name \in Objects /\ Misnamed(run.batch[1].name) \in Objects
  BY <1>1, <1>5, <1>7, EntryFacts, RepairConstants
<1>8. ASSUME run.step \in {"compare", "copy", "owner", "delete"}
      PROVE  Is(Misnamed(run.batch[1].name), run.gen, run.batch[1].content)'
  <2>1. Is(Misnamed(run.batch[1].name), run.gen, run.batch[1].content)
    BY <1>1, <1>3, <1>5, <1>6, <1>8 DEF PlacedInv
  <2> QED BY <1>2, <1>3, <1>7, <1>8, <2>1, IsStays
<1>9. ASSUME run.step \in {"owner", "delete"}
      PROVE  Is(run.batch[1].name, run.placed, run.batch[1].content)'
  <2>1. Is(run.batch[1].name, run.placed, run.batch[1].content)
    BY <1>1, <1>3, <1>5, <1>9 DEF PlacedInv
  <2> QED BY <1>2, <1>3, <1>7, <1>9, <2>1, IsStays
<1>10. nrRun'[r] = run
  BY <1>1
<1> QED BY <1>4, <1>5, <1>6, <1>8, <1>9, <1>10 DEF PlacedInv, Is

\* A run that begins with an entry, or goes to the next.
LEMMA PlacedBefore ==
    ASSUME NrInv, NrTypeOK', PlacesInv, Newer, NEW r \in NrRepairers, NEW run \in Repair,
           nrRun'[r] = run, run.step \in {"list", "stat", "find", "hash"},
           run.gen = 0 \/ (nrRun[r] # None /\ run.gen = nrRun[r].gen),
           run.placed = 0 \/ (nrRun[r] # None /\ run.placed = nrRun[r].placed)
    PROVE  PlacedInv(r)'
<1>1. nrGen \in Nat /\ nrGen' \in Nat /\ nrGen' >= nrGen /\ run.gen \in Nat /\ run.placed \in Nat
  BY DEF NrInv, NrTypeOK, Newer, Repair
<1>2. run.gen <= nrGen /\ run.placed <= nrGen
  BY <1>1 DEF PlacesInv, PlacedInv
<1>3. run.gen <= nrGen' /\ run.placed <= nrGen'
  BY <1>1, <1>2
<1> QED BY <1>3 DEF PlacedInv

LEMMA PlacedFinished ==
    ASSUME NrInv, NrTypeOK', PlacesInv, Newer, NEW r \in NrRepairers, nrRun[r] # None,
           nrRun[r].step # "list", Finish(r) \/ FailEntry(r) \/ TryAgain(r)
    PROVE  PlacedInv(r)'
<1>1. nrRun[r] \in Repair /\ nrRun \in [NrRepairers -> Repair \cup {None}]
  BY EntryFacts DEF NrInv, NrTypeOK
<1>2. ASSUME NEW failed \in BOOLEAN, nrRun' = [nrRun EXCEPT ![r] = Finished(nrRun[r], failed)]
      PROVE  PlacedInv(r)'
  <2>1. PICK run : run = Finished(nrRun[r], failed)
    OBVIOUS
  <2>2. run.step \in {"list", "stat"} /\ run.gen = 0 /\ run.placed = 0
    BY <1>1, <2>1 DEF Finished, Repair
  <2>3. Len(nrRun[r].batch) > 0
    BY DEF NrInv, RunInv
  <2>4. run \in Repair
    BY <1>1, <2>1, <2>3, FinishedType
  <2>5. nrRun'[r] = run
    BY <1>1, <1>2, <2>1
  <2> QED BY <2>2, <2>4, <2>5, PlacedBefore
<1>3. ASSUME TryAgain(r), nrRun[r].tries < Attempts PROVE PlacedInv(r)'
  <2>1. nrRun' = [nrRun EXCEPT ![r] = [nrRun[r] EXCEPT !.step = "stat", !.tries = nrRun[r].tries + 1,
                                                      !.inPlace = FALSE]]
    BY <1>3 DEF TryAgain
  <2>2. PICK run : run = [nrRun[r] EXCEPT !.step = "stat", !.tries = nrRun[r].tries + 1,
                                         !.inPlace = FALSE]
    OBVIOUS
  <2>3. nrRun'[r] = run
    BY <1>1, <2>1, <2>2
  <2>4. run.step = "stat" /\ run.gen = nrRun[r].gen /\ run.placed = nrRun[r].placed
    BY <1>1, <2>2 DEF Repair
  <2>5. nrRun[r].tries + 1 \in 0..Attempts
    BY <1>1, <1>3, RepairAssumption DEF Repair
  <2>6. run \in Repair
    BY <1>1, <2>2, <2>5 DEF Repair
  <2> QED BY <2>3, <2>4, <2>6, PlacedBefore
<1> QED BY <1>2, <1>3 DEF Finish, FailEntry, TryAgain

\* The run that steps knows what it has just seen.
LEMMA PlacedStep ==
    ASSUME NrInv, NrTypeOK', PlacesInv, Newer, NEW r \in NrRepairers, RepairStep(r)
    PROVE  PlacedInv(r)'
<1> DEFINE old == nrRun[r]
<1>1. nrRun \in [NrRepairers -> Repair \cup {None}] /\ nrGen \in Nat /\ nrGen' \in Nat /\ nrGen' >= nrGen
  BY DEF NrInv, NrTypeOK, Newer
<1>2. old # None => old \in Repair /\ old.gen \in Nat /\ old.placed \in Nat
                    /\ old.gen <= nrGen /\ old.placed <= nrGen
  BY EntryFacts DEF Repair, PlacesInv, PlacedInv
<1>3. old # None /\ old.step # "list" =>
        /\ EntryAt(r).name \in Objects /\ OldName(r) \in Objects /\ OldName(r) = Misnamed(EntryAt(r).name)
  BY EntryFacts, RepairConstants DEF OldName
<1>4. ASSUME old # None, old.step # "list", Finish(r) \/ FailEntry(r) \/ TryAgain(r) PROVE PlacedInv(r)'
  BY <1>4, PlacedFinished
<1>5. CASE StartRun(r)
  <2>1. PICK run : run = [step |-> "list", after |-> 0, batch |-> <<>>, tries |-> 0, inPlace |-> FALSE,
                          gen |-> 0, placed |-> 0, asked |-> 0, failed |-> FALSE]
    OBVIOUS
  <2>2. nrRun'[r] = run
    BY <1>1, <1>5, <2>1 DEF StartRun
  <2>3. run.step = "list" /\ run.gen = 0 /\ run.placed = 0
    BY <2>1
  <2>4. 0 <= nrGen'
    BY <1>1
  <2> QED BY <2>2, <2>3, <2>4 DEF PlacedInv
<1>6. CASE ListEntries(r)
  <2>1. old # None /\ old \in Repair
    BY <1>2, <1>6 DEF ListEntries, AtStep
  <2>2. \/ nrRun'[r] = None
        \/ nrRun'[r].step = "stat" /\ nrRun'[r].gen = old.gen /\ nrRun'[r].placed = old.placed
    BY <1>1, <1>6, <2>1 DEF ListEntries, Repair
  <2>3. nrRun'[r] # None => nrRun'[r] \in Repair
    BY DEF NrTypeOK
  <2>4. PICK run : run = nrRun'[r]
    OBVIOUS
  <2>5. CASE run = None
    BY <2>4, <2>5 DEF PlacedInv
  <2>6. CASE run # None
    BY <2>1, <2>2, <2>3, <2>4, <2>6, PlacedBefore
  <2> QED BY <2>5, <2>6
<1>7. CASE StatPath(r)
  <2>1. PICK b \in BOOLEAN : b = (nrObjects[EntryAt(r).name] # None)
    OBVIOUS
  <2>2. old # None /\ old \in Repair /\ nrRun' = [nrRun EXCEPT ![r] = [old EXCEPT !.step = "find", !.inPlace = b]]
    BY <1>2, <1>7, <2>1 DEF StatPath, AtStep
  <2>3. PICK run : run = [old EXCEPT !.step = "find", !.inPlace = b]
    OBVIOUS
  <2>4. nrRun'[r] = run
    BY <1>1, <2>2, <2>3
  <2>5. run \in Repair /\ run.step = "find" /\ run.gen = old.gen /\ run.placed = old.placed
    BY <2>2, <2>3 DEF Repair
  <2> QED BY <2>2, <2>4, <2>5, PlacedBefore
<1>8. CASE FindMisnamed(r)
  <2>1. old # None /\ old.step = "find" /\ old \in Repair /\ RunOnly
    BY <1>2, <1>8 DEF FindMisnamed, AtStep
  <2>2. CASE nrObjects[OldName(r)] = None
    BY <1>4, <1>8, <2>1, <2>2 DEF FindMisnamed
  <2>3. CASE nrObjects[OldName(r)] # None
    <3>1. PICK g \in Nat : g = nrObjects[OldName(r)].gen /\ g <= nrGen
      BY <1>3, <2>1, <2>3 DEF PlacesInv, NrInv, NrTypeOK, NrObject
    <3>2. nrRun'[r] = [old EXCEPT !.step = "hash", !.gen = g]
      BY <1>1, <1>8, <2>1, <2>3, <3>1 DEF FindMisnamed
    <3>3. nrRun'[r].step = "hash" /\ nrRun'[r].gen = g /\ nrRun'[r].placed = old.placed
      BY <2>1, <3>2 DEF Repair
    <3>4. g <= nrGen' /\ old.placed <= nrGen'
      BY <1>1, <1>2, <2>1, <3>1
    <3> QED BY <3>3, <3>4 DEF PlacedInv
  <2> QED BY <2>2, <2>3
<1>9. CASE HashMisnamed(r)
  <2>1. old # None /\ old.step = "hash" /\ old \in Repair /\ RunOnly
    BY <1>2, <1>9 DEF HashMisnamed, AtStep
  <2>2. CASE ~Holds(nrObjects, OldName(r), EntryAt(r).content) \/ nrObjects[OldName(r)] = None
    BY <1>4, <1>9, <2>1, <2>2 DEF HashMisnamed, Holds
  <2>3. CASE Holds(nrObjects, OldName(r), EntryAt(r).content) /\ nrObjects[OldName(r)] # None
    <3>1. PICK step \in {"compare", "copy"} : nrRun' = [nrRun EXCEPT ![r] = [old EXCEPT !.step = step]]
      BY <1>9, <2>3 DEF HashMisnamed, Goes
    <3>2. nrRun'[r] = [old EXCEPT !.step = step]
      BY <1>1, <3>1
    <3>3. /\ nrRun'[r].step = step /\ nrRun'[r].gen = old.gen /\ nrRun'[r].placed = old.placed
          /\ nrRun'[r].batch = old.batch
      BY <2>1, <3>2 DEF Repair
    <3>4. EntryAt(r)' = EntryAt(r) /\ OldName(r)' = OldName(r) /\ nrObjects' = nrObjects
      BY <2>1, <3>3 DEF EntryAt, OldName, RunOnly, nrStore
    <3>5. Is(OldName(r), old.gen, EntryAt(r).content)'
      BY <2>3, <3>4 DEF Is, Holds
    <3>6. old.gen <= nrGen' /\ old.placed <= nrGen'
      BY <1>1, <1>2, <2>1
    <3>7. (nrObjects'[OldName(r)'] # None /\ nrObjects'[OldName(r)'].gen = old.gen
             => nrObjects'[OldName(r)'].content = EntryAt(r)'.content)
      BY <2>3, <3>4 DEF Holds
    <3> QED BY <3>1, <3>3, <3>6, <3>7 DEF PlacedInv, Is
  <2> QED BY <2>2, <2>3
<1>10. CASE ComparePlaces(r)
  <2> DEFINE n == EntryAt(r).name
  <2>1. old # None /\ old.step = "compare" /\ old \in Repair /\ RunOnly
    BY <1>2, <1>10 DEF ComparePlaces, AtStep
  <2>2. CASE ~Holds(nrObjects, n, EntryAt(r).content) \/ nrObjects[n] = None
    BY <1>4, <1>10, <2>1, <2>2 DEF ComparePlaces, Holds
  <2>3. CASE Holds(nrObjects, n, EntryAt(r).content) /\ nrObjects[n] # None
    <3>1. PICK g \in Nat : g = nrObjects[n].gen /\ g <= nrGen
      BY <1>3, <2>1, <2>3 DEF PlacesInv, NrInv, NrTypeOK, NrObject
    <3>2. nrRun'[r] = [old EXCEPT !.step = "owner", !.placed = g]
      BY <1>1, <1>10, <2>3, <3>1 DEF ComparePlaces, InPlace
    <3>3. /\ nrRun'[r].step = "owner" /\ nrRun'[r].gen = old.gen /\ nrRun'[r].placed = g
          /\ nrRun'[r].batch = old.batch
      BY <2>1, <3>2 DEF Repair
    <3>4. EntryAt(r)' = EntryAt(r) /\ OldName(r)' = OldName(r) /\ nrObjects' = nrObjects
      BY <2>1, <3>3 DEF EntryAt, OldName, RunOnly, nrStore
    <3>5. Is(OldName(r), old.gen, EntryAt(r).content)
      BY <2>1 DEF PlacesInv, PlacedInv
    <3>6. old.gen <= nrGen' /\ g <= nrGen'
      BY <1>1, <1>2, <2>1, <3>1
    <3>7. (nrObjects'[OldName(r)'] # None /\ nrObjects'[OldName(r)'].gen = old.gen
             => nrObjects'[OldName(r)'].content = EntryAt(r)'.content)
      BY <3>4, <3>5 DEF Is
    <3>8. nrObjects'[EntryAt(r)'.name].content = EntryAt(r)'.content
      BY <2>3, <3>4 DEF Holds
    <3> QED BY <3>3, <3>6, <3>7, <3>8 DEF PlacedInv, Is
  <2> QED BY <2>2, <2>3
<1>11. CASE CopyObject(r)
  <2> DEFINE n == EntryAt(r).name
             o == nrObjects[OldName(r)]
             refused == nrObjects[n] # None \/ o = None \/ (o # None => o.gen # nrRun[r].gen)
  <2>1. old # None /\ old.step = "copy" /\ old \in Repair
    BY <1>2, <1>11 DEF CopyObject, AtStep
  <2>2. CASE refused
    BY <1>4, <1>11, <2>1, <2>2 DEF CopyObject
  <2>3. CASE ~refused
    <3>1. PICK g \in Nat : g = nrGen + 1
      BY <1>1
    <3>2. /\ nrGen' = g /\ InPlace(r, g)
          /\ nrObjects' = [nrObjects EXCEPT ![n] = [gen |-> g, content |-> o.content]]
      BY <1>11, <2>3, <3>1 DEF CopyObject
    <3>3. nrRun'[r] = [old EXCEPT !.step = "owner", !.placed = g]
      BY <1>1, <3>2 DEF InPlace
    <3>4. /\ nrRun'[r].step = "owner" /\ nrRun'[r].gen = old.gen /\ nrRun'[r].placed = g
          /\ nrRun'[r].batch = old.batch
      BY <2>1, <3>3 DEF Repair
    <3>5. EntryAt(r)' = EntryAt(r) /\ OldName(r)' = OldName(r)
      BY <3>4 DEF EntryAt, OldName
    <3>6. Is(OldName(r), old.gen, EntryAt(r).content)
      BY <2>1 DEF PlacesInv, PlacedInv
    <3>7. o.content = EntryAt(r).content
      BY <2>3, <3>6 DEF Is
    <3>8. n \in Objects /\ OldName(r) \in Objects /\ OldName(r) # n
      BY <1>3, <2>1, EntryFacts, RepairConstants
    <3>9. nrObjects'[n].content = EntryAt(r).content /\ nrObjects'[OldName(r)] = o
      <4>1. nrObjects \in [Objects -> NrObject \cup {None}]
        BY DEF NrInv, NrTypeOK
      <4>2. nrObjects'[n] = [gen |-> g, content |-> o.content] /\ nrObjects'[OldName(r)] = o
        BY <3>2, <3>8, <4>1
      <4> QED BY <3>7, <4>2
    <3>10. old.gen <= nrGen' /\ g <= nrGen'
      BY <1>1, <1>2, <2>1, <3>2
    <3>11. nrObjects'[OldName(r)'].content = EntryAt(r)'.content
           /\ nrObjects'[EntryAt(r)'.name].content = EntryAt(r)'.content
      BY <3>5, <3>7, <3>9
    <3> QED BY <3>4, <3>10, <3>11 DEF PlacedInv, Is
  <2> QED BY <2>2, <2>3
<1>12. CASE AskOwner(r)
  <2>1. old # None /\ old.step = "owner" /\ old \in Repair /\ RunOnly
    BY <1>2, <1>12 DEF AskOwner, AtStep
  <2>2. CASE IsEntry(OldName(r))
    BY <1>4, <1>12, <2>1, <2>2 DEF AskOwner
  <2>3. CASE ~IsEntry(OldName(r))
    <3>1. nrRun'[r] = [old EXCEPT !.step = "delete", !.asked = nrIds]
      BY <1>1, <1>12, <2>3 DEF AskOwner
    <3>2. /\ nrRun'[r].step = "delete" /\ nrRun'[r].gen = old.gen /\ nrRun'[r].placed = old.placed
          /\ nrRun'[r].batch = old.batch
      BY <2>1, <3>1 DEF Repair
    <3>3. EntryAt(r)' = EntryAt(r) /\ OldName(r)' = OldName(r) /\ nrObjects' = nrObjects
      BY <2>1, <3>2 DEF EntryAt, OldName, RunOnly, nrStore
    <3>4. Is(OldName(r), old.gen, EntryAt(r).content) /\ Is(EntryAt(r).name, old.placed, EntryAt(r).content)
      BY <2>1 DEF PlacesInv, PlacedInv
    <3>5. old.gen <= nrGen' /\ old.placed <= nrGen'
      BY <1>1, <1>2, <2>1
    <3> QED BY <3>2, <3>3, <3>4, <3>5 DEF PlacedInv, Is
  <2> QED BY <2>2, <2>3
<1>13. CASE DeleteMisnamed(r) \/ RepairFails(r)
  BY <1>4, <1>13 DEF DeleteMisnamed, RepairFails, AtStep
<1>14. CASE AbortRun(r)
  BY <1>1, <1>14 DEF AbortRun, PlacedInv
<1> QED BY <1>5, <1>6, <1>7, <1>8, <1>9, <1>10, <1>11, <1>12, <1>13, <1>14 DEF RepairStep

LEMMA PlacesNext == NrInv /\ PlacesInv /\ [NrNext]_nrVars => PlacesInv'
  <1> SUFFICES ASSUME NrInv, PlacesInv, [NrNext]_nrVars PROVE PlacesInv'
    OBVIOUS
  <1>1. Newer /\ NrTypeOK'
    BY StepIsNewer, RepairNext DEF NrInv
  <1>2. \A o \in Objects : nrObjects'[o] # None => nrObjects'[o].gen <= nrGen'
    BY <1>1 DEF Newer
  <1>3. ASSUME NEW q \in NrRepairers, nrRun'[q] = nrRun[q] PROVE PlacedInv(q)'
    BY <1>1, <1>3, PlacedStays
  <1>4. ASSUME UNCHANGED nrRun PROVE PlacesInv'
    BY <1>2, <1>3, <1>4 DEF PlacesInv
  <1>5. ASSUME NEW r \in NrRepairers, RepairStep(r) PROVE PlacesInv'
    <2>1. PlacedInv(r)'
      BY <1>1, <1>5, PlacedStep
    <2>2. \A q \in NrRepairers : q # r => nrRun'[q] = nrRun[q]
      <3>1. nrRun \in [NrRepairers -> Repair \cup {None}]
        BY DEF NrInv, NrTypeOK
      <3>2. \E run : nrRun' = [nrRun EXCEPT ![r] = run]
        <4>1. ASSUME Finish(r) \/ FailEntry(r) \/ TryAgain(r) PROVE \E run : nrRun' = [nrRun EXCEPT ![r] = run]
          BY <4>1 DEF Finish, FailEntry, TryAgain
        <4>2. CASE StartRun(r) \/ AbortRun(r)
          BY <4>2 DEF StartRun, AbortRun
        <4>3. CASE ListEntries(r)
          BY <4>3 DEF ListEntries
        <4>4. CASE StatPath(r) \/ FindMisnamed(r) \/ AskOwner(r)
          BY <4>1, <4>4 DEF StatPath, FindMisnamed, AskOwner
        <4>5. CASE HashMisnamed(r)
          BY <4>1, <4>5 DEF HashMisnamed, Goes
        <4>6. CASE ComparePlaces(r)
          BY <4>1, <4>6 DEF ComparePlaces, InPlace
        <4>7. CASE CopyObject(r)
          BY <4>1, <4>7 DEF CopyObject, InPlace
        <4>8. CASE DeleteMisnamed(r) \/ RepairFails(r)
          BY <4>1, <4>8 DEF DeleteMisnamed, RepairFails
        <4> QED BY <1>5, <4>2, <4>3, <4>4, <4>5, <4>6, <4>7, <4>8 DEF RepairStep
      <3> QED BY <3>1, <3>2
    <2> QED BY <1>2, <1>3, <2>1, <2>2 DEF PlacesInv
  <1>6. \/ UNCHANGED nrRun
        \/ \E r \in NrRepairers : RepairStep(r)
    BY DEF NrNext, nrVars, DeleteRow, PublishObject, EndWrite, RemoveObject
  <1> QED BY <1>4, <1>5, <1>6

\* What RepairLosesNoContent says of a step.
LosesNoContent ==
    nrRows' = nrRows /\ nrWrite' = nrWrite =>
      \A n \in Entries :
        /\ Kept(nrRows, nrObjects, n) =>
             \/ Kept(nrRows, nrObjects', n)
             \/ \E r \in NrRepairers : AddedSince(r, n) \/ ReplacedSince(r, n)
        /\ nrObjects[n] # None =>
             nrObjects'[n] = nrObjects[n] \/ \E r \in NrRepairers : AddedSince(r, n)

LEMMA RepairStepLosesNothing == NrInv /\ PlacesInv /\ [NrNext]_nrVars => LosesNoContent
  <1> SUFFICES ASSUME NrInv, PlacesInv, [NrNext]_nrVars, nrRows' = nrRows, nrWrite' = nrWrite,
                      NEW n \in Entries
               PROVE  /\ Kept(nrRows, nrObjects, n) =>
                           \/ Kept(nrRows, nrObjects', n)
                           \/ \E r \in NrRepairers : AddedSince(r, n) \/ ReplacedSince(r, n)
                      /\ nrObjects[n] # None =>
                           nrObjects'[n] = nrObjects[n] \/ \E r \in NrRepairers : AddedSince(r, n)
    BY DEF LosesNoContent
  <1>0. n \in NrNames /\ n \in Objects /\ Misnamed(n) \in Objects
    BY RepairConstants DEF Entries
  <1>1. CASE nrObjects' = nrObjects
    BY <1>1
  <1>2. ASSUME NEW r \in NrRepairers, CopyObject(r), nrObjects' # nrObjects
        PROVE  /\ Kept(nrRows, nrObjects, n) => Kept(nrRows, nrObjects', n)
               /\ nrObjects[n] # None => nrObjects'[n] = nrObjects[n]
    <2> DEFINE m == EntryAt(r).name
               o == nrObjects[OldName(r)]
    <2>1. nrRun[r] # None /\ nrRun[r].step = "copy"
      BY <1>2 DEF CopyObject, AtStep
    <2>2. m \in NrNames /\ OldName(r) = Misnamed(m) /\ OldName(r) \in Objects
      BY <2>1, EntryFacts DEF OldName
    <2>3. /\ nrObjects[m] = None /\ o # None /\ nrGen' = nrGen + 1
          /\ nrObjects' = [nrObjects EXCEPT ![m] = [gen |-> nrGen + 1, content |-> o.content]]
          /\ UNCHANGED <<nrRows, nrIds>>
      BY <1>2 DEF CopyObject
    <2>4. o.content \in NrContents
      BY <2>2, <2>3 DEF NrInv, NrTypeOK, NrObject
    <2> HIDE DEF m, o
    <2>5. \A x \in Objects : x # m => nrObjects'[x] = nrObjects[x]
      BY <2>2, <2>3, <2>4, NewObject
    <2>6. \A x \in Objects : nrObjects[x] # None => nrObjects'[x] = nrObjects[x]
      BY <2>3, <2>5
    <2> QED BY <1>0, <2>6 DEF Kept, Holds
  <1>3. ASSUME NEW r \in NrRepairers, DeleteMisnamed(r), nrObjects' # nrObjects
        PROVE  /\ Kept(nrRows, nrObjects, n) =>
                    Kept(nrRows, nrObjects', n) \/ AddedSince(r, n) \/ ReplacedSince(r, n)
               /\ nrObjects[n] # None => nrObjects'[n] = nrObjects[n] \/ AddedSince(r, n)
    <2> DEFINE d == OldName(r)
    <2>1. AtStep(r, "delete") /\ SameGeneration(r) /\ nrObjects' = [nrObjects EXCEPT ![d] = None]
      BY <1>3 DEF DeleteMisnamed
    <2>2. d \in Objects /\ (IsEntry(d) => nrRows[d].id > nrRun[r].asked)
      BY <2>1, DeletedIsNotOld
    <2>3. EntryAt(r).name \in NrNames /\ d = Misnamed(EntryAt(r).name)
      BY <2>1, EntryFacts DEF AtStep, OldName
    <2>4. \A x \in Objects : x # d => nrObjects'[x] = nrObjects[x]
      BY <2>1 DEF NrInv, NrTypeOK
    <2>5. ASSUME nrObjects[n] # None, n = d PROVE AddedSince(r, n)
      BY <2>1, <2>2, <2>5 DEF AddedSince, SameGeneration, IsEntry
    <2>6. ASSUME Kept(nrRows, nrObjects, n), ~AddedSince(r, n), ~ReplacedSince(r, n)
          PROVE  Kept(nrRows, nrObjects', n)
      <3>1. CASE Holds(nrObjects, n, nrRows[n].content)
        <4>1. nrObjects'[n] = nrObjects[n]
          BY <1>0, <2>4, <2>5, <2>6, <3>1 DEF Holds
        <4> QED BY <3>1, <4>1 DEF Kept, Holds
      <3>2. CASE Holds(nrObjects, Misnamed(n), nrRows[n].content) /\ Misnamed(n) # d
        <4>1. nrObjects'[Misnamed(n)] = nrObjects[Misnamed(n)]
          BY <1>0, <2>4, <3>2
        <4> QED BY <3>2, <4>1 DEF Kept, Holds
      <3>3. CASE Holds(nrObjects, Misnamed(n), nrRows[n].content) /\ Misnamed(n) = d
        <4>1. n = EntryAt(r).name /\ n # d
          BY <1>0, <2>3, <3>3, RepairConstants
        <4>2. /\ Is(OldName(r), nrRun[r].gen, EntryAt(r).content)
              /\ Is(EntryAt(r).name, nrRun[r].placed, EntryAt(r).content)
          BY <2>1 DEF AtStep, PlacesInv, PlacedInv
        <4>3. EntryAt(r).content = nrRows[n].content
          BY <2>1, <3>3, <4>2 DEF Is, Holds, SameGeneration
        <4>4. nrObjects[n] # None /\ nrObjects[n].gen = nrRun[r].placed
          BY <2>1, <2>6, <4>1 DEF ReplacedSince
        <4>5. nrObjects[n].content = nrRows[n].content
          BY <4>1, <4>2, <4>3, <4>4 DEF Is
        <4>6. nrObjects'[n] = nrObjects[n]
          BY <1>0, <2>4, <4>1
        <4> QED BY <4>4, <4>5, <4>6 DEF Kept, Holds
      <3> QED BY <2>6, <3>1, <3>2, <3>3 DEF Kept
    <2> QED BY <1>0, <2>4, <2>5, <2>6
  <1>4. \/ nrObjects' = nrObjects
        \/ \E r \in NrRepairers : CopyObject(r) \/ DeleteMisnamed(r)
    <2>1. CASE UNCHANGED nrVars
      BY <2>1 DEF nrVars
    <2>2. ASSUME NEW r \in NrRepairers, RepairStep(r)
          PROVE  nrObjects' = nrObjects \/ CopyObject(r) \/ DeleteMisnamed(r)
      BY <2>2 DEF RepairStep, StartRun, ListEntries, StatPath, FindMisnamed, HashMisnamed, ComparePlaces,
                  AskOwner, RepairFails, AbortRun, RunOnly, nrStore
    <2>3. ASSUME NEW m \in NrNames, NEW c \in NrContents, PublishObject(m, c) PROVE FALSE
      <3>1. nrWrite = None /\ nrWrite' = [name |-> m, content |-> c]
        BY <2>3 DEF PublishObject
      <3>2. [name |-> m, content |-> c] \in NrPut
        BY DEF NrPut
      <3> QED BY <3>1, <3>2, RepairAssumption
    <2>4. ASSUME NEW m \in NrNames, DeleteRow(m) PROVE nrObjects' = nrObjects
      BY <2>4 DEF DeleteRow
    <2>5. ASSUME NEW b \in BOOLEAN, EndWrite(b) PROVE nrObjects' = nrObjects
      BY <2>5 DEF EndWrite
    <2>6. CASE RemoveObject
      BY <2>6 DEF RemoveObject
    <2> QED BY <2>1, <2>2, <2>3, <2>4, <2>5, <2>6 DEF NrNext
  <1> QED BY <1>1, <1>2, <1>3, <1>4

\* However many homeservers repair beside the users' writes, and wherever they are cut
\* short: no entry loses the last copy of its content, also where the object at its path
\* is another's, but for a PUT that published over the copy the repair had checked or
\* committed after the repair had asked, none the object at its path but for the latter,
\* and the repair is marked as finished only when no old entry waits for it
\* (gcs_name_repair.rs).
THEOREM RepairIsSound == NrSpec => RepairSound
  <1>1. NrInit => NrInv
    BY RepairInit
  <1>2. NrInv /\ [NrNext]_nrVars => NrInv'
    BY RepairNext
  <1>3. NrInv => NrTypeOK /\ MarkedMeansRepaired
    BY DEF NrInv
  <1>4. NrSpec => [](NrTypeOK /\ MarkedMeansRepaired)
    BY <1>1, <1>2, <1>3, PTL DEF NrSpec
  <1>5. NrInit => PlacesInv
    <2> SUFFICES ASSUME NrInit PROVE PlacesInv
      OBVIOUS
    <2>1. ASSUME NEW o \in Objects, nrObjects[o] # None PROVE nrObjects[o].gen <= nrGen
      <3>1. nrObjects[o].gen = 1 /\ nrGen = 1
        BY <2>1 DEF NrInit
      <3> QED BY <3>1
    <2>2. \A r \in NrRepairers : nrRun[r] = None
      BY DEF NrInit
    <2> QED BY <2>1, <2>2 DEF PlacesInv, PlacedInv
  <1>6. NrSpec => [][LosesNoContent]_nrVars
    <2>1. NrInv /\ PlacesInv /\ [NrNext]_nrVars => [LosesNoContent]_nrVars
      BY RepairStepLosesNothing
    <2> QED BY <1>1, <1>2, <1>5, <2>1, PlacesNext, PTL DEF NrSpec
  <1>7. NrSpec => RepairLosesNoContent
    BY <1>6, PTL DEF RepairLosesNoContent, LosesNoContent
  <1> QED BY <1>4, <1>7, PTL DEF RepairSound

-----------------------------------------------------------------------------
(* Bandwidth *)

\* What the pool's limiter of rb has left for k, and what one limiter would have.
LeftFor(k, rb) == IF rb \in DOMAIN rlPool THEN rlBucket[rlPool[rb]].left[k] ELSE Capacity(rb)
IdealFor(k, rb) == IF <<k, rb>> \in DOMAIN rlIdeal THEN rlIdeal[<<k, rb>>] ELSE Capacity(rb)

\* A key none of whose requests held a limiter that the pool dropped has one limiter
\* only, the pool's, and that is what it has taken its cells from.
OneLimiter(k, rb) ==
    /\ IdealFor(k, rb) = LeftFor(k, rb)
    /\ \A r \in Held(k, rb) : rb \in DOMAIN rlPool /\ rlReq[r].limiter = rlPool[rb]

\* Requests that are counted, and rates that can be.
Counted ==
    /\ DOMAIN rlPool \subseteq RateBursts
    /\ \A r \in RlRequests :
         rlReq[r] # None => <<rlReq[r].key, rlBucket[rlReq[r].limiter].rb>> \in DOMAIN rlIdeal

RlInv ==
    /\ RlTypeOK /\ Counted
    /\ \A k \in RlKeys, rb \in RateBursts : <<k, rb>> \notin rlTwice => OneLimiter(k, rb)

\* A limiter admits something.
LEMMA CapacityType == ASSUME NEW rb \in RateBursts PROVE Capacity(rb) \in Nat \ {0}
  BY RateAssumption DEF Capacity, RateBursts

\* A patch has a field of the row's, or none.
LEMMA PatchType ==
    ASSUME NEW p \in RlPatches
    PROVE  /\ p.storage \in Nat \cup {Inherit, Unlimited, AbsentField}
           /\ p.rate \in (Nat \ {0}) \cup {Inherit, Unlimited, AbsentField}
           /\ p.burst \in Nat \cup {None, AbsentField}
<1>1. PICK a \in RlArgs : ParsedArgs(a) /\ p = PatchOf(a)
  BY DEF RlPatches
<1>2. /\ a.storage \in Nat \cup {None, Reset, Unlimited}
      /\ a.rate \in (Nat \ {0}) \cup {None, Reset, Unlimited}
      /\ a.burst \in Nat \cup {None, Reset}
  BY <1>1, RateAssumption DEF ParsedArgs
<1> QED
  BY <1>1, <1>2, RateAssumption DEF PatchOf, FieldUpdate

\* A patched row is a row.
LEMMA PatchedRow ==
    ASSUME NEW p \in RlPatches, ValidPatch(p), NEW row \in QuotaRow,
           ValidQuota(Merge(FromRow(row), p))
    PROVE  ToRow(Merge(FromRow(row), p)) \in QuotaRow
<1> DEFINE q == FromRow(row)
           m == Merge(q, p)
<1>1. /\ q.storage \in Nat \cup {Inherit, Unlimited}
      /\ q.rate \in (Nat \ {0}) \cup {Inherit, Unlimited}
      /\ q.burst \in {None} \cup (1..IntMax)
  BY RateAssumption DEF FromRow, QuotaRow, FromDbInt, FromDbRate
<1>2. /\ m.storage = IF p.storage = AbsentField THEN q.storage ELSE p.storage
      /\ m.rate = IF p.rate = AbsentField THEN q.rate ELSE p.rate
      /\ m.burst = IF p.burst = AbsentField THEN q.burst ELSE p.burst
  BY DEF Merge, FromRow
<1> HIDE DEF q, m
<1>3. /\ m.storage \in Nat \cup {Inherit, Unlimited}
      /\ m.rate \in (Nat \ {0}) \cup {Inherit, Unlimited}
      /\ m.burst \in {None} \cup (1..IntMax)
  BY <1>1, <1>2, PatchType, RateAssumption DEF ValidPatch, ValidBurst
<1>4. /\ ToDbInt(m.storage) \in {None, -1} \cup (0..IntMax)
      /\ ToDbRate(m.rate) \in {None, Unlimited} \cup (Nat \ {0})
  BY <1>3, RateAssumption DEF ToDbInt, ToDbRate
<1> QED
  BY <1>3, <1>4 DEF ToRow, QuotaRow, m, q

\* What is enforced is a rate.
LEMMA EnforcedType ==
    ASSUME NEW row \in QuotaRow, EnforcedRate(FromRow(row)) # None
    PROVE  <<EnforcedRate(FromRow(row)), EnforcedBurst(FromRow(row))>> \in RateBursts
<1> DEFINE q == FromRow(row)
<1>1. q.rate \in (Nat \ {0}) \cup {Inherit, Unlimited} /\ q.burst \in {None} \cup (1..IntMax)
  BY RateAssumption DEF FromRow, QuotaRow, FromDbRate
<1> HIDE DEF q
<1>2. EnforcedRate(q) # None => EnforcedRate(q) \in Nat \ {0}
  BY <1>1, RateAssumption DEF EnforcedRate, Resolve
<1>3. EnforcedBurst(q) \in (Nat \ {0}) \cup {None}
  BY <1>1, RateAssumption DEF EnforcedBurst
<1> QED
  BY <1>2, <1>3 DEF RateBursts, q

\* The bucket of a limiter is its cells.
LEMMA BucketFacts ==
    ASSUME RlInv
    PROVE  /\ \A l \in DOMAIN rlBucket :
                /\ rlBucket[l] \in Limiter
                /\ Capacity(rlBucket[l].rb) \in Nat \ {0}
           /\ DOMAIN rlBucket = 1..Len(rlBucket) /\ Len(rlBucket) \in Nat
           /\ \A rb \in DOMAIN rlPool : rlPool[rb] \in DOMAIN rlBucket
           /\ \A r \in RlRequests : rlReq[r] # None =>
                rlReq[r].key \in RlKeys /\ rlReq[r].limiter \in DOMAIN rlBucket
<1>1. DOMAIN rlBucket = 1..Len(rlBucket) /\ Len(rlBucket) \in Nat
  BY DEF RlInv, RlTypeOK
<1>2. \A l \in DOMAIN rlBucket : rlBucket[l] \in Limiter
  BY <1>1 DEF RlInv, RlTypeOK
<1>3. \A l \in DOMAIN rlBucket : Capacity(rlBucket[l].rb) \in Nat \ {0}
  BY <1>2, CapacityType DEF Limiter
<1>4. \A rb \in DOMAIN rlPool : rlPool[rb] \in DOMAIN rlBucket
  BY DEF RlInv, RlTypeOK
<1>5. ASSUME NEW r \in RlRequests, rlReq[r] # None
      PROVE  rlReq[r].key \in RlKeys /\ rlReq[r].limiter \in DOMAIN rlBucket
  <2>1. rlReq[r] \in [key : RlKeys, limiter : DOMAIN rlBucket]
    BY <1>5 DEF RlInv, RlTypeOK
  <2> QED
    BY <2>1
<1> QED
  BY <1>1, <1>2, <1>3, <1>4, <1>5

\* A request takes the pool's limiter, which is there or new.
LEMMA ThrottleKeeps ==
    ASSUME RlInv, NEW r \in RlRequests, NEW k \in RlKeys, NEW rb \in RateBursts, Throttle(r, k, rb)
    PROVE  RlInv'
<1> DEFINE req == [key |-> k, limiter |-> rlPool'[rb]]
           id == Len(rlBucket) + 1
<1>0. Capacity(rb) \in Nat \ {0}
  BY CapacityType
<1>1. /\ rb \in DOMAIN rlPool'
      /\ DOMAIN rlPool' = DOMAIN rlPool \cup {rb}
      /\ \A x \in DOMAIN rlPool : rlPool'[x] = rlPool[x]
  <2>1. CASE rb \in DOMAIN rlPool
    <3>1. rlPool' = rlPool
      BY <2>1 DEF Throttle
    <3> QED
      BY <2>1, <3>1
  <2>2. CASE rb \notin DOMAIN rlPool
    <3>1. rlPool' = [x \in DOMAIN rlPool \cup {rb} |-> IF x = rb THEN id ELSE rlPool[x]]
      BY <2>2 DEF Throttle
    <3> HIDE DEF id
    <3> QED
      BY <2>2, <3>1
  <2> QED
    BY <2>1, <2>2
<1>2. rlReq' = [rlReq EXCEPT ![r] = req] /\ rlReq[r] = None
  BY DEF Throttle
<1>10. /\ rlBucket' \in Seq(Limiter)
       /\ DOMAIN rlBucket \subseteq DOMAIN rlBucket'
       /\ \A l \in DOMAIN rlBucket : rlBucket'[l] = rlBucket[l]
       /\ \A l \in DOMAIN rlBucket' : l \in DOMAIN rlBucket \/ rlBucket'[l] = NewLimiter(rb)
       /\ rlPool' \in [DOMAIN rlPool' -> DOMAIN rlBucket']
       /\ rb \notin DOMAIN rlPool => rlBucket'[rlPool'[rb]] = NewLimiter(rb)
  <2>1. CASE rb \in DOMAIN rlPool
    BY <2>1 DEF Throttle, RlInv, RlTypeOK
  <2>2. CASE rb \notin DOMAIN rlPool
    <3>1. /\ rlBucket' = Append(rlBucket, NewLimiter(rb))
          /\ rlPool' = [x \in DOMAIN rlPool \cup {rb} |-> IF x = rb THEN id ELSE rlPool[x]]
      BY <2>2 DEF Throttle
    <3>2. NewLimiter(rb) \in Limiter
      BY <1>0 DEF NewLimiter, Limiter
    <3>3. /\ rlBucket' \in Seq(Limiter)
          /\ DOMAIN rlBucket' = 1..id /\ DOMAIN rlBucket = 1..(id - 1) /\ id \in Nat
          /\ \A l \in DOMAIN rlBucket : rlBucket'[l] = rlBucket[l]
          /\ rlBucket'[id] = NewLimiter(rb)
      BY <3>1, <3>2, BucketFacts DEF RlInv, RlTypeOK
    <3> QED
      BY <2>2, <3>1, <3>3, BucketFacts
  <2> QED
    BY <2>1, <2>2
<1>11. /\ rlIdeal' \in [DOMAIN rlIdeal' -> Int]
       /\ DOMAIN rlIdeal' = DOMAIN rlIdeal \cup {<<k, rb>>}
       /\ \A x \in DOMAIN rlIdeal : rlIdeal'[x] = rlIdeal[x]
       /\ <<k, rb>> \notin DOMAIN rlIdeal => rlIdeal'[<<k, rb>>] = Capacity(rb)
  <2> DEFINE y == <<k, rb>>
  <2>1. /\ rlIdeal \in [DOMAIN rlIdeal -> Int]
        /\ rlIdeal' = IF y \in DOMAIN rlIdeal THEN rlIdeal
                      ELSE [x \in DOMAIN rlIdeal \cup {y} |-> IF x = y THEN Capacity(rb) ELSE rlIdeal[x]]
    BY DEF Throttle, RlInv, RlTypeOK
  <2> HIDE DEF y
  <2>2. /\ rlIdeal' \in [DOMAIN rlIdeal' -> Int]
        /\ DOMAIN rlIdeal' = DOMAIN rlIdeal \cup {y}
        /\ \A x \in DOMAIN rlIdeal : rlIdeal'[x] = rlIdeal[x]
        /\ y \notin DOMAIN rlIdeal => rlIdeal'[y] = Capacity(rb)
    <3>1. CASE y \in DOMAIN rlIdeal
      BY <2>1, <3>1
    <3>2. CASE y \notin DOMAIN rlIdeal
      BY <1>0, <2>1, <3>2
    <3> QED
      BY <3>1, <3>2
  <2> QED
    BY <2>2 DEF y
<1>12. UNCHANGED <<rlRow, rlTwice>>
  BY DEF Throttle
<1>13. NewLimiter(rb).rb = rb /\ \A j \in RlKeys : NewLimiter(rb).left[j] = Capacity(rb)
  BY DEF NewLimiter
<1>14. \A x \in DOMAIN rlPool' : rlBucket'[rlPool'[x]].rb = x
  BY <1>1, <1>10, <1>13, BucketFacts DEF RlInv, RlTypeOK
<1>15. RlTypeOK'
  <2>1. rlReq' \in [RlRequests -> [key : RlKeys, limiter : DOMAIN rlBucket'] \cup {None}]
    BY <1>1, <1>2, <1>10 DEF RlInv, RlTypeOK
  <2>2. \A l \in DOMAIN rlBucket', j \in RlKeys : rlBucket'[l].left[j] <= Capacity(rlBucket'[l].rb)
    <3> SUFFICES ASSUME NEW l \in DOMAIN rlBucket', NEW j \in RlKeys
                 PROVE  rlBucket'[l].left[j] <= Capacity(rlBucket'[l].rb)
      OBVIOUS
    <3>1. CASE l \in DOMAIN rlBucket
      BY <1>10, <3>1 DEF RlInv, RlTypeOK
    <3>2. CASE l \notin DOMAIN rlBucket
      BY <1>0, <1>10, <1>13, <3>2
    <3> QED
      BY <3>1, <3>2
  <2>3. DOMAIN rlIdeal' \cup rlTwice' \subseteq RlKeys \X RateBursts
    BY <1>11, <1>12 DEF RlInv, RlTypeOK
  <2> QED
    BY <1>10, <1>11, <1>12, <1>14, <2>1, <2>2, <2>3 DEF RlInv, RlTypeOK
<1>16. Counted'
  <2>1. ASSUME NEW s \in RlRequests, rlReq'[s] # None
        PROVE  <<rlReq'[s].key, rlBucket'[rlReq'[s].limiter].rb>> \in DOMAIN rlIdeal'
    <3>1. CASE s = r
      BY <1>1, <1>2, <1>11, <1>14, <3>1 DEF RlInv, RlTypeOK
    <3>2. CASE s # r
      BY <1>2, <1>10, <1>11, <2>1, <3>2, BucketFacts DEF RlInv, RlTypeOK, Counted
    <3> QED
      BY <3>1, <3>2
  <2> QED
    BY <1>1, <2>1 DEF Counted, RlInv
<1>17. ASSUME NEW j \in RlKeys, NEW b \in RateBursts, <<j, b>> \notin rlTwice'
       PROVE  OneLimiter(j, b)'
  <2>0. OneLimiter(j, b)
    BY <1>12, <1>17 DEF RlInv
  <2>1. IdealFor(j, b)' = IdealFor(j, b)
    BY <1>11 DEF IdealFor
  <2>2. LeftFor(j, b)' = LeftFor(j, b)
    BY <1>1, <1>10, <1>13, BucketFacts DEF LeftFor
  <2>3. ASSUME NEW s \in Held(j, b)' PROVE b \in DOMAIN rlPool' /\ rlReq'[s].limiter = rlPool'[b]
    <3>1. CASE s = r
      BY <1>1, <1>2, <1>14, <2>3, <3>1 DEF Held, RlInv, RlTypeOK
    <3>2. CASE s # r
      <4>1. s \in Held(j, b)
        BY <1>2, <1>10, <2>3, <3>2, BucketFacts DEF Held, RlInv, RlTypeOK
      <4> QED
        BY <1>1, <1>2, <2>0, <3>2, <4>1 DEF OneLimiter, Held, RlInv, RlTypeOK
    <3> QED
      BY <3>1, <3>2
  <2> QED
    BY <2>0, <2>1, <2>2, <2>3 DEF OneLimiter
<1> QED
  BY <1>15, <1>16, <1>17 DEF RlInv

\* A cell is taken from the limiter the request holds.
LEMMA TakeCellKeeps ==
    ASSUME RlInv, NEW r \in RlRequests, TakeCell(r)
    PROVE  RlInv'
<1> DEFINE l == rlReq[r].limiter
           k == rlReq[r].key
           rb == rlBucket[l].rb
<1>1. /\ rlReq[r] # None /\ rlBucket[l].left[k] > 0
      /\ rlBucket' = [rlBucket EXCEPT ![l].left[k] = @ - 1]
      /\ rlIdeal' = [rlIdeal EXCEPT ![<<k, rb>>] = @ - 1]
      /\ UNCHANGED <<rlRow, rlPool, rlReq, rlTwice>>
  BY DEF TakeCell
<1>2. /\ k \in RlKeys /\ l \in DOMAIN rlBucket /\ rb \in RateBursts
      /\ <<k, rb>> \in DOMAIN rlIdeal /\ rlBucket[l].left[k] \in Nat
      /\ rlBucket[l] \in Limiter
  BY <1>1, BucketFacts DEF RlInv, Counted, Limiter
<1> HIDE DEF l, k, rb
<1> USE DEF Limiter
<1>3. /\ DOMAIN rlBucket' = DOMAIN rlBucket
      /\ \A x \in DOMAIN rlBucket : x # l => rlBucket'[x] = rlBucket[x]
      /\ rlBucket'[l] = [rlBucket[l] EXCEPT !.left = [rlBucket[l].left EXCEPT ![k] = rlBucket[l].left[k] - 1]]
  BY <1>1, <1>2
<1>4. /\ rlBucket'[l].rb = rb
      /\ rlBucket'[l].left[k] = rlBucket[l].left[k] - 1
      /\ \A j \in RlKeys : j # k => rlBucket'[l].left[j] = rlBucket[l].left[j]
      /\ rlBucket'[l] \in Limiter
  BY <1>1, <1>2, <1>3 DEF rb
<1>5. \A x \in DOMAIN rlBucket : rlBucket'[x].rb = rlBucket[x].rb
  BY <1>3, <1>4 DEF rb
<1>6. /\ DOMAIN rlIdeal' = DOMAIN rlIdeal /\ rlIdeal' \in [DOMAIN rlIdeal -> Int]
      /\ rlIdeal'[<<k, rb>>] = rlIdeal[<<k, rb>>] - 1
      /\ \A x \in DOMAIN rlIdeal : x # <<k, rb>> => rlIdeal'[x] = rlIdeal[x]
  BY <1>1, <1>2 DEF RlInv, RlTypeOK
<1>7. RlTypeOK'
  <2>1. rlBucket' \in Seq(Limiter)
    <3>1. rlBucket' = [x \in 1..Len(rlBucket) |-> rlBucket'[x]] /\ Len(rlBucket) \in Nat
      BY <1>1, BucketFacts
    <3>2. \A x \in 1..Len(rlBucket) : rlBucket'[x] \in Limiter
      BY <1>3, <1>4, BucketFacts
    <3> HIDE DEF Limiter
    <3> QED
      BY <3>1, <3>2
  <2>2. \A x \in DOMAIN rlBucket', j \in RlKeys : rlBucket'[x].left[j] <= Capacity(rlBucket'[x].rb)
    <3> SUFFICES ASSUME NEW x \in DOMAIN rlBucket, NEW j \in RlKeys
                 PROVE  rlBucket'[x].left[j] <= Capacity(rlBucket[x].rb)
      BY <1>3, <1>5
    <3>1. rlBucket[x].left[j] <= Capacity(rlBucket[x].rb) /\ rlBucket[x].left[j] \in Nat
          /\ Capacity(rlBucket[x].rb) \in Nat
      BY BucketFacts DEF RlInv, RlTypeOK
    <3>2. rlBucket'[x].left[j] \in {rlBucket[x].left[j], rlBucket[x].left[j] - 1}
      BY <1>3, <1>4
    <3> QED
      BY <3>1, <3>2
  <2> QED
    BY <1>1, <1>3, <1>5, <1>6, <2>1, <2>2 DEF RlInv, RlTypeOK
<1>8. Counted'
  BY <1>1, <1>5, <1>6, BucketFacts DEF Counted, RlInv
<1>9. ASSUME NEW j \in RlKeys, NEW b \in RateBursts, <<j, b>> \notin rlTwice'
      PROVE  OneLimiter(j, b)'
  <2>0. OneLimiter(j, b)
    BY <1>1, <1>9 DEF RlInv
  <2>1. Held(j, b)' = Held(j, b)
    BY <1>1, <1>5, BucketFacts DEF Held
  <2>2. CASE j = k /\ b = rb
    <3>1. r \in Held(j, b)
      BY <1>1, <2>2 DEF Held, k, rb, l
    <3>2. b \in DOMAIN rlPool /\ l = rlPool[b]
      BY <2>0, <3>1 DEF OneLimiter, l
    <3>3. IdealFor(j, b)' = LeftFor(j, b)'
      BY <1>1, <1>2, <1>4, <1>6, <2>0, <2>2, <3>2 DEF OneLimiter, IdealFor, LeftFor
    <3> QED
      BY <1>1, <2>0, <2>1, <3>3 DEF OneLimiter
  <2>3. CASE ~(j = k /\ b = rb)
    <3>1. IdealFor(j, b)' = IdealFor(j, b)
      BY <1>6, <2>3 DEF IdealFor
    <3>2. LeftFor(j, b)' = LeftFor(j, b)
      <4>1. ASSUME b \in DOMAIN rlPool, rlPool[b] = l PROVE j # k
        BY <2>3, <4>1 DEF RlInv, RlTypeOK, rb
      <4> QED
        BY <1>1, <1>3, <1>4, <4>1, BucketFacts DEF LeftFor
    <3> QED
      BY <1>1, <2>0, <2>1, <3>1, <3>2 DEF OneLimiter
  <2> QED
    BY <2>2, <2>3
<1> QED
  BY <1>7, <1>8, <1>9 DEF RlInv

\* A period refills every bucket and the ideal one alike.
LEMMA PeriodKeeps ==
    ASSUME RlInv, PeriodPasses
    PROVE  RlInv'
<1> DEFINE New(l) == [rlBucket[l] EXCEPT !.left =
                        [k \in RlKeys |-> Refilled(rlBucket[l].left[k], rlBucket[l].rb)]]
<1>1. /\ rlBucket' = [l \in DOMAIN rlBucket |-> New(l)]
      /\ rlIdeal' = [x \in DOMAIN rlIdeal |-> Refilled(rlIdeal[x], x[2])]
      /\ UNCHANGED <<rlRow, rlPool, rlReq, rlTwice>>
  BY DEF PeriodPasses
<1>2. \A rb \in RateBursts, n \in Int : Refilled(n, rb) \in Int /\ Refilled(n, rb) <= Capacity(rb)
  BY CapacityType DEF Refilled, RateBursts
<1>3. \A rb \in RateBursts, n \in Nat : Refilled(n, rb) \in Nat
  BY CapacityType DEF Refilled, RateBursts
<1>4. \A rb \in RateBursts : Refilled(Capacity(rb), rb) = Capacity(rb)
  BY CapacityType DEF Refilled, RateBursts
<1>5. \A l \in DOMAIN rlBucket :
        /\ New(l) \in Limiter /\ New(l).rb = rlBucket[l].rb
        /\ \A k \in RlKeys : New(l).left[k] = Refilled(rlBucket[l].left[k], rlBucket[l].rb)
  BY <1>3, BucketFacts DEF Limiter
<1>6. \A l \in DOMAIN rlBucket :
        /\ rlBucket'[l] \in Limiter /\ rlBucket'[l].rb = rlBucket[l].rb
        /\ \A k \in RlKeys : rlBucket'[l].left[k] = Refilled(rlBucket[l].left[k], rlBucket[l].rb)
  BY <1>1, <1>5
<1>7. rlBucket' \in Seq(Limiter) /\ DOMAIN rlBucket' = DOMAIN rlBucket
  <2>1. rlBucket' = [l \in 1..Len(rlBucket) |-> rlBucket'[l]] /\ Len(rlBucket) \in Nat
    BY <1>1, BucketFacts
  <2>2. \A l \in 1..Len(rlBucket) : rlBucket'[l] \in Limiter
    BY <1>6, BucketFacts
  <2> QED
    BY <1>1, <2>1, <2>2
<1> HIDE DEF New
<1>8. \A l \in DOMAIN rlBucket, k \in RlKeys : rlBucket[l].left[k] \in Nat /\ rlBucket[l].rb \in RateBursts
  BY BucketFacts DEF Limiter
<1>9. RlTypeOK'
  <2>1. \A l \in DOMAIN rlBucket', k \in RlKeys : rlBucket'[l].left[k] <= Capacity(rlBucket'[l].rb)
    BY <1>2, <1>6, <1>7, <1>8
  <2>2. \A x \in DOMAIN rlIdeal : x[2] \in RateBursts /\ rlIdeal[x] \in Int
    BY DEF RlInv, RlTypeOK
  <2>3. rlIdeal' \in [DOMAIN rlIdeal' -> Int] /\ DOMAIN rlIdeal' = DOMAIN rlIdeal
    BY <1>1, <1>2, <2>2
  <2> QED
    BY <1>1, <1>6, <1>7, <2>1, <2>3 DEF RlInv, RlTypeOK
<1>10. Counted'
  BY <1>1, <1>6, BucketFacts DEF Counted, RlInv
<1>11. ASSUME NEW j \in RlKeys, NEW b \in RateBursts, <<j, b>> \notin rlTwice'
       PROVE  OneLimiter(j, b)'
  <2>0. OneLimiter(j, b)
    BY <1>1, <1>11 DEF RlInv
  <2>1. Held(j, b)' = Held(j, b)
    BY <1>1, <1>6, BucketFacts DEF Held
  <2>2. IdealFor(j, b)' = Refilled(IdealFor(j, b), b)
    BY <1>1, <1>4 DEF IdealFor
  <2>3. LeftFor(j, b)' = Refilled(LeftFor(j, b), b)
    <3>1. b \in DOMAIN rlPool => rlBucket[rlPool[b]].rb = b
      BY DEF RlInv, RlTypeOK
    <3> QED
      BY <1>1, <1>4, <1>6, <3>1, BucketFacts DEF LeftFor
  <2> QED
    BY <1>1, <2>0, <2>1, <2>2, <2>3 DEF OneLimiter
<1> QED
  BY <1>9, <1>10, <1>11 DEF RlInv

\* The pool drops a limiter only when all its buckets are full; a key that has a
\* request with it is noted.
LEMMA CleanupKeeps ==
    ASSUME RlInv, Cleanup
    PROVE  RlInv'
<1> DEFINE kept == {x \in DOMAIN rlPool : StillUsed(rlPool[x]) \/ x = <<IpRate, None>>}
<1>1. /\ rlPool' = [rb \in kept |-> rlPool[rb]]
      /\ rlTwice' = rlTwice \cup {x \in RlKeys \X (DOMAIN rlPool \ DOMAIN rlPool') : Held(x[1], x[2]) # {}}
      /\ UNCHANGED <<rlRow, rlBucket, rlReq, rlIdeal>>
  BY DEF Cleanup
<1>2. DOMAIN rlPool' = kept /\ kept \subseteq DOMAIN rlPool /\ \A b \in kept : rlPool'[b] = rlPool[b]
  BY <1>1
<1>3. \A b \in DOMAIN rlPool \ kept, k \in RlKeys : rlBucket[rlPool[b]].left[k] = Capacity(b)
  <2> SUFFICES ASSUME NEW b \in DOMAIN rlPool, b \notin kept, NEW k \in RlKeys
               PROVE  rlBucket[rlPool[b]].left[k] = Capacity(b)
    OBVIOUS
  <2>1. ~(rlBucket[rlPool[b]].left[k] < Capacity(b)) /\ rlBucket[rlPool[b]].left[k] <= Capacity(b)
    BY BucketFacts DEF StillUsed, RlInv, RlTypeOK
  <2>2. rlBucket[rlPool[b]].left[k] \in Nat /\ Capacity(b) \in Nat
    BY BucketFacts DEF Limiter, RlInv, RlTypeOK
  <2> QED
    BY <2>1, <2>2
<1> HIDE DEF kept
<1>4. RlTypeOK'
  <2>1. rlPool' \in [DOMAIN rlPool' -> DOMAIN rlBucket]
    BY <1>1, <1>2, BucketFacts
  <2>2. rlTwice' \subseteq RlKeys \X RateBursts
    BY <1>1 DEF RlInv, RlTypeOK, Counted
  <2> QED
    BY <1>1, <1>2, <2>1, <2>2 DEF RlInv, RlTypeOK
<1>5. Counted'
  BY <1>1, <1>2 DEF Counted, RlInv
<1>6. ASSUME NEW j \in RlKeys, NEW b \in RateBursts, <<j, b>> \notin rlTwice'
      PROVE  OneLimiter(j, b)'
  <2>0. OneLimiter(j, b)
    BY <1>1, <1>6 DEF RlInv
  <2>1. Held(j, b)' = Held(j, b) /\ IdealFor(j, b)' = IdealFor(j, b)
    BY <1>1 DEF Held, IdealFor
  <2>2. LeftFor(j, b)' = LeftFor(j, b)
    BY <1>1, <1>2, <1>3 DEF LeftFor
  <2>3. b \in DOMAIN rlPool \ DOMAIN rlPool' => Held(j, b) = {}
    BY <1>1, <1>6
  <2> QED
    BY <1>1, <1>2, <2>0, <2>1, <2>2, <2>3 DEF OneLimiter
<1> QED
  BY <1>4, <1>5, <1>6 DEF RlInv

\* Every step keeps the buckets in step with what one limiter would have.
LEMMA RlStep == RlInv /\ [RlNext]_rlVars => RlInv'
<1> SUFFICES ASSUME RlInv, [RlNext]_rlVars PROVE RlInv'
  OBVIOUS
<1>1. ASSUME RlTypeOK', UNCHANGED <<rlPool, rlBucket, rlIdeal, rlTwice>>,
             \A r \in RlRequests : rlReq'[r] # None => rlReq'[r] = rlReq[r]
      PROVE  RlInv'
  <2>1. Counted'
    BY <1>1 DEF Counted, RlInv
  <2>2. ASSUME NEW j \in RlKeys, NEW b \in RateBursts, <<j, b>> \notin rlTwice'
        PROVE  OneLimiter(j, b)'
    <3>1. OneLimiter(j, b)
      BY <1>1, <2>2 DEF RlInv
    <3>2. Held(j, b)' \subseteq Held(j, b) /\ \A r \in Held(j, b)' : rlReq'[r] = rlReq[r]
      BY <1>1 DEF Held
    <3> QED
      BY <1>1, <3>1, <3>2 DEF OneLimiter, IdealFor, LeftFor
  <2> QED
    BY <1>1, <2>1, <2>2 DEF RlInv
<1>2. ASSUME NEW u \in RlUsers, NEW p \in RlPatches, PatchQuotaRow(u, p) PROVE RlInv'
  <2>1. rlRow' \in [RlUsers -> QuotaRow]
    <3>1. rlRow[u] \in QuotaRow /\ rlRow \in [RlUsers -> QuotaRow]
      BY DEF RlInv, RlTypeOK
    <3>2. /\ ValidPatch(p) /\ ValidQuota(Merge(FromRow(rlRow[u]), p))
          /\ rlRow' = [rlRow EXCEPT ![u] = ToRow(Merge(FromRow(rlRow[u]), p))]
      BY <1>2 DEF PatchQuotaRow
    <3> QED
      BY <3>1, <3>2, PatchedRow
  <2> QED
    BY <1>1, <1>2, <2>1 DEF PatchQuotaRow, RlInv, RlTypeOK
<1>3. ASSUME NEW r \in RlRequests, EndRequest(r) PROVE RlInv'
  <2>1. RlTypeOK'
    BY <1>3 DEF EndRequest, RlInv, RlTypeOK
  <2> QED
    BY <1>1, <1>3, <2>1 DEF EndRequest, RlInv, RlTypeOK
<1>4. ASSUME NEW r \in RlRequests, NEW u \in RlUsers, UserRequest(r, u) PROVE RlInv'
  <2>1. rlRow[u] \in QuotaRow /\ u \in RlKeys
    BY DEF RlInv, RlTypeOK, RlKeys
  <2> QED
    BY <1>4, <2>1, EnforcedType, ThrottleKeeps DEF UserRequest
<1>5. ASSUME NEW r \in RlRequests, NEW i \in RlIps, IpRequest(r, i) PROVE RlInv'
  <2>1. <<IpRate, None>> \in RateBursts /\ i \in RlKeys
    BY <1>5, RateAssumption DEF IpRequest, RateBursts, RlKeys
  <2> QED
    BY <1>5, <2>1, ThrottleKeeps DEF IpRequest
<1>6. CASE UNCHANGED rlVars
  <2>1. RlTypeOK'
    BY <1>6 DEF rlVars, RlInv, RlTypeOK
  <2> QED
    BY <1>1, <1>6, <2>1 DEF rlVars
<1> QED
  BY <1>2, <1>3, <1>4, <1>5, <1>6, TakeCellKeeps, PeriodKeeps, CleanupKeeps DEF RlNext

\* A key is served more than its rate only through two limiters, and the burst that
\* is enforced is the one reported, for any quotas, patches and requests
\* (LimiterPool, resolve_bandwidth_throttler).
THEOREM RatesHold == RlSpec => [](RlTypeOK /\ OverspendNeedsTwoLimiters /\ EffectiveIsEnforced)
<1>1. RlInit => RlInv
  <2> SUFFICES ASSUME RlInit PROVE RlInv
    OBVIOUS
  <2>1. rlRow \in [RlUsers -> QuotaRow]
    BY RateAssumption DEF RlInit, NullQuota, QuotaRow
  <2>2. /\ rlBucket \in Seq(Limiter) /\ DOMAIN rlBucket = {} /\ DOMAIN rlPool = {} /\ DOMAIN rlIdeal = {}
        /\ rlPool \in [{} -> {}] /\ rlIdeal \in [{} -> Int] /\ rlTwice = {}
        /\ \A r \in RlRequests : rlReq[r] = None
    BY DEF RlInit
  <2>3. RlTypeOK
    BY <2>1, <2>2 DEF RlInit, RlTypeOK
  <2> QED
    BY <2>2, <2>3 DEF RlInv, Counted, OneLimiter, IdealFor, LeftFor, Held
<1>2. RlInv /\ [RlNext]_rlVars => RlInv'
  BY RlStep
<1>3. RlInv => OverspendNeedsTwoLimiters
  <2> SUFFICES ASSUME RlInv, NEW x \in DOMAIN rlIdeal, x \notin rlTwice PROVE ~(rlIdeal[x] < 0)
    BY DEF OverspendNeedsTwoLimiters
  <2>1. PICK k \in RlKeys, rb \in RateBursts : x = <<k, rb>>
    BY DEF RlInv, RlTypeOK
  <2>2. rlIdeal[x] = LeftFor(k, rb)
    BY <2>1 DEF RlInv, OneLimiter, IdealFor
  <2>3. LeftFor(k, rb) \in Nat
    BY CapacityType, BucketFacts DEF LeftFor, Limiter
  <2> QED
    BY <2>2, <2>3
<1>4. RlInv => EffectiveIsEnforced
  BY DEF EffectiveIsEnforced, EffectiveBurst, EnforcedBurst
<1> QED
  BY <1>1, <1>2, <1>3, <1>4, PTL DEF RlSpec, RlInv

-----------------------------------------------------------------------------
(* Path limits *)

\* A limit of the configuration.
LEMMA LimitFacts ==
    /\ Len(PathLimits) \in Nat
    /\ \A i \in 1..Len(PathLimits) : PathLimits[i].window \in Nat /\ PathLimits[i].quota \in Nat
    /\ \A i \in 1..Len(PathLimits) : IsFiniteSet(NoLater(i)) /\ Place(i) \in 1..Len(PathLimits)
<1> DEFINE D == 1..Len(PathLimits)
<1>1. Len(PathLimits) \in Nat /\ \A i \in D : PathLimits[i].window \in Nat /\ PathLimits[i].quota \in Nat
  <2>1. Len(PathLimits) \in Nat /\ \A i \in D : PathLimits[i] \in PathLimit
    BY PathLimitAssumption
  <2> QED
    BY <2>1 DEF PathLimit
<1>2. IsFiniteSet(D) /\ Cardinality(D) = Len(PathLimits)
  <2>1. Len(PathLimits) \in Nat
    BY <1>1
  <2>2. IsFiniteSet(D) /\ Cardinality(D) = IF 1 > Len(PathLimits) THEN 0 ELSE Len(PathLimits) - 1 + 1
    BY <2>1, FS_Interval
  <2> QED
    BY <2>1, <2>2
<1>3. ASSUME NEW i \in D PROVE IsFiniteSet(NoLater(i)) /\ Place(i) \in D
  <2>1. NoLater(i) \in SUBSET D /\ i \in NoLater(i)
    BY <1>1 DEF NoLater
  <2>2. IsFiniteSet(NoLater(i)) /\ Cardinality(NoLater(i)) <= Len(PathLimits)
    BY <1>2, <2>1, FS_Subset
  <2>3. Cardinality(NoLater(i)) \in Nat /\ Cardinality(NoLater(i)) # 0
    BY <2>1, <2>2, FS_CardinalityType, FS_EmptySet
  <2> QED
    BY <1>1, <2>2, <2>3 DEF Place
<1> QED
  BY <1>1, <1>3

\* Limits are placed by their windows, those of equal windows by their numbers.
LEMMA PlacedByWindow ==
    ASSUME NEW i \in 1..Len(PathLimits), NEW j \in 1..Len(PathLimits),
           \/ PathLimits[i].window < PathLimits[j].window
           \/ PathLimits[i].window = PathLimits[j].window /\ i < j
    PROVE  Place(i) < Place(j)
<1>1. NoLater(i) \in SUBSET NoLater(j) /\ j \in NoLater(j) /\ j \notin NoLater(i)
  BY LimitFacts DEF NoLater
<1>2. Cardinality(NoLater(i)) <= Cardinality(NoLater(j)) /\ Cardinality(NoLater(i)) # Cardinality(NoLater(j))
  BY <1>1, LimitFacts, FS_Subset
<1> QED
  BY <1>2, LimitFacts DEF Place

\* Every place is taken.
LEMMA PlacesTaken ==
    ASSUME NEW n \in 1..Len(PathLimits)
    PROVE  \E i \in 1..Len(PathLimits) : Place(i) = n
<1> DEFINE D == 1..Len(PathLimits)
           f == [i \in D |-> Place(i)]
<1>1. f \in [D -> D]
  BY LimitFacts
<1>2. \A i, j \in D : Place(i) = Place(j) => i = j
  <2> SUFFICES ASSUME NEW i \in D, NEW j \in D, i # j PROVE Place(i) # Place(j)
    OBVIOUS
  <2>1. \/ PathLimits[i].window < PathLimits[j].window
        \/ PathLimits[i].window = PathLimits[j].window /\ i < j
        \/ PathLimits[j].window < PathLimits[i].window
        \/ PathLimits[j].window = PathLimits[i].window /\ j < i
    <3>1. PathLimits[i].window \in Nat /\ PathLimits[j].window \in Nat
      BY LimitFacts
    <3>2. i \in Nat /\ j \in Nat
      OBVIOUS
    <3> QED
      BY <3>1, <3>2
  <2>2. Place(i) < Place(j) \/ Place(j) < Place(i)
    BY <2>1, PlacedByWindow
  <2> QED
    BY <2>2, LimitFacts
<1>3. f \in Injection(D, D)
  BY <1>1, <1>2 DEF Injection, IsInjective
<1>4. IsFiniteSet(D)
  <2>1. Len(PathLimits) \in Int
    BY LimitFacts
  <2> QED
    BY <2>1, FS_Interval
<1>5. f \in Surjection(D, D)
  BY <1>3, <1>4, FS_Injection
<1>6. \E i \in D : f[i] = n
  BY <1>5 DEF Surjection
<1> QED
  BY <1>6

\* The limits in the order of their windows.
LEMMA OrderedByWindow ==
    /\ DOMAIN EvaluationOrder = 1..Len(PathLimits)
    /\ \A n \in 1..Len(PathLimits) : EvaluationOrder[n].quota \in Nat
    /\ \A m, n \in 1..Len(PathLimits) : m < n => EvaluationOrder[m].window <= EvaluationOrder[n].window
<1> DEFINE At(n) == CHOOSE i \in 1..Len(PathLimits) : Place(i) = n
<1>1. \A n \in 1..Len(PathLimits) : At(n) \in 1..Len(PathLimits) /\ Place(At(n)) = n
  BY PlacesTaken
<1>2. \A n \in 1..Len(PathLimits) : EvaluationOrder[n] = PathLimits[At(n)]
  BY DEF EvaluationOrder
<1> HIDE DEF At
<1>3. ASSUME NEW m \in 1..Len(PathLimits), NEW n \in 1..Len(PathLimits), m < n
      PROVE  EvaluationOrder[m].window <= EvaluationOrder[n].window
  <2>1. ~(PathLimits[At(n)].window < PathLimits[At(m)].window)
    <3> SUFFICES ASSUME PathLimits[At(n)].window < PathLimits[At(m)].window PROVE FALSE
      OBVIOUS
    <3>1. Place(At(n)) < Place(At(m))
      BY <1>1, PlacedByWindow
    <3> QED
      BY <1>1, <1>3, <3>1, LimitFacts
  <2>2. PathLimits[At(m)].window \in Nat /\ PathLimits[At(n)].window \in Nat
    BY <1>1, LimitFacts
  <2> QED
    BY <1>2, <2>1, <2>2
<1> QED
  BY <1>1, <1>2, <1>3, LimitFacts DEF EvaluationOrder

\* What counting requests keeps.
PlInv == PlTypeOK /\ ShortRefusalSparesLong

\* A request is counted only by limits before the one that refuses it, and by none
\* that has nothing left.
LEMMA CheckRequestKeeps ==
    ASSUME PlInv, NEW kind, NEW ip \in PlIps, NEW tenant \in PlUsers \cup {None},
           CheckRequest(kind, ip, tenant)
    PROVE  PlInv'
<1> DEFINE D == 1..Len(PathLimits)
           Key(i) == LimitKeyOf(EvaluationOrder[i], ip, tenant)
           Match(i) == kind \in EvaluationOrder[i].kinds
           Refuses(i) == Match(i) /\ (Key(i) = None \/
                           (Applies(EvaluationOrder[i], kind, Key(i)) /\ plLeft[i][Key(i)] = 0))
           refusing == {i \in D : Refuses(i)}
           stop == IF refusing = {} THEN Len(PathLimits) + 1
                   ELSE CHOOSE i \in refusing : \A j \in refusing : i <= j
           counting == {i \in 1..(stop - 1) : Match(i) /\ Applies(EvaluationOrder[i], kind, Key(i))}
<1>1. /\ plLeft' = [i \in DOMAIN plLeft |-> [k \in PlKeys |->
                     IF i \in counting /\ k = Key(i) THEN plLeft[i][k] - 1 ELSE plLeft[i][k]]]
      /\ plLast' = [counted |-> {EvaluationOrder[i] : i \in counting},
                    refused |-> IF refusing = {} THEN None ELSE EvaluationOrder[stop]]
  BY DEF CheckRequest
<1>2. DOMAIN EvaluationOrder = D /\ DOMAIN plLeft = D /\ Len(PathLimits) \in Nat
      /\ plLeft \in [D -> [PlKeys -> Nat]]
      /\ \A i \in D, k \in PlKeys : plLeft[i][k] \in Nat
  BY OrderedByWindow, LimitFacts DEF PlInv, PlTypeOK
<1>3. /\ refusing = {} => stop = Len(PathLimits) + 1
      /\ refusing # {} => stop \in refusing
      /\ \A i \in 1..(stop - 1) : i \in D /\ i \notin refusing /\ i < stop
  <2>1. CASE refusing = {}
    <3>1. stop = Len(PathLimits) + 1 /\ Len(PathLimits) \in Nat
      BY <1>2, <2>1
    <3> HIDE DEF stop, refusing
    <3>2. \A i \in 1..(stop - 1) : i \in D /\ i < stop
      BY <3>1
    <3> QED
      BY <2>1, <3>1, <3>2
  <2>2. CASE refusing # {}
    <3>1. \E i \in refusing : \A j \in refusing : i <= j
      <4>1. refusing \subseteq Nat
        BY <1>2
      <4> HIDE DEF refusing
      <4> QED
        BY <2>2, <4>1, SmallestNumber
    <3>2. stop \in refusing /\ \A j \in refusing : stop <= j
      <4> HIDE DEF refusing
      <4> QED
        BY <2>2, <3>1
    <3> HIDE DEF stop
    <3>3. stop \in D
      BY <3>2
    <3> HIDE DEF refusing
    <3> QED
      BY <1>2, <2>2, <3>2, <3>3
  <2> QED
    BY <2>1, <2>2
<1>4. ASSUME NEW i \in counting PROVE Key(i) \in PlKeys /\ plLeft[i][Key(i)] > 0 /\ i \in D
  <2>1. i \in 1..(stop - 1) /\ Match(i) /\ Applies(EvaluationOrder[i], kind, Key(i))
    BY <1>4
  <2>2. i \in D /\ ~Refuses(i)
    BY <1>3, <2>1
  <2>3. Key(i) # None /\ plLeft[i][Key(i)] # 0
    BY <2>1, <2>2
  <2>4. Key(i) \in PlKeys
    BY <2>3 DEF LimitKeyOf, PlKeys
  <2> QED
    BY <1>2, <2>2, <2>3, <2>4
<1>5. \A i \in D, k \in PlKeys :
        plLeft'[i][k] = IF i \in counting /\ k = Key(i) THEN plLeft[i][k] - 1 ELSE plLeft[i][k]
  BY <1>1, <1>2
<1>6. PlTypeOK'
  <2> HIDE DEF counting, Key
  <2>1. \A i \in D, k \in PlKeys : plLeft'[i][k] \in Nat /\ plLeft'[i][k] <= plLeft[i][k]
    <3> SUFFICES ASSUME NEW i \in D, NEW k \in PlKeys
                 PROVE  plLeft'[i][k] \in Nat /\ plLeft'[i][k] <= plLeft[i][k]
      OBVIOUS
    <3>1. plLeft[i][k] \in Nat
      BY <1>2
    <3>2. CASE i \in counting /\ k = Key(i)
      BY <1>4, <1>5, <3>1, <3>2
    <3>3. CASE ~(i \in counting /\ k = Key(i))
      BY <1>5, <3>1, <3>3
    <3> QED
      BY <3>2, <3>3
  <2>2. plLeft' \in [D -> [PlKeys -> Nat]]
    <3>1. plLeft' = [i \in D |-> [k \in PlKeys |-> plLeft'[i][k]]]
      BY <1>1, <1>2
    <3> QED
      BY <2>1, <3>1
  <2>3. \A i \in D, k \in PlKeys : plLeft'[i][k] <= EvaluationOrder[i].quota
    <3> SUFFICES ASSUME NEW i \in D, NEW k \in PlKeys PROVE plLeft'[i][k] <= EvaluationOrder[i].quota
      OBVIOUS
    <3>1. plLeft[i][k] <= EvaluationOrder[i].quota /\ EvaluationOrder[i].quota \in Nat
      BY <1>2, OrderedByWindow DEF PlInv, PlTypeOK
    <3> QED
      BY <1>2, <2>1, <3>1
  <2> QED
    BY <1>2, <2>2, <2>3 DEF PlTypeOK
<1>7. ShortRefusalSparesLong'
  <2> SUFFICES ASSUME plLast'.refused # None, NEW l \in plLast'.counted
               PROVE  l.window <= plLast'.refused.window
    BY DEF ShortRefusalSparesLong
  <2>1. refusing # {} /\ plLast'.refused = EvaluationOrder[stop]
    BY <1>1
  <2>2. PICK i \in counting : l = EvaluationOrder[i]
    BY <1>1
  <2>3. i \in D /\ stop \in D /\ i < stop
    BY <1>3, <2>1
  <2> HIDE DEF counting, stop
  <2> QED
    BY <2>1, <2>2, <2>3, OrderedByWindow
<1> QED
  BY <1>6, <1>7 DEF PlInv

\* A request that a limit refuses is not counted by one with a longer window, for
\* any limits in any order of the configuration (request_rate_limit.rs,
\* RateLimiterMiddleware::call), and no limit counts below nothing.
THEOREM PathLimitsHold == PlSpec => [](PlTypeOK /\ ShortRefusalSparesLong)
<1>1. PlInit => PlInv
  <2> SUFFICES ASSUME PlInit PROVE PlInv
    OBVIOUS
  <2>1. PlTypeOK
    BY OrderedByWindow, LimitFacts DEF PlInit, PlTypeOK
  <2> QED
    BY <2>1 DEF PlInit, PlInv, ShortRefusalSparesLong
<1>2. PlInv /\ [PlNext]_plVars => PlInv'
  <2> SUFFICES ASSUME PlInv, [PlNext]_plVars PROVE PlInv'
    OBVIOUS
  <2>1. ASSUME NEW kind \in Kinds, NEW peer \in PlIps, NEW tenant \in PlUsers \cup {None},
               NEW header \in Headers,
               Identify(peer, header) # Failed, CheckRequest(kind, Identify(peer, header), tenant)
        PROVE  PlInv'
    <3>1. Len(header) = 1 => header[1] \in PlIps
      BY DEF Headers
    <3>2. Identify(peer, header) \in PlIps
      BY <2>1, <3>1 DEF Identify
    <3> QED
      BY <2>1, <3>2, CheckRequestKeeps
  <2>2. ASSUME NEW i \in DOMAIN plLeft, NEW k \in PlKeys, Replenish(i, k) PROVE PlInv'
    <3>1. /\ plLeft \in [DOMAIN EvaluationOrder -> [PlKeys -> Nat]]
          /\ i \in DOMAIN EvaluationOrder /\ EvaluationOrder[i].quota \in Nat
          /\ plLeft[i][k] \in Nat /\ plLeft[i][k] < EvaluationOrder[i].quota
          /\ \A j \in DOMAIN plLeft, h \in PlKeys : plLeft[j][h] <= EvaluationOrder[j].quota
      BY <2>2, OrderedByWindow DEF PlInv, PlTypeOK, Replenish
    <3>2. plLeft' = [plLeft EXCEPT ![i] = [plLeft[i] EXCEPT ![k] = plLeft[i][k] + 1]]
      BY <2>2 DEF Replenish
    <3>3. PlTypeOK'
      BY <3>1, <3>2 DEF PlTypeOK
    <3> QED
      BY <2>2, <3>3 DEF PlInv, Replenish, ShortRefusalSparesLong
  <2>3. CASE UNCHANGED plVars
    BY <2>3 DEF plVars, PlInv, PlTypeOK, ShortRefusalSparesLong
  <2>4. CASE PlNext
    BY <2>1, <2>2, <2>4 DEF PlNext
  <2> QED
    BY <2>3, <2>4
<1> QED
  BY <1>1, <1>2, PTL DEF PlSpec, PlInv

\* LimitsHold, for any users, addresses, quotas, requests and configured limits.
THEOREM RateLimitsHold == RlSpec /\ PlSpec => []LimitsHold
  BY RatesHold, PathLimitsHold, PTL DEF LimitsHold

-----------------------------------------------------------------------------
(* Reads of a file beside its writes: what a read answers is a version that   *)
(* was at the path, whole.                                                    *)

\* What holds of a change under way: a version is published before its row, a row is
\* removed before its blob.
ChangeInv ==
    /\ tfRow.ver <= tfBlob
    /\ tfChange.pc = "publish" => tfChange.ver = Len(tfPut) /\ tfBlob < tfChange.ver
    /\ tfChange.pc = "commit" => tfBlob = tfChange.ver /\ tfBlob > 0
    /\ tfChange.pc = "clear" => tfRow.ver = 0

\* What holds of a read under way: the blob, if there is one, is no older than the row
\* that was read, and stat saw a whole version.
ReadInv ==
    /\ tfRead.pc \in {"stat", "open"} => tfRead.row.ver > 0 /\ (tfBlob > 0 => tfRead.row.ver <= tfBlob)
    /\ tfRead.pc = "open" => tfRead.etag > 0 /\ tfRead.len = Length(tfRead.etag)
    /\ tfRead.by \in {"tag", "date"} /\ tfRead.pc = "row" => tfHeld # None

HeldInv ==
    tfHeld # None => /\ tfHeld.tag = tfHeld.asof
                     /\ tfHeld.body < tfHeld.asof => tfHeld.shared
                     /\ tfEtag => tfHeld.len = Length(tfHeld.body)

TfInv == TfTypeOK /\ ChangeInv /\ ReadInv /\ HeldInv

\* Of which kinds the parts are.
LEMMA FileTypes ==
    ASSUME TfTypeOK
    PROVE  /\ Len(tfPut) \in Nat /\ tfBlob \in Nat /\ tfBlob <= Len(tfPut)
           /\ tfSecond \in Nat /\ MaxPuts \in Nat
           /\ tfRow.ver \in 0..Len(tfPut) /\ tfRow.mod \in Nat /\ tfRow \in EntryRow
           /\ tfChange.ver \in 0..Len(tfPut)
           /\ tfRead.row.ver \in 0..Len(tfPut) /\ tfRead.row.mod \in Nat
           /\ tfRead.etag \in 0..Len(tfPut) /\ tfRead.len \in Nat
           /\ \A v \in 1..Len(tfPut) : Length(v) \in Nat
<1>1. Len(tfPut) \in Nat /\ tfBlob \in Nat /\ tfBlob <= Len(tfPut) /\ tfSecond \in Nat /\ MaxPuts \in Nat
  BY FilesAssumption DEF TfTypeOK
<1>2. tfRow.ver \in 0..Len(tfPut) /\ tfRow.mod \in Nat /\ tfRow \in EntryRow /\ tfChange.ver \in 0..Len(tfPut)
  BY DEF TfTypeOK, EntryRow
<1>3. /\ tfRead.row.ver \in 0..Len(tfPut) /\ tfRead.row.mod \in Nat
      /\ tfRead.etag \in 0..Len(tfPut) /\ tfRead.len \in Nat
  BY DEF TfTypeOK, EntryRow
<1>4. \A v \in 1..Len(tfPut) : tfPut[v] \in Contents
  BY DEF TfTypeOK
<1>5. \A v \in 1..Len(tfPut) : Length(v) \in Nat
  BY <1>4, FilesAssumption DEF Length, Content
<1> QED
  BY <1>1, <1>2, <1>3, <1>5

\* An upload begins: there is one more version, and those before are as they were.
LEMMA UploadBegins ==
    ASSUME TfInv, NEW c \in Contents, NEW a \in BOOLEAN, tfChange.pc = "none", Len(tfPut) < MaxPuts,
           tfPut' = Append(tfPut, c),
           tfChange' = [pc |-> "publish", ver |-> Len(tfPut'), admin |-> a],
           UNCHANGED <<tfEtag, tfAllowed, tfSecond, tfBlob, tfRow, tfRead, tfHeld>>
    PROVE  TfInv'
<1>1. /\ Len(tfPut) \in Nat /\ Len(tfPut') = Len(tfPut) + 1 /\ tfPut' \in Seq(Contents)
      /\ \A v \in 1..Len(tfPut) : tfPut'[v] = tfPut[v]
  BY DEF TfInv, TfTypeOK
<1>2. \A v \in 1..Len(tfPut) : Length(v)' = Length(v)
  BY <1>1 DEF Length, Content
<1>3. TfTypeOK'
  <2>1. EntryRow \subseteq EntryRow' /\ HeldResponse \subseteq HeldResponse' /\ 0..Len(tfPut) \subseteq 0..Len(tfPut')
    BY <1>1 DEF EntryRow, HeldResponse
  <2>2. tfRead' \in [pc : {"none", "row", "stat", "open", "length"},
                     by : {"full", "tag", "date", "head", None}, row : EntryRow', len : Nat,
                     etag : 0..Len(tfPut')]
    BY <2>1 DEF TfInv, TfTypeOK
  <2>3. tfChange' \in [pc : {"none", "publish", "commit", "remove", "clear"}, ver : 0..Len(tfPut'),
                       admin : BOOLEAN]
    BY <1>1
  <2>4. Len(tfPut') <= MaxPuts /\ tfBlob' \in 0..Len(tfPut') /\ tfRow' \in EntryRow'
    BY <1>1, <2>1, FilesAssumption DEF TfInv, TfTypeOK
  <2>5. tfHeld' # None => tfHeld' \in HeldResponse'
    BY <2>1 DEF TfInv, TfTypeOK
  <2> QED
    BY <1>1, <2>2, <2>3, <2>4, <2>5 DEF TfInv, TfTypeOK
<1>4. ChangeInv'
  BY <1>1, FileTypes DEF TfInv, ChangeInv
<1>5. ReadInv'
  BY <1>2, FileTypes DEF TfInv, ReadInv
<1>6. HeldInv'
  <2>1. tfHeld # None => tfHeld.body \in 1..Len(tfPut)
    BY DEF TfInv, TfTypeOK, HeldResponse
  <2> QED
    BY <1>2, <2>1 DEF TfInv, HeldInv
<1> QED
  BY <1>3, <1>4, <1>5, <1>6 DEF TfInv

\* Every step of a change, a read or the clock keeps the invariant.
LEMMA TfStep == TfInv /\ [TfNext]_tfVars => TfInv'
<1> SUFFICES ASSUME TfInv, [TfNext]_tfVars PROVE TfInv'
  OBVIOUS
<1> USE FileTypes DEF TfInv
<1>1. ASSUME UNCHANGED tfPut
      PROVE  /\ EntryRow' = EntryRow /\ HeldResponse' = HeldResponse
             /\ \A v : Length(v)' = Length(v)
  BY <1>1 DEF EntryRow, HeldResponse, Length, Content
<1>2. CASE SecondPasses \/ SetAllowed \/ UNCHANGED tfVars
  <2>1. UNCHANGED <<tfEtag, tfPut, tfBlob, tfRow, tfChange, tfRead, tfHeld>>
    BY <1>2 DEF SecondPasses, SetAllowed, tfVars
  <2>2. TfTypeOK'
    <3>1. tfSecond' \in 1..MaxSecond
      BY <1>2, FilesAssumption DEF SecondPasses, SetAllowed, tfVars, TfTypeOK
    <3>2. tfAllowed' \in BOOLEAN
      BY <1>2 DEF SecondPasses, SetAllowed, tfVars, TfTypeOK
    <3> QED
      BY <1>1, <2>1, <3>1, <3>2 DEF TfTypeOK
  <2> QED
    BY <1>1, <2>1, <2>2 DEF ChangeInv, ReadInv, HeldInv
<1>3. CASE (\E c \in Contents, h \in BOOLEAN : BeginPut(c, h))
           \/ (\E header \in DavHeaders, c \in Contents : DavPut(header, c))
  BY <1>3, UploadBegins DEF BeginPut, DavPut
\* Changes: the read under way and what the client holds stay.
<1>4. ASSUME UNCHANGED <<tfEtag, tfAllowed, tfSecond, tfPut, tfRead, tfHeld>>,
             tfBlob' \in {0, tfBlob, Len(tfPut)}, tfBlob' \in 0..Len(tfPut), tfRow' \in EntryRow,
             tfChange' \in [pc : {"none", "publish", "commit", "remove", "clear"}, ver : 0..Len(tfPut),
                            admin : BOOLEAN],
             ChangeInv'
      PROVE  TfInv'
  <2>1. TfTypeOK'
    BY <1>1, <1>4 DEF TfTypeOK
  <2>2. HeldInv'
    BY <1>1, <1>4 DEF HeldInv
  <2>3. tfRead.pc \in {"stat", "open"} => tfRead.row.ver > 0 /\ (tfBlob' > 0 => tfRead.row.ver <= tfBlob')
    BY <1>4 DEF ReadInv
  <2>4. ReadInv'
    BY <1>1, <1>4, <2>3 DEF ReadInv
  <2> QED
    BY <1>4, <2>1, <2>2, <2>4
<1>5. NoChange \in [pc : {"none", "publish", "commit", "remove", "clear"}, ver : 0..Len(tfPut),
                    admin : BOOLEAN]
      /\ NoRow \in EntryRow
  BY DEF NoChange, NoRow, EntryRow
<1>6. CASE AbortPut
  BY <1>4, <1>5, <1>6 DEF AbortPut, ChangeInv, NoChange
<1>7. CASE PublishBlob
  <2>1. tfChange' \in [pc : {"none", "publish", "commit", "remove", "clear"}, ver : 0..Len(tfPut),
                       admin : BOOLEAN]
        /\ tfChange'.pc = "commit" /\ tfChange'.ver = tfChange.ver
    BY <1>7 DEF PublishBlob, TfTypeOK
  <2>2. ChangeInv' /\ tfBlob' = Len(tfPut) /\ tfBlob' \in 0..Len(tfPut)
    BY <1>7, <2>1 DEF PublishBlob, ChangeInv
  <2> QED
    BY <1>4, <1>7, <2>1, <2>2 DEF PublishBlob, TfTypeOK
<1>8. ASSUME NEW ok \in BOOLEAN, CommitRow(ok) PROVE TfInv'
  <2>1. tfRow' \in EntryRow /\ tfRow'.ver \in {tfRow.ver, tfBlob}
    BY <1>8 DEF CommitRow, EntryRow, ChangeInv
  <2>2. ChangeInv'
    BY <1>8, <2>1 DEF CommitRow, ChangeInv, NoChange
  <2> QED
    BY <1>4, <1>5, <1>8, <2>1, <2>2 DEF CommitRow
<1>9. ASSUME NEW a \in BOOLEAN, BeginDelete(a) PROVE TfInv'
  BY <1>4, <1>9 DEF BeginDelete, ChangeInv
<1>10. ASSUME NEW ok \in BOOLEAN, RemoveRow(ok) PROVE TfInv'
  <2>1. /\ tfChange' \in [pc : {"none", "publish", "commit", "remove", "clear"}, ver : 0..Len(tfPut),
                          admin : BOOLEAN]
        /\ tfChange'.pc \in {"none", "clear"}
    BY <1>5, <1>10 DEF RemoveRow, TfTypeOK, NoChange
  <2>2. tfRow' \in EntryRow /\ (tfRow'.ver = 0 \/ (tfRow' = tfRow /\ tfChange'.pc = "none"))
    <3>1. CASE ok
      <4>1. tfRow' = NoRow /\ NoRow.ver = 0
        BY <1>10, <3>1 DEF RemoveRow, NoRow
      <4> QED
        BY <1>5, <4>1
    <3>2. CASE ~ok
      BY <1>10, <3>2 DEF RemoveRow, NoChange
    <3> QED
      BY <3>1, <3>2
  <2>3. ChangeInv'
    BY <1>10, <2>1, <2>2 DEF RemoveRow, ChangeInv
  <2> QED
    BY <1>4, <1>10, <2>1, <2>2, <2>3 DEF RemoveRow
<1>11. ASSUME NEW ok \in BOOLEAN, RemoveBlob(ok) PROVE TfInv'
  <2>1. tfBlob' \in {0, tfBlob} /\ tfBlob' \in 0..Len(tfPut) /\ tfRow'.ver = 0 /\ tfChange' = NoChange
    BY <1>11 DEF RemoveBlob, ChangeInv
  <2>2. ChangeInv'
    BY <1>11, <2>1 DEF RemoveBlob, ChangeInv, NoChange
  <2> QED
    BY <1>4, <1>5, <1>11, <2>1, <2>2 DEF RemoveBlob
\* Reads: rows and blobs stay.
<1> DEFINE ReadType == [pc : {"none", "row", "stat", "open", "length"},
                        by : {"full", "tag", "date", "head", None}, row : EntryRow, len : Nat,
                        etag : 0..Len(tfPut)]
<1>12. ASSUME UNCHANGED <<tfEtag, tfAllowed, tfSecond, tfPut, tfBlob, tfRow, tfChange>>,
              tfRead' \in ReadType, tfHeld' # None => tfHeld' \in HeldResponse, ReadInv', HeldInv'
       PROVE  TfInv'
  <2>1. TfTypeOK'
    BY <1>1, <1>12 DEF TfTypeOK
  <2>2. ChangeInv'
    BY <1>12 DEF ChangeInv
  <2> QED
    BY <1>12, <2>1, <2>2
<1>13. NoRead \in ReadType
  BY <1>5 DEF NoRead
<1>14. tfRead \in ReadType /\ (tfHeld # None => tfHeld \in HeldResponse)
  BY DEF TfTypeOK
<1>15. ASSUME NEW by \in {"full", "tag", "date", "head"}, BeginRead(by) PROVE TfInv'
  <2>1. tfRead' \in ReadType /\ tfRead'.pc = "row" /\ tfRead'.by = by
    BY <1>13, <1>15 DEF BeginRead, NoRead
  <2>2. ReadInv' /\ HeldInv'
    BY <1>1, <1>15, <2>1 DEF BeginRead, ReadInv, HeldInv
  <2> QED
    BY <1>12, <1>14, <1>15, <2>1, <2>2 DEF BeginRead
\* A read that ends with an error leaves the client what it has, or nothing.
<1>16. ASSUME UNCHANGED <<tfEtag, tfAllowed, tfSecond, tfPut, tfBlob, tfRow, tfChange>>,
              tfRead' = NoRead, tfHeld' \in {None, tfHeld}
       PROVE  TfInv'
  <2>1. ReadInv' /\ HeldInv'
    BY <1>1, <1>16 DEF ReadInv, HeldInv, NoRead
  <2> QED
    BY <1>12, <1>13, <1>14, <1>16, <2>1
<1>17. CASE InfoMissing \/ BlobLength \/ BlobMissing \/ ReadRefused
            \/ \E kind \in {"RateLimited", "Unexpected"} : ReadFails(kind)
  BY <1>16, <1>17 DEF InfoMissing, BlobLength, BlobMissing, ReadRefused, ReadFails, AfterError
<1>18. CASE NotModified
  <2>1. tfHeld # None /\ tfRow.ver > 0
    BY <1>18 DEF NotModified, IsNotModified, ReadInv, TfTypeOK
  <2>2. /\ tfHeld \in HeldResponse /\ tfHeld' = Renewed(tfRow)
        /\ tfHeld'.tag = tfRow.ver /\ tfHeld'.asof = tfRow.ver /\ tfHeld'.body = tfHeld.body
        /\ tfHeld'.len = tfHeld.len /\ tfHeld'.shared = (tfHeld.shared \/ tfRow.ver # tfHeld.tag)
        /\ tfHeld' \in HeldResponse
    <3> DEFINE sh == tfHeld.shared \/ tfRow.ver # tfHeld.tag
    <3>1. tfHeld \in HeldResponse /\ sh \in BOOLEAN
      BY <1>14, <2>1 DEF HeldResponse
    <3>2. tfHeld' = [tfHeld EXCEPT !.asof = tfRow.ver, !.tag = tfRow.ver, !.mod = tfRow.mod, !.shared = sh]
          /\ tfHeld' = Renewed(tfRow)
      BY <1>18 DEF NotModified, Renewed
    <3>3. tfRow.ver \in 1..Len(tfPut) /\ tfRow.mod \in Nat
      BY <2>1
    <3> HIDE DEF sh
    <3>4. /\ tfHeld'.tag = tfRow.ver /\ tfHeld'.asof = tfRow.ver /\ tfHeld'.body = tfHeld.body
          /\ tfHeld'.len = tfHeld.len /\ tfHeld'.shared = sh
          /\ tfHeld' \in HeldResponse
      BY <3>1, <3>2, <3>3 DEF HeldResponse
    <3> QED
      BY <3>1, <3>2, <3>4 DEF sh
  <2>3. HeldInv'
    BY <1>1, <1>18, <2>1, <2>2 DEF NotModified, HeldInv
  <2>4. ReadInv'
    BY <1>18 DEF NotModified, ReadInv, NoRead
  <2> QED
    BY <1>12, <1>13, <1>18, <2>2, <2>3, <2>4 DEF NotModified
<1>19. CASE GetInfo
  <2>1. /\ tfRead' \in ReadType /\ tfRead'.pc \in {"length", "stat"} /\ tfRead'.row = tfRow
        /\ tfRow.ver > 0
    <3> DEFINE next == IF tfRead.by = "head" THEN "length" ELSE "stat"
    <3>1. tfRead' = [tfRead EXCEPT !.pc = next, !.row = tfRow] /\ tfRow.ver > 0 /\ tfRow \in EntryRow
      BY <1>19 DEF GetInfo
    <3>2. next \in {"length", "stat"}
      OBVIOUS
    <3> HIDE DEF next
    <3> QED
      BY <1>14, <3>1, <3>2
  <2>2. ReadInv' /\ HeldInv'
    BY <1>1, <1>19, <2>1 DEF GetInfo, ReadInv, HeldInv, ChangeInv
  <2> QED
    BY <1>12, <1>14, <1>19, <2>1, <2>2 DEF GetInfo
<1>20. CASE Stat
  <2>0. tfBlob \in 1..Len(tfPut) /\ Length(tfBlob) \in Nat
    BY <1>20 DEF Stat
  <2>1. /\ tfRead' \in ReadType /\ tfRead'.pc = "open" /\ tfRead'.row = tfRead.row
        /\ tfRead'.len = Length(tfBlob) /\ tfRead'.etag = tfBlob
    <3> DEFINE n == Length(tfBlob)
    <3>1. tfRead' = [tfRead EXCEPT !.pc = "open", !.len = n, !.etag = tfBlob]
      BY <1>20 DEF Stat
    <3>2. n \in Nat /\ tfBlob \in 0..Len(tfPut)
      BY <2>0
    <3> HIDE DEF n
    <3>3. /\ tfRead' \in ReadType /\ tfRead'.pc = "open" /\ tfRead'.row = tfRead.row
          /\ tfRead'.len = n /\ tfRead'.etag = tfBlob
      BY <1>14, <3>1, <3>2
    <3> QED
      BY <3>3 DEF n
  <2>2. ReadInv' /\ HeldInv'
    BY <1>1, <1>20, <2>0, <2>1 DEF Stat, ReadInv, HeldInv
  <2> QED
    BY <1>12, <1>14, <1>20, <2>1, <2>2 DEF Stat
<1>21. CASE OpenBlob
  <2>1. CASE Length(tfBlob) < tfRead.len
    BY <1>16, <1>21, <2>1 DEF OpenBlob
  <2>2. CASE ~(Length(tfBlob) < tfRead.len)
    <3>1. /\ tfHeld'.tag = tfRead.row.ver /\ tfHeld'.asof = tfRead.row.ver /\ tfHeld'.body = tfBlob
          /\ tfHeld'.len = tfRead.len /\ tfHeld' \in HeldResponse
      BY <1>21, <2>2 DEF OpenBlob, HeldResponse, ReadInv
    <3>2. tfRead.row.ver <= tfBlob /\ (tfEtag => tfBlob = tfRead.etag /\ tfRead.len = Length(tfRead.etag))
      BY <1>21 DEF OpenBlob, ReadInv, ReadPermitted
    <3>3. HeldInv'
      BY <1>1, <1>21, <3>1, <3>2 DEF OpenBlob, HeldInv
    <3>4. ReadInv'
      BY <1>21 DEF OpenBlob, ReadInv, NoRead
    <3> QED
      BY <1>12, <1>13, <1>21, <3>1, <3>3, <3>4 DEF OpenBlob
  <2> QED
    BY <2>1, <2>2
<1> QED
  BY <1>2, <1>3, <1>6, <1>7, <1>8, <1>9, <1>10, <1>11, <1>15, <1>17, <1>18, <1>19, <1>20, <1>21
     DEF TfNext

\* ReadsSound: a client never holds a body older than the row it was answered from,
\* nor on a store with ETags one that is not whole, for any contents, PUTs, DELETEs
\* and reads (read.rs, opendal_service.rs).
THEOREM ReadsAreSound == TfSpec => []ReadsSound
<1>1. TfInit => TfInv
  <2> SUFFICES ASSUME TfInit PROVE TfInv
    OBVIOUS
  <2>1. TfTypeOK
    BY FilesAssumption DEF TfInit, TfTypeOK, EntryRow, NoRow, NoChange, NoRead
  <2> QED
    BY <2>1 DEF TfInit, TfInv, ChangeInv, ReadInv, HeldInv, NoRow, NoChange, NoRead
<1>2. TfInv /\ [TfNext]_tfVars => TfInv'
  BY TfStep
<1>3. TfInv => ReadsSound
  BY DEF TfInv, HeldInv, ReadsSound, HeldAtLeastAsNew, BodyIsWhole
<1> QED
  BY <1>1, <1>2, <1>3, PTL DEF TfSpec

-----------------------------------------------------------------------------
(* Grants and proofs of possession: what a session and a bearer were given    *)
(* for.                                                                       *)

\* Of the rows N, one of nonce n is no older than second t; or at `now` t is further
\* back than the window.
RememberedIn(N, now, n, t) ==
    (\E row \in N : row.nonce = n /\ row.at >= t) \/ t <= now - NonceGcThreshold

\* The seconds S in which a proof was let through: in its window, remembered, and more
\* than once at the ends of the window only.
SpentWell(p, S, N, now) ==
    /\ S \in Seq(Nat)
    /\ \A i \in 1 .. Len(S) : /\ S[i] >= p.iat - PopMaxAge /\ S[i] <= now
                              /\ RememberedIn(N, now, p.nonce, S[i])
    /\ \A i, j \in 1 .. Len(S) : i < j => S[i] = p.iat - PopMaxAge /\ S[j] = p.iat + PopMaxAge

\* The nonces and the proofs let through.
NonceRows == [nonce : {p.nonce : p \in GcProofs}, at : Nat]
SpentInv ==
    /\ gcSpent = [p \in GcProofs |-> gcSpent[p]]
    /\ gcNonces \subseteq NonceRows
    /\ \A p \in GcProofs : SpentWell(p, gcSpent[p], gcNonces, gcNow)

\* Rows are of grants, a session is one of a grant that its user signed and whose row is
\* there.
GcInv ==
    /\ GcTypeOK
    /\ \A row \in gcRows : \E g \in GcGrants : SameGrant(g, row)
    /\ \A s \in gcSessions : /\ s.made \in GcGrants /\ s.gid = s.made.id
                             /\ s.made.signer = s.made.iss
                             /\ \E row \in gcRows : SameGrant(s.made, row)
    /\ SpentInv

\* What a stored grant keeps of the one presented.
LEMMA SameGrantFacts ==
    ASSUME NEW g, NEW row, SameGrant(g, row)
    PROVE  /\ row.id = g.id /\ row.user = g.iss /\ row.cnf = g.cnf /\ row.root = g.root
           /\ SameGrant(g, [row EXCEPT !.revoked = TRUE])
           /\ [row EXCEPT !.revoked = TRUE].id = g.id
<1> DEFINE v == row.revoked
<1>1. row = [GrantRow(g) EXCEPT !.revoked = v]
  BY DEF SameGrant
<1> HIDE DEF v
<1> QED
  BY <1>1 DEF SameGrant, GrantRow

\* A stored grant is that of the presented one, not revoked.
LEMMA NewRowFacts ==
    ASSUME NEW g PROVE SameGrant(g, GrantRow(g)) /\ GrantRow(g).id = g.id
  BY DEF SameGrant, GrantRow

\* A grant that verifies is signed by its issuer.
LEMMA SignedIfVerified ==
    ASSUME NEW g, GrantTokenError(g) = None
    PROVE  g.signer = g.iss
  BY ChecksAssumption DEF GrantTokenError, SignedBy

\* Nothing is forgotten from the rows N at `now` to the rows M at `later`.
NothingForgotten(N, now, M, later) ==
    \A n, t : t \in Nat /\ RememberedIn(N, now, n, t) => RememberedIn(M, later, n, t)

LEMMA SpentStays ==
    ASSUME NEW p, NEW S, NEW N, NEW M, NEW now \in Nat, NEW later \in Nat, now <= later,
           NothingForgotten(N, now, M, later), SpentWell(p, S, N, now)
    PROVE  SpentWell(p, S, M, later)
<1>1. S \in Seq(Nat)
  BY DEF SpentWell
<1>2. ASSUME NEW i \in 1 .. Len(S)
      PROVE  /\ S[i] >= p.iat - PopMaxAge /\ S[i] <= later
             /\ RememberedIn(M, later, p.nonce, S[i])
  <2>1. S[i] \in Nat
    BY <1>1, ElementOfSeq
  <2>2. S[i] >= p.iat - PopMaxAge /\ S[i] <= now /\ RememberedIn(N, now, p.nonce, S[i])
    BY DEF SpentWell
  <2> QED
    BY <2>1, <2>2 DEF NothingForgotten
<1>3. \A i, j \in 1 .. Len(S) : i < j => S[i] = p.iat - PopMaxAge /\ S[j] = p.iat + PopMaxAge
  BY DEF SpentWell
<1> QED
  BY <1>1, <1>2, <1>3 DEF SpentWell

\* The collection leaves the rows that are younger than the threshold.
LEMMA CollectionFacts ==
    ASSUME NEW left \in LeftByCollection
    PROVE  /\ left \subseteq gcNonces
           /\ \A row \in gcNonces : row.at > gcNow - NonceGcThreshold => row \in left
  BY DEF LeftByCollection

LEMMA CollectionForgetsNothing ==
    ASSUME gcNonces \subseteq NonceRows, gcNow \in Nat, NonceGcThreshold \in Nat,
           NEW left \in LeftByCollection
    PROVE  NothingForgotten(gcNonces, gcNow, left, gcNow)
<1> SUFFICES ASSUME NEW n, NEW t \in Nat, RememberedIn(gcNonces, gcNow, n, t)
             PROVE  RememberedIn(left, gcNow, n, t)
  BY DEF NothingForgotten
<1>1. CASE t <= gcNow - NonceGcThreshold
  BY <1>1 DEF RememberedIn
<1>2. CASE ~(t <= gcNow - NonceGcThreshold)
  <2>1. PICK row \in gcNonces : row.nonce = n /\ row.at >= t
    BY <1>2 DEF RememberedIn
  <2>2. row.at \in Nat
    BY DEF NonceRows
  <2>3. row.at > gcNow - NonceGcThreshold
    BY <1>2, <2>1, <2>2
  <2>4. row \in left
    BY <2>3, CollectionFacts
  <2> QED
    BY <2>1, <2>4 DEF RememberedIn
<1> QED
  BY <1>1, <1>2

\* A proof that verifies is fresh.
LEMMA FreshIfVerified ==
    ASSUME NEW g, NEW p \in GcProofs, PopError(g, p) = None, gcNow \in Nat
    PROVE  gcNow >= p.iat - PopMaxAge /\ gcNow <= p.iat + PopMaxAge
<1>1. AbsDiff(gcNow, p.iat) <= PopMaxAge
  <2>1. ~(AbsDiff(gcNow, p.iat) > PopMaxAge)
    BY ChecksAssumption DEF PopError
  <2> QED
    BY <2>1, ChecksAssumption DEF AbsDiff
<1> QED
  BY <1>1, ChecksAssumption DEF AbsDiff

\* A proof whose nonce has no row is let through: at the end of its window, if it
\* was before.
LEMMA SpentAgain ==
    ASSUME NEW p \in GcProofs, NEW S, NEW N, NEW M, NEW now \in Nat, SpentWell(p, S, N, now),
           \A row \in N : row.nonce # p.nonce,
           M = N \cup {[nonce |-> p.nonce, at |-> now]},
           now >= p.iat - PopMaxAge, now <= p.iat + PopMaxAge
    PROVE  SpentWell(p, Append(S, now), M, now)
<1>a. PopMaxAge \in Nat /\ p.iat \in Nat /\ NonceGcThreshold = 2 * PopMaxAge
  BY ChecksAssumption DEF NonceGcThreshold
<1>1. S \in Seq(Nat)
  BY DEF SpentWell
<1> DEFINE T == Append(S, now)
<1>2. /\ T \in Seq(Nat) /\ Len(T) = Len(S) + 1 /\ Len(S) \in Nat /\ T[Len(S) + 1] = now
      /\ \A i \in 1 .. Len(S) : T[i] = S[i]
  BY <1>1, AppendProperties
<1> HIDE DEF T
<1>3. ASSUME NEW i \in 1 .. Len(S)
      PROVE  S[i] \in Nat /\ S[i] = p.iat - PopMaxAge /\ now = p.iat + PopMaxAge
  <2>1. S[i] \in Nat
    BY <1>1, ElementOfSeq
  <2>2. S[i] >= p.iat - PopMaxAge /\ RememberedIn(N, now, p.nonce, S[i])
    BY DEF SpentWell
  <2>3. S[i] <= now - NonceGcThreshold
    BY <2>2 DEF RememberedIn
  <2> QED
    BY <1>a, <2>1, <2>2, <2>3
<1>4. ASSUME NEW n, NEW t, RememberedIn(N, now, n, t) PROVE RememberedIn(M, now, n, t)
  BY <1>4 DEF RememberedIn
<1>5. RememberedIn(M, now, p.nonce, now)
  <2>1. [nonce |-> p.nonce, at |-> now].nonce = p.nonce /\ [nonce |-> p.nonce, at |-> now].at >= now
    OBVIOUS
  <2> QED
    BY <2>1 DEF RememberedIn
<1>6. ASSUME NEW i \in 1 .. Len(T)
      PROVE  /\ T[i] >= p.iat - PopMaxAge /\ T[i] <= now /\ RememberedIn(M, now, p.nonce, T[i])
  <2>1. CASE i = Len(S) + 1
    BY <1>2, <1>5, <2>1
  <2>2. CASE i # Len(S) + 1
    <3>1. i \in 1 .. Len(S)
      BY <1>2, <2>2
    <3>2. S[i] >= p.iat - PopMaxAge /\ S[i] <= now /\ RememberedIn(N, now, p.nonce, S[i])
      BY <3>1 DEF SpentWell
    <3> QED
      BY <1>2, <1>4, <3>1, <3>2
  <2> QED
    BY <2>1, <2>2
<1>7. ASSUME NEW i \in 1 .. Len(T), NEW j \in 1 .. Len(T), i < j
      PROVE  T[i] = p.iat - PopMaxAge /\ T[j] = p.iat + PopMaxAge
  <2>1. i \in 1 .. Len(S)
    BY <1>2, <1>7
  <2>2. T[i] = p.iat - PopMaxAge /\ now = p.iat + PopMaxAge
    BY <1>2, <1>3, <2>1
  <2>3. CASE j = Len(S) + 1
    BY <1>2, <2>2, <2>3
  <2>4. CASE j # Len(S) + 1
    <3>1. j \in 1 .. Len(S)
      BY <1>2, <2>4
    <3>2. S[j] = p.iat + PopMaxAge
      BY <1>7, <2>1, <3>1 DEF SpentWell
    <3> QED
      BY <1>2, <2>2, <3>1, <3>2
  <2> QED
    BY <2>3, <2>4
<1> QED
  BY <1>2, <1>6, <1>7 DEF SpentWell, T

\* A request that is let through keeps the invariant of the proofs.
LEMMA SpendStep ==
    ASSUME SpentInv, gcNow \in Nat, gcNow' = gcNow, NEW g, NEW p \in GcProofs,
           PopError(g, p) = None, SpendNonce(p), LetThrough(p)
    PROVE  SpentInv'
<1>b. NonceGcThreshold \in Nat
  BY ChecksAssumption DEF NonceGcThreshold
<1>1. PICK left \in LeftByCollection :
        /\ \A row \in left : row.nonce # p.nonce
        /\ gcNonces' = left \cup {[nonce |-> p.nonce, at |-> gcNow]}
  BY DEF SpendNonce
<1>2. left \subseteq gcNonces /\ gcNonces \subseteq NonceRows
  BY CollectionFacts DEF SpentInv
<1>3. gcNonces' \subseteq NonceRows
  BY <1>1, <1>2 DEF NonceRows
<1>4. NothingForgotten(gcNonces, gcNow, left, gcNow)
  BY <1>2, <1>b, CollectionForgetsNothing
<1>5. NothingForgotten(left, gcNow, gcNonces', gcNow)
  BY <1>1 DEF NothingForgotten, RememberedIn
<1>6. gcSpent' = [gcSpent EXCEPT ![p] = Append(gcSpent[p], gcNow)]
  BY DEF LetThrough
<1>7. gcSpent = [q \in GcProofs |-> gcSpent[q]]
  BY DEF SpentInv
<1>8. /\ gcSpent' = [q \in GcProofs |-> gcSpent'[q]]
      /\ gcSpent'[p] = Append(gcSpent[p], gcNow)
      /\ \A q \in GcProofs \ {p} : gcSpent'[q] = gcSpent[q]
  BY <1>6, <1>7
<1>9. ASSUME NEW q \in GcProofs PROVE SpentWell(q, gcSpent[q], left, gcNow)
  <2>1. SpentWell(q, gcSpent[q], gcNonces, gcNow)
    BY DEF SpentInv
  <2> QED
    BY <1>4, <2>1, SpentStays
<1>10. ASSUME NEW q \in GcProofs PROVE SpentWell(q, gcSpent'[q], gcNonces', gcNow)
  <2>1. CASE q = p
    <3>1. gcNow >= p.iat - PopMaxAge /\ gcNow <= p.iat + PopMaxAge
      BY FreshIfVerified
    <3>2. SpentWell(p, gcSpent[p], left, gcNow)
      BY <1>9
    <3>3. SpentWell(p, Append(gcSpent[p], gcNow), gcNonces', gcNow)
      BY <1>1, <3>1, <3>2, SpentAgain
    <3> QED
      BY <1>8, <2>1, <3>3
  <2>2. CASE q # p
    <3>1. SpentWell(q, gcSpent[q], left, gcNow) /\ gcSpent'[q] = gcSpent[q]
      BY <1>8, <1>9, <2>2
    <3> QED
      BY <1>5, <3>1, SpentStays
  <2> QED
    BY <2>1, <2>2
<1>11. ASSUME NEW q \in GcProofs PROVE SpentWell(q, gcSpent[q], gcNonces, gcNow)'
  <2>1. SpentWell(q, gcSpent'[q], gcNonces', gcNow')
    BY <1>10
  <2> QED
    BY <2>1 DEF SpentWell, RememberedIn, NonceGcThreshold
<1> QED
  BY <1>3, <1>8, <1>11 DEF SpentInv, NonceRows

\* A collection alone, and the passing of time, keep it too.
LEMMA CollectStep ==
    ASSUME SpentInv, gcNow \in Nat, gcNow' = gcNow, gcSpent' = gcSpent,
           gcNonces' \in LeftByCollection
    PROVE  SpentInv'
<1>b. NonceGcThreshold \in Nat
  BY ChecksAssumption DEF NonceGcThreshold
<1>2. gcNonces' \subseteq gcNonces /\ gcNonces \subseteq NonceRows
  BY CollectionFacts DEF SpentInv
<1>4. NothingForgotten(gcNonces, gcNow, gcNonces', gcNow)
  BY <1>2, <1>b, CollectionForgetsNothing
<1>9. ASSUME NEW q \in GcProofs PROVE SpentWell(q, gcSpent[q], gcNonces, gcNow)'
  <2>1. SpentWell(q, gcSpent[q], gcNonces, gcNow)
    BY DEF SpentInv
  <2>2. SpentWell(q, gcSpent[q], gcNonces', gcNow)
    BY <1>4, <2>1, SpentStays
  <2>3. SpentWell(q, gcSpent'[q], gcNonces', gcNow')
    BY <2>2
  <2> QED
    BY <2>3 DEF SpentWell, RememberedIn, NonceGcThreshold
<1> QED
  BY <1>2, <1>9 DEF SpentInv, NonceRows

LEMMA SpentTick ==
    ASSUME SpentInv, gcNow \in Nat, gcNow' \in Nat, gcNow <= gcNow', UNCHANGED <<gcNonces, gcSpent>>
    PROVE  SpentInv'
<1>b. NonceGcThreshold \in Nat
  BY ChecksAssumption DEF NonceGcThreshold
<1>4. NothingForgotten(gcNonces, gcNow, gcNonces, gcNow')
  <2>0. \A t, a, b, w \in Nat : a <= b /\ t <= a - w => t <= b - w
    OBVIOUS
  <2>1. \A t \in Nat : t <= gcNow - NonceGcThreshold => t <= gcNow' - NonceGcThreshold
    BY <1>b, <2>0
  <2> QED
    BY <2>1 DEF NothingForgotten, RememberedIn
<1>9. ASSUME NEW q \in GcProofs PROVE SpentWell(q, gcSpent[q], gcNonces, gcNow)'
  <2>1. SpentWell(q, gcSpent[q], gcNonces, gcNow)
    BY DEF SpentInv
  <2>2. SpentWell(q, gcSpent[q], gcNonces, gcNow')
    BY <1>4, <2>1, SpentStays
  <2>3. SpentWell(q, gcSpent'[q], gcNonces', gcNow')
    BY <2>2
  <2> QED
    BY <2>3 DEF SpentWell, RememberedIn, NonceGcThreshold
<1> QED
  BY <1>9 DEF SpentInv, NonceRows

\* Every request keeps the invariant.
LEMMA GcStep == GcInv /\ [GcNext]_gcVars => GcInv'
<1> SUFFICES ASSUME GcInv, [GcNext]_gcVars PROVE GcInv'
  OBVIOUS
<1>t. SpentInv /\ gcNow \in Nat
  BY ChecksAssumption DEF GcInv, GcTypeOK
<1>1. ASSUME NEW g \in GcGrants, NEW p \in GcProofs, ExchangeGrant(g, p) PROVE GcInv'
  <2>1. gcRows' = (IF g.iss \notin gcUsers \/ RowsWith(g.id) # {} THEN gcRows ELSE gcRows \cup {GrantRow(g)})
        /\ UNCHANGED <<gcNow, gcUsers>> /\ g.signer = g.iss
    BY <1>1, SignedIfVerified DEF ExchangeGrant, ExchangeVerifies
  <2>2. gcRows \subseteq gcRows'
        /\ \A row \in gcRows' : row \in gcRows \/ (row = GrantRow(g) /\ RowsWith(g.id) = {})
    BY <2>1
  <2>3. GcTypeOK'
    <3>1. ASSUME NEW row \in gcRows', NEW other \in gcRows', row.id = other.id PROVE row = other
      BY <2>2, <3>1, NewRowFacts DEF RowsWith, GcInv, GcTypeOK
    <3> QED
      BY <2>1, <3>1 DEF GcInv, GcTypeOK
  <2>4. \A row \in gcRows' : \E h \in GcGrants : SameGrant(h, row)
    BY <2>2, NewRowFacts DEF GcInv
  <2>5. ASSUME NEW s \in gcSessions'
        PROVE  /\ s.made \in GcGrants /\ s.gid = s.made.id /\ s.made.signer = s.made.iss
               /\ \E row \in gcRows' : SameGrant(s.made, row)
    <3>1. CASE s \in gcSessions
      BY <2>2, <3>1 DEF GcInv
    <3>2. CASE s \notin gcSessions
      <4>1. /\ s = NewGrantSession(g)
            /\ \E row \in gcRows' : SameGrant(g, row)
        BY <1>1, <2>5, <3>2 DEF ExchangeGrant
      <4>2. s.made = g /\ s.gid = g.id
        BY <4>1 DEF NewGrantSession
      <4> QED
        BY <2>1, <4>1, <4>2
    <3> QED
      BY <3>1, <3>2
  <2>6. SpentInv'
    BY <1>1, <1>t, SpendStep DEF ExchangeGrant, ExchangeVerifies
  <2> QED
    BY <2>3, <2>4, <2>5, <2>6 DEF GcInv
<1>2. ASSUME NEW g \in GcGrants, NEW p \in GcProofs, SignUpWithGrant(g, p) PROVE GcInv'
  <2>1. SpentInv'
    BY <1>2, <1>t, SpendStep DEF SignUpWithGrant, SignupVerifies
  <2>2. GcTypeOK'
    BY <1>2, ChecksAssumption DEF SignUpWithGrant, GcInv, GcTypeOK
  <2> QED
    BY <1>2, <2>1, <2>2 DEF SignUpWithGrant, GcInv
<1>3. ASSUME NEW g \in GcGrants, NEW p \in GcProofs, SignOutWithProof(g, p) PROVE GcInv'
  <2> DEFINE mine == {row \in RowsWith(g.id) : row.user = g.iss /\ row.cnf = g.cnf}
             Ended(row) == [row EXCEPT !.revoked = TRUE]
  <2>1. /\ gcRows' = (gcRows \ mine) \cup {Ended(row) : row \in mine}
        /\ gcSessions' = {s \in gcSessions : \A row \in mine : row.id # s.gid}
        /\ UNCHANGED <<gcNow, gcUsers>>
    BY <1>3 DEF SignOutWithProof
  <2>2. mine \subseteq gcRows
    BY DEF RowsWith
  <2>3. \A row \in gcRows : /\ Ended(row).id = row.id
                            /\ \A h \in GcGrants : SameGrant(h, row) => SameGrant(h, Ended(row))
    <3>1. ASSUME NEW row, NEW h, SameGrant(h, row)
          PROVE  Ended(row).id = row.id /\ SameGrant(h, Ended(row))
      BY <3>1, SameGrantFacts
    <3>2. \A row \in gcRows : \E h \in GcGrants : SameGrant(h, row)
      BY DEF GcInv
    <3> HIDE DEF Ended
    <3> QED
      BY <3>1, <3>2
  <2> HIDE DEF mine, Ended
  <2>4. \A new \in gcRows' : \E row \in gcRows : new = row \/ (new = Ended(row) /\ row \in mine)
    BY <2>1, <2>2
  <2>5. ASSUME NEW a \in gcRows', NEW b \in gcRows', a.id = b.id PROVE a = b
    <3>1. PICK x \in gcRows : (a = x /\ x \notin mine) \/ (a = Ended(x) /\ x \in mine)
      BY <2>1, <2>2
    <3>2. PICK y \in gcRows : (b = y /\ y \notin mine) \/ (b = Ended(y) /\ y \in mine)
      BY <2>1, <2>2
    <3>3. x.id = y.id
      BY <2>3, <2>5, <3>1, <3>2
    <3>4. x = y
      BY <3>3 DEF GcInv, GcTypeOK
    <3> QED
      BY <3>1, <3>2, <3>4
  <2>6. GcTypeOK'
    BY <2>1, <2>5 DEF GcInv, GcTypeOK
  <2>7. \A row \in gcRows' : \E h \in GcGrants : SameGrant(h, row)
    BY <2>3, <2>4 DEF GcInv
  <2>8. \A h \in GcGrants : (\E row \in gcRows : SameGrant(h, row)) => \E row \in gcRows' : SameGrant(h, row)
    BY <2>1, <2>3
  <2>9. SpentInv'
    BY <1>3, <1>t, SpendStep DEF SignOutWithProof
  <2> QED
    BY <2>1, <2>6, <2>7, <2>8, <2>9 DEF GcInv
<1>4. CASE GcTick
  <2>1. SpentInv'
    <3>1. gcNow' \in Nat /\ gcNow <= gcNow'
      BY <1>4, <1>t DEF GcTick
    <3> QED
      BY <1>4, <1>t, <3>1, SpentTick DEF GcTick
  <2>2. GcTypeOK' /\ UNCHANGED <<gcRows, gcSessions>>
    BY <1>4 DEF GcTick, GcInv, GcTypeOK
  <2> QED
    BY <2>1, <2>2 DEF GcInv
<1>5. CASE UNCHANGED gcVars
  <2>1. SpentInv'
    BY <1>5, <1>t, SpentTick DEF gcVars
  <2> QED
    BY <1>5, <2>1 DEF gcVars, GcInv, GcTypeOK
<1>6. ASSUME NEW g \in GcGrants, NEW p \in GcProofs, RefuseReplay(g, p) PROVE GcInv'
  <2>1. SpentInv'
    BY <1>6, <1>t, CollectStep DEF RefuseReplay
  <2> QED
    BY <1>6, <2>1 DEF RefuseReplay, GcInv, GcTypeOK
<1> QED
  BY <1>1, <1>2, <1>3, <1>4, <1>5, <1>6 DEF GcNext

\* GrantChecksSound: a bearer that is accepted acts for the user who signed its grant,
\* the grant is in that user's list, and a proof serves once but for the first and the
\* last second of its window, for any grants and proofs, whoever signed them
\* (service.rs, crypto/).
THEOREM GrantChecksAreSound == GcSpec => []GrantChecksSound
<1>1. GcInit => GcInv
  <2> SUFFICES ASSUME GcInit PROVE GcInv
    OBVIOUS
  <2>1. SpentInv
    <3>1. gcSpent = [p \in GcProofs |-> <<>>] /\ gcNonces = {}
      BY DEF GcInit
    <3>2. ASSUME NEW p \in GcProofs PROVE SpentWell(p, gcSpent[p], gcNonces, gcNow)
      <4>1. gcSpent[p] = <<>> /\ <<>> \in Seq(Nat) /\ Len(<<>>) = 0
        BY <3>1
      <4> QED
        BY <4>1 DEF SpentWell
    <3> QED
      BY <3>1, <3>2 DEF SpentInv
  <2> QED
    BY <2>1, ChecksAssumption DEF GcInit, GcInv, GcTypeOK
<1>2. GcInv /\ [GcNext]_gcVars => GcInv'
  BY GcStep
<1>3. GcInv => GrantChecksSound
  <2> SUFFICES ASSUME GcInv PROVE AcceptedIsListed /\ ProofServesOnce
    BY DEF GrantChecksSound, GcInv
  <2>1. ASSUME NEW s \in gcSessions, BearerAccepted(s)
        PROVE  \E row \in ListActiveForUser(s.made.iss) :
                 row.id = s.gid /\ row.root = s.made.root /\ row.cnf = s.made.cnf
    <3>1. PICK row \in gcRows : SameGrant(s.made, row)
      BY DEF GcInv
    <3>2. /\ row.id = s.gid /\ row.user = s.made.iss /\ row.cnf = s.made.cnf /\ row.root = s.made.root
      <4>1. /\ row.id = s.made.id /\ row.user = s.made.iss /\ row.cnf = s.made.cnf
            /\ row.root = s.made.root
        BY <3>1, SameGrantFacts
      <4> QED
        BY <4>1 DEF GcInv
    <3>3. RequireActive(row)
      BY <2>1, <3>2 DEF BearerAccepted, RowsWith, GcInv, GcTypeOK
    <3> QED
      BY <3>2, <3>3 DEF ListActiveForUser, RequireActive
  <2>2. AcceptedIsListed
    BY <2>1 DEF AcceptedIsListed, GcInv
  <2>3. ProofServesOnce
    <3> SUFFICES ASSUME NEW p \in GcProofs, NEW i \in DOMAIN gcSpent[p], NEW j \in DOMAIN gcSpent[p], i < j
                 PROVE  gcSpent[p][i] = p.iat - PopMaxAge /\ gcSpent[p][j] = p.iat + PopMaxAge
      BY DEF ProofServesOnce
    <3>1. SpentWell(p, gcSpent[p], gcNonces, gcNow)
      BY DEF GcInv, SpentInv
    <3>2. DOMAIN gcSpent[p] = 1 .. Len(gcSpent[p])
      BY <3>1 DEF SpentWell
    <3> QED
      BY <3>1, <3>2 DEF SpentWell
  <2> QED
    BY <2>2, <2>3
<1> QED
  BY <1>1, <1>2, <1>3, PTL DEF GcSpec

-----------------------------------------------------------------------------
(* Homeservers of two versions that start, migrate and stop on one database.  *)

\* The steps of a start at which its listeners run.
Serving == {"app", "repair", "admin", "metrics", "bind icann", "bind pubky", "publish", "up"}
Migrated == Serving \cup {"listen events", "listen revocations"}

\* What a homeserver runs is what its start has come to.
RunsInv ==
    \A s \in SuServers :
        /\ suServer[s].runs \ {"events", "revocations"} # {} => suServer[s].step \in Serving
        /\ suServer[s].step \in Serving => {"events", "revocations"} \subseteq suServer[s].runs
        /\ suServer[s].step = "listen revocations" => "events" \in suServer[s].runs

\* A migration that a homeserver has left behind, and no longer runs, is in the table.
AppliedInv ==
    \A s \in SuServers : \A i \in 1..Len(Migrations) :
        \/ suServer[s].step = "migrate" /\ i \notin suServer[s].todo
        \/ suServer[s].step \in Migrated /\ i <= suServer[s].version
        => Migrations[i].name \in suApplied

\* A migration in the table has made its tables and columns.
SchemaInv ==
    \A i \in 1..Len(Migrations) : Migrations[i].name \in suApplied => Migrations[i].adds \subseteq suSchema

\* The migration under way is the first that its homeserver has to run.
TxInv ==
    suTx # None =>
        /\ suServer[suTx.server].step = "migrate" /\ suServer[suTx.server].todo # {}
        /\ suTx.name = Migrations[FirstOf(suServer[suTx.server].todo)].name

\* The newest event of a file that is there is a PUT, with the hash of the file or none.
NewestInv ==
    \A i \in 1..Len(suEvents) :
        suEvents[i].put /\ (\A j \in i+1..Len(suEvents) : suEvents[j].path # suEvents[i].path) =>
            /\ suEntries[suEvents[i].path] # None
            /\ suEvents[i].hash # None => suEvents[i].hash = suEntries[suEvents[i].path]

HashInv ==
    Done(EnhanceEvents) =>
        \A i \in 1..Len(suEvents) : suEvents[i].put /\ ~suEvents[i].late => suEvents[i].hash # None

\* Once the last page is read, every session that was not seen is late.
SeenInv ==
    LastPageRead => \A i \in 1..Len(suSessions) : i > suTx.seen => suSessions[i].late

CapsInv ==
    Done(SanitizeCapabilities) =>
        \A i \in 1..Len(suSessions) : ~suSessions[i].late => suSessions[i].caps \notin {"loose", "invalid"}

SuInv == SuTypeOK /\ RunsInv /\ AppliedInv /\ SchemaInv /\ TxInv /\ NewestInv /\ HashInv /\ SeenInv /\ CapsInv

\* No two migrations share a name.
LEMMA MigrationNames ==
    /\ Len(Migrations) = 13
    /\ \A i, j \in 1..Len(Migrations) : Migrations[i].name = Migrations[j].name => i = j
<1>1. Len(Migrations) = 13
  BY DEF Migrations
<1>2. 1..13 = {1, 2, 3, 4, 5, 6, 7, 8, 9, 10, 11, 12, 13}
  OBVIOUS
<1>3. /\ Migrations[1] = CreateUser
      /\ Migrations[2] = CreateSignupCode
      /\ Migrations[3] = CreateSession
      /\ Migrations[4] = CreateEvent
      /\ Migrations[5] = CreateEntry
      /\ Migrations[6] = EnhanceEvents
      /\ Migrations[7] = CreateGrantSessions
      /\ Migrations[8] = AddQuotaColumns
      /\ Migrations[9] = AddAllowedWritePaths
      /\ Migrations[10] = AddSignupCodeUsedAt
      /\ Migrations[11] = SanitizeCapabilities
      /\ Migrations[12] = CreateEntryLocks
      /\ Migrations[13] = EntryPathCollation
  BY DEF Migrations
<1>4. /\ CreateUser.name = "m20250806_create_user"
      /\ CreateSignupCode.name = "m20250812_create_signup_code"
      /\ CreateSession.name = "m20250813_create_session"
      /\ CreateEvent.name = "m20250814_create_event"
      /\ CreateEntry.name = "m20250815_create_entry"
      /\ EnhanceEvents.name = "m20251014_enhance_events_table"
      /\ CreateGrantSessions.name = "m20260325_create_grant_sessions"
      /\ AddQuotaColumns.name = "m20260327_add_quota_columns"
      /\ AddAllowedWritePaths.name = "m20260507_add_allowed_write_paths"
      /\ AddSignupCodeUsedAt.name = "m20260609_add_signup_code_used_at"
      /\ SanitizeCapabilities.name = "m20260723_sanitize_capabilities"
      /\ CreateEntryLocks.name = "m20260921_create_entry_locks"
      /\ EntryPathCollation.name = "m20261002_entry_path_c_collation"
  BY DEF CreateUser, CreateSignupCode, CreateSession, CreateEvent, CreateEntry, EnhanceEvents, CreateGrantSessions, AddQuotaColumns, AddAllowedWritePaths, AddSignupCodeUsedAt, SanitizeCapabilities, CreateEntryLocks, EntryPathCollation, Migration
<1>5. \A i, j \in 1..13 : Migrations[i].name = Migrations[j].name => i = j
  BY <1>2, <1>3, <1>4
<1> QED
  BY <1>1, <1>5

\* The first migration of a list that is not empty is in the list.
LEMMA FirstIsOne ==
    ASSUME NEW todo \in SUBSET (1..Len(Migrations)), todo # {}
    PROVE  FirstOf(todo) \in todo /\ FirstOf(todo) \in 1..Len(Migrations)
<1>1. todo \subseteq Nat
  BY MigrationNames
<1>2. \E i \in todo : \A j \in todo : i <= j
  BY <1>1, SmallestNumber
<1> QED
  BY <1>2 DEF FirstOf

LEMMA SuBegins == SuInit => SuInv
<1> SUFFICES ASSUME SuInit PROVE SuInv
  OBVIOUS
<1> DEFINE N == Len(Migrations)
<1>n. N = 13 /\ suOld \in 0..N
  BY MigrationNames, VersionAssumption DEF SuInit
<1> HIDE DEF N
<1>a. suApplied \subseteq NamesTo(N)
  BY <1>n DEF SuInit, NamesTo
<1>p. PICK old \in SuServers :
       suServer = [s \in SuServers |->
         IF s = old /\ suOld > 0
         THEN [Off EXCEPT !.step = "up", !.version = suOld,
                          !.runs = {"events", "revocations", "republisher", "icann", "pubky"}]
         ELSE Off]
  BY DEF SuInit
<1>o. \A s \in SuServers :
        \/ suServer[s] = Off
        \/ suServer[s] = [step |-> "up", version |-> suOld, todo |-> {}, port |-> 0,
                          runs |-> {"events", "revocations", "republisher", "icann", "pubky"}]
  BY <1>p DEF Off
<1>s. suServer \in [SuServers -> [step : Steps, version : 0..N,
                                 todo : SUBSET (1..N), runs : SUBSET Jobs, port : Nat]]
  <2>1. \A s \in SuServers : suServer[s] \in [step : Steps, version : 0..N,
                                 todo : SUBSET (1..N), runs : SUBSET Jobs, port : Nat]
    <3> SUFFICES ASSUME NEW s \in SuServers
           PROVE suServer[s] \in [step : Steps, version : 0..N,
                                  todo : SUBSET (1..N), runs : SUBSET Jobs, port : Nat]
      OBVIOUS
    <3>1. CASE suServer[s] = Off
      <4>1. "off" \in Steps /\ 0 \in 0..N /\ {} \in SUBSET (1..N) /\ {} \in SUBSET Jobs
        BY <1>n DEF Steps
      <4> QED
        BY <3>1, <4>1 DEF Off
    <3>2. CASE suServer[s] # Off
      <4>1. {"events", "revocations", "republisher", "icann", "pubky"} \in SUBSET Jobs /\ "up" \in Steps
            /\ {} \in SUBSET (1..N)
        BY DEF Jobs, Steps
      <4> QED
        BY <3>2, <4>1, <1>n, <1>o
    <3> QED
      BY <3>1, <3>2
  <2> QED
    BY <1>p, <2>1
<1>t. SuTypeOK
  BY <1>a, <1>s, SMTT(20) DEF SuTypeOK, SuInit, N
<1>r. RunsInv
  <2> SUFFICES ASSUME NEW s \in SuServers
         PROVE /\ suServer[s].runs \ {"events", "revocations"} # {} => suServer[s].step \in Serving
               /\ suServer[s].step \in Serving => {"events", "revocations"} \subseteq suServer[s].runs
               /\ suServer[s].step = "listen revocations" => "events" \in suServer[s].runs
    BY DEF RunsInv
  <2>1. CASE suServer[s] = Off
    <3>1. suServer[s].step = "off" /\ suServer[s].runs = {}
      BY <2>1 DEF Off
    <3> QED
      BY <3>1 DEF Serving
  <2>2. CASE suServer[s] # Off
    <3>1. suServer[s].step = "up"
          /\ suServer[s].runs = {"events", "revocations", "republisher", "icann", "pubky"}
      BY <2>2, <1>o
    <3> QED
      BY <3>1 DEF Serving
  <2> QED
    BY <2>1, <2>2
<1>ap. AppliedInv
  <2> SUFFICES ASSUME NEW s \in SuServers, NEW i \in 1..N,
                 \/ suServer[s].step = "migrate" /\ i \notin suServer[s].todo
                 \/ suServer[s].step \in Migrated /\ i <= suServer[s].version
         PROVE Migrations[i].name \in suApplied
    BY DEF AppliedInv, N
  <2>0. suServer[s].step # "off"
    BY DEF Migrated, Serving
  <2>1. suServer[s].version = suOld /\ suServer[s].step = "up"
    BY <2>0, <1>o DEF Off
  <2>2. i \in 1..suOld
    BY <1>n, <2>1
  <2> QED
    BY <2>2 DEF SuInit, NamesTo
<1>sc. SchemaInv
  <2> SUFFICES ASSUME NEW i \in 1..N, Migrations[i].name \in suApplied
         PROVE Migrations[i].adds \subseteq suSchema
    BY DEF SchemaInv, N
  <2>1. PICK k \in 1..suOld : Migrations[k].name = Migrations[i].name
    BY DEF SuInit, NamesTo
  <2>2. k = i
    BY <1>n, <2>1, MigrationNames DEF N
  <2> QED
    BY <2>2 DEF SuInit, SchemaTo
<1>tx. TxInv /\ SeenInv
  BY DEF SuInit, TxInv, SeenInv, LastPageRead, Sanitizing
<1>e. NewestInv /\ HashInv /\ CapsInv
  BY DEF SuInit, NewestInv, HashInv, CapsInv
<1> QED
  BY <1>t, <1>r, <1>ap, <1>sc, <1>tx, <1>e DEF SuInv

Homeserver == [step : Steps, version : 0..Len(Migrations),
               todo : SUBSET (1..Len(Migrations)), runs : SUBSET Jobs, port : Nat]

\* What the invariant says of one homeserver r.
Fits(r) ==
    /\ r.runs \ {"events", "revocations"} # {} => r.step \in Serving
    /\ r.step \in Serving => {"events", "revocations"} \subseteq r.runs
    /\ r.step = "listen revocations" => "events" \in r.runs
    /\ \A i \in 1..Len(Migrations) :
         (r.step = "migrate" /\ i \notin r.todo) \/ (r.step \in Migrated /\ i <= r.version)
           => Migrations[i].name \in suApplied

LEMMA EachFits ==
    (\A s \in SuServers : Fits(suServer[s])) <=> RunsInv /\ AppliedInv
BY Zenon DEF Fits, RunsInv, AppliedInv

LEMMA SuTypes ==
    SuTypeOK <=>
      /\ suApplied \subseteq NamesTo(Len(Migrations))
      /\ suTx # None => suTx \in [server : SuServers, name : NamesTo(Len(Migrations)),
                             seen : 0..Len(suSessions), ended : BOOLEAN]
      /\ suServer \in [SuServers -> Homeserver]
      /\ suEvents \in Seq([put : BOOLEAN, path : SuPaths, hash : SuContents \cup {None, "zero"},
                           late : BOOLEAN])
      /\ suEntries \in [SuPaths -> SuContents \cup {None}]
      /\ suSessions \in Seq([caps : {"normal", "loose", "invalid", "deleted"}, late : BOOLEAN])
      /\ suStarts \in Nat
BY Zenon DEF SuTypeOK, Homeserver

\* A step of one homeserver that leaves the rows alone, and the transaction or
\* rolls it back.
LEMMA ServerMoves ==
    ASSUME SuInv, NEW s \in SuServers, NEW r \in Homeserver, Fits(r),
           UNCHANGED <<suApplied, suSchema, suEvents, suEntries, suSessions>>, suTx' = suTx \/ suTx' = None,
           suStarts' \in Nat, suServer' = [suServer EXCEPT ![s] = r],
           suTx' # None /\ suTx'.server = s => r.step = "migrate" /\ r.todo = suServer[s].todo
    PROVE  SuInv'
<1>0. SuTypeOK /\ RunsInv /\ AppliedInv /\ SchemaInv /\ TxInv /\ NewestInv /\ HashInv /\ SeenInv /\ CapsInv
  BY DEF SuInv
<1>1. suServer \in [SuServers -> Homeserver]
  BY <1>0, SuTypes
<1>2. suServer' \in [SuServers -> Homeserver]
  BY <1>1
<1>3. SuTypeOK'
  BY <1>0, <1>2 DEF SuTypeOK, Homeserver
<1>4. \A t \in SuServers : Fits(suServer'[t])
  <2> SUFFICES ASSUME NEW t \in SuServers PROVE Fits(suServer'[t])
    OBVIOUS
  <2>1. CASE t = s
    BY <2>1, <1>1
  <2>2. CASE t # s
    <3>1. suServer'[t] = suServer[t]
      BY <2>2, <1>1
    <3> QED
      BY <3>1, <1>0, EachFits
  <2> QED
    BY <2>1, <2>2
<1>5. (RunsInv /\ AppliedInv)'
  BY <1>4 DEF Fits, RunsInv, AppliedInv
<1>6. TxInv'
  <2> SUFFICES ASSUME suTx' # None, suTx' = suTx
         PROVE /\ suServer'[suTx.server].step = "migrate" /\ suServer'[suTx.server].todo # {}
               /\ suTx.name = Migrations[FirstOf(suServer'[suTx.server].todo)].name
    BY DEF TxInv
  <2>1. /\ suServer[suTx.server].step = "migrate" /\ suServer[suTx.server].todo # {}
        /\ suTx.name = Migrations[FirstOf(suServer[suTx.server].todo)].name
    BY <1>0 DEF TxInv
  <2>2. suTx.server \in SuServers
    BY <1>0 DEF SuTypeOK
  <2>3. suServer'[suTx.server].step = "migrate" /\ suServer'[suTx.server].todo = suServer[suTx.server].todo
    BY <1>1, <2>1, <2>2
  <2> QED
    BY <2>1, <2>3
<1>7. (SchemaInv /\ NewestInv /\ HashInv /\ SeenInv /\ CapsInv)'
  BY <1>0 DEF SchemaInv, NewestInv, HashInv, SeenInv, CapsInv, Done, LastPageRead, Sanitizing
<1> QED
  BY <1>3, <1>5, <1>6, <1>7 DEF SuInv

\* A step of one homeserver that leaves the database alone.
LEMMA ServerStep ==
    ASSUME SuInv, NEW s \in SuServers, NEW r \in Homeserver, Fits(r),
           UNCHANGED <<suApplied, suSchema, suTx, suEvents, suEntries, suSessions>>,
           suStarts' \in Nat, suServer' = [suServer EXCEPT ![s] = r],
           suTx # None /\ suTx.server = s => r.step = "migrate" /\ r.todo = suServer[s].todo
    PROVE  SuInv'
BY ServerMoves

\* A step that changes nothing of the database nor of a homeserver.
LEMMA PacketStep ==
    ASSUME SuInv, UNCHANGED <<suDatabase, suServer, suStarts>>
    PROVE  SuInv'
BY DEF SuInv, suDatabase, suRows, SuTypeOK, RunsInv, AppliedInv, SchemaInv, TxInv, NewestInv,
   HashInv, SeenInv, CapsInv, Done, LastPageRead, Sanitizing

\* A homeserver that is off fits any database.
LEMMA OffFits == Off \in Homeserver /\ Fits(Off)
<1>1. Off \in Homeserver
  <2>1. "off" \in Steps /\ 0 \in 0..Len(Migrations) /\ {} \in SUBSET (1..Len(Migrations)) /\ {} \in SUBSET Jobs
    BY MigrationNames DEF Steps
  <2> QED
    BY <2>1 DEF Off, Homeserver
<1>2. Fits(Off)
  <2>1. Off.step = "off" /\ Off.runs = {}
    BY DEF Off
  <2> QED
    BY <2>1 DEF Fits, Serving, Migrated
<1> QED
  BY <1>1, <1>2

\* So does one whose start has not come to the database.
LEMMA EarlyFits ==
    ASSUME NEW r, r.runs \ {"events", "revocations"} = {}, r.step \in {"key", "write key", "list migrations"}
    PROVE  Fits(r)
BY DEF Fits, Serving, Migrated

\* No transaction is of a homeserver that is not migrating.
LEMMA TxIsMigrating ==
    ASSUME SuInv, NEW s \in SuServers, suServer[s].step # "migrate" \/ suServer[s].todo = {}
    PROVE  ~(suTx # None /\ suTx.server = s)
BY DEF SuInv, TxInv

\* The steps before the database.
LEMMA BeginStartStep ==
    ASSUME SuInv, NEW s \in SuServers, BeginStart(s) \/ ReadKey(s) \/ WriteKey(s)
    PROVE  SuInv'
<1>0. /\ suServer[s] \in Homeserver /\ Fits(suServer[s]) /\ suStarts \in Nat
      /\ suServer \in [SuServers -> Homeserver]
  BY EachFits, SuTypes DEF SuInv
<1>1. ~(suTx # None /\ suTx.server = s)
  BY TxIsMigrating DEF BeginStart, ReadKey, WriteKey
<1>2. CASE BeginStart(s)
  <2> DEFINE r == [Off EXCEPT !.step = "key", !.version = Len(Migrations), !.port = suStarts + 1]
  <2>1. r \in Homeserver /\ r.step = "key" /\ r.runs = {}
    <3>1. "key" \in Steps /\ Len(Migrations) \in 0..Len(Migrations) /\ suStarts + 1 \in Nat
      BY <1>0, MigrationNames DEF Steps
    <3> QED
      BY <3>1, OffFits DEF Off, Homeserver
  <2>2. Fits(r)
    <3> HIDE DEF r
    <3> QED
      BY <2>1, EarlyFits
  <2> QED
    <3>1. suServer' = [suServer EXCEPT ![s] = r]
      BY <1>2 DEF BeginStart
    <3>2. UNCHANGED <<suApplied, suSchema, suTx, suEvents, suEntries, suSessions>> /\ suStarts' \in Nat
      BY <1>0, <1>2 DEF BeginStart, suDatabase, suRows
    <3> HIDE DEF r
    <3> QED
      BY <1>1, <2>1, <2>2, <3>1, <3>2, ServerStep
<1>3. ASSUME NEW step \in {"key", "write key", "list migrations"}, SuStep(s, step),
             suServer[s].step \in {"key", "write key"}, UNCHANGED <<suDatabase, suStarts>>
      PROVE SuInv'
  <2> DEFINE r == [suServer[s] EXCEPT !.step = step]
  <2>1. r \in Homeserver /\ r.step = step /\ r.runs = suServer[s].runs
    <3>1. step \in Steps
      BY <1>3 DEF Steps
    <3> QED
      BY <1>0, <3>1 DEF Homeserver
  <2>2. suServer[s].runs \ {"events", "revocations"} = {}
    BY <1>0, <1>3 DEF Fits, Serving
  <2>3. Fits(r)
    <3> HIDE DEF r
    <3> QED
      BY <2>1, <2>2, EarlyFits
  <2>4. suServer' = [suServer EXCEPT ![s] = r]
    BY <1>0, <1>3 DEF SuStep
  <2>5. UNCHANGED <<suApplied, suSchema, suTx, suEvents, suEntries, suSessions>> /\ suStarts' \in Nat
    BY <1>0, <1>3 DEF suDatabase, suRows
  <2> HIDE DEF r
  <2> QED
    BY <1>1, <2>1, <2>3, <2>4, <2>5, ServerStep
<1>4. CASE ReadKey(s)
  <2>1. CASE suSecret[s] = None
    BY <1>3, <1>4, <2>1, StartAssumption DEF ReadKey
  <2>2. CASE suSecret[s] # None /\ suSecret[s] = "partial"
    <3>1. suServer' = [suServer EXCEPT ![s] = Off] /\ UNCHANGED <<suDatabase, suStarts>>
      BY <1>4, <2>2 DEF ReadKey
    <3>2. UNCHANGED <<suApplied, suSchema, suTx, suEvents, suEntries, suSessions>> /\ suStarts' \in Nat
      BY <1>0, <3>1 DEF suDatabase, suRows
    <3> QED
      BY <3>1, <3>2, <1>1, OffFits, ServerStep
  <2>3. CASE suSecret[s] # None /\ suSecret[s] # "partial"
    BY <1>3, <1>4, <2>3 DEF ReadKey
  <2> QED
    BY <2>1, <2>2, <2>3
<1>5. CASE WriteKey(s)
  BY <1>3, <1>5 DEF WriteKey
<1> QED
  BY <1>2, <1>4, <1>5

\* run_migrations reads the table.
LEMMA ListMigrationsStep ==
    ASSUME SuInv, NEW s \in SuServers, ListMigrations(s)
    PROVE  SuInv'
<1>0. /\ suServer[s] \in Homeserver /\ Fits(suServer[s]) /\ suStarts \in Nat
      /\ suServer \in [SuServers -> Homeserver]
  BY EachFits, SuTypes DEF SuInv
<1>1. ~(suTx # None /\ suTx.server = s)
  BY TxIsMigrating DEF ListMigrations
<1> DEFINE r == [suServer[s] EXCEPT !.step = "migrate", !.todo = ToRun(suApplied)]
<1>2. r \in Homeserver /\ r.step = "migrate" /\ r.runs = suServer[s].runs /\ r.todo = ToRun(suApplied)
  <2>1. "migrate" \in Steps /\ ToRun(suApplied) \in SUBSET (1..Len(Migrations))
    BY DEF Steps, ToRun
  <2> QED
    BY <1>0, <2>1 DEF Homeserver
<1>3. suServer[s].runs \ {"events", "revocations"} = {}
  BY <1>0 DEF Fits, Serving, ListMigrations
<1>4. suServer' = [suServer EXCEPT ![s] = r]
  BY <1>0 DEF ListMigrations
<1>5. UNCHANGED <<suApplied, suSchema, suTx, suEvents, suEntries, suSessions>> /\ suStarts' \in Nat
  BY <1>0 DEF ListMigrations, OnlyServer, suDatabase, suRows
<1> HIDE DEF r
<1>6. Fits(r)
  BY <1>2, <1>3 DEF Fits, Serving, Migrated, ToRun
<1> QED
  BY <1>1, <1>2, <1>4, <1>5, <1>6, ServerStep

\* A step of the start that runs `what`.
LEMMA StepRunsStep ==
    ASSUME SuInv, NEW s \in SuServers, NEW step, NEW what \in SUBSET Jobs, NEW next \in Steps,
           StepRuns(s, step, what, next),
           \/ step = "migrate" /\ next = "listen events" /\ what = {} /\ suServer[s].todo = {}
           \/ step = "listen events" /\ next = "listen revocations" /\ what = {"events"}
           \/ step = "listen revocations" /\ next = "app" /\ what = {"revocations"}
           \/ step \in Serving /\ next \in Serving
    PROVE  SuInv'
<1>0. /\ suServer[s] \in Homeserver /\ Fits(suServer[s]) /\ suStarts \in Nat
      /\ suServer \in [SuServers -> Homeserver]
  BY EachFits, SuTypes DEF SuInv
<1>1. suServer[s].step = step
  BY DEF StepRuns
<1>2. ~(suTx # None /\ suTx.server = s)
  BY <1>1, TxIsMigrating DEF Serving
<1> DEFINE r == [suServer[s] EXCEPT !.step = next, !.runs = @ \cup what]
<1>3. /\ r \in Homeserver /\ r.step = next /\ r.runs = suServer[s].runs \cup what
      /\ r.todo = suServer[s].todo /\ r.version = suServer[s].version
  BY <1>0 DEF Homeserver
<1>4. suServer' = [suServer EXCEPT ![s] = r]
  BY <1>0 DEF StepRuns
<1>5. UNCHANGED <<suApplied, suSchema, suTx, suEvents, suEntries, suSessions>> /\ suStarts' \in Nat
  BY <1>0 DEF StepRuns, OnlyServer, suDatabase, suRows
<1> HIDE DEF r
<1>6. ASSUME NEW i \in 1..Len(Migrations), r.step \in Migrated /\ i <= r.version
      PROVE Migrations[i].name \in suApplied
  <2>1. \/ suServer[s].step = "migrate" /\ i \notin suServer[s].todo
        \/ suServer[s].step \in Migrated /\ i <= suServer[s].version
    BY <1>1, <1>3, <1>6 DEF Migrated
  <2> QED
    BY <2>1, <1>0 DEF Fits
<1>7. next # "migrate"
  BY DEF Serving
<1>8. /\ r.runs \ {"events", "revocations"} # {} => r.step \in Serving
      /\ r.step \in Serving => {"events", "revocations"} \subseteq r.runs
      /\ r.step = "listen revocations" => "events" \in r.runs
  <2>1. CASE step \in Serving /\ next \in Serving
    BY <2>1, <1>0, <1>1, <1>3 DEF Fits, Serving
  <2>2. CASE step = "migrate" /\ next = "listen events" /\ what = {}
    BY <2>2, <1>0, <1>1, <1>3 DEF Fits, Serving
  <2>3. CASE step = "listen events" /\ next = "listen revocations" /\ what = {"events"}
    BY <2>3, <1>0, <1>1, <1>3 DEF Fits, Serving
  <2>4. CASE step = "listen revocations" /\ next = "app" /\ what = {"revocations"}
    BY <2>4, <1>0, <1>1, <1>3 DEF Fits, Serving
  <2> QED
    BY <2>1, <2>2, <2>3, <2>4
<1>9. Fits(r)
  BY <1>3, <1>6, <1>7, <1>8 DEF Fits
<1> QED
  BY <1>2, <1>3, <1>4, <1>5, <1>9, ServerStep

\* Every step of the start after the migrations.
LEMMA StartSteps ==
    ASSUME SuInv, NEW s \in SuServers,
           \/ MigrationsDone(s) \/ StartListener(s) \/ StartApp(s) \/ StartRepair(s) \/ StartAdmin(s)
           \/ StartMetrics(s) \/ StartIcannHttp(s) \/ StartPubkyTls(s)
    PROVE  SuInv'
<1> USE DEF Steps, Jobs, Serving
<1>1. CASE MigrationsDone(s)
  BY <1>1, StepRunsStep DEF MigrationsDone
<1>2. CASE StartListener(s)
  <2>1. CASE StepRuns(s, "listen events", {"events"}, "listen revocations")
    BY <2>1, StepRunsStep
  <2>2. CASE StepRuns(s, "listen revocations", {"revocations"}, "app")
    BY <2>2, StepRunsStep
  <2> QED
    BY <1>2, <2>1, <2>2 DEF StartListener
<1>3. CASE StartApp(s)
  BY <1>3, StepRunsStep DEF StartApp
<1>4. CASE StartRepair(s)
  BY <1>4, StepRunsStep DEF StartRepair
<1>5. CASE StartAdmin(s)
  BY <1>5, StepRunsStep DEF StartAdmin
<1>6. CASE StartMetrics(s)
  BY <1>6, StepRunsStep DEF StartMetrics
<1>7. CASE StartIcannHttp(s)
  BY <1>7, StepRunsStep DEF StartIcannHttp
<1>8. CASE StartPubkyTls(s)
  BY <1>8, StepRunsStep DEF StartPubkyTls
<1> QED
  BY <1>1, <1>2, <1>3, <1>4, <1>5, <1>6, <1>7, <1>8

\* The packet is published with the sockets bound, and later.
LEMMA PacketSteps ==
    ASSUME SuInv, NEW s \in SuServers, PublishPacket(s) \/ Republish(s) \/ PacketExpires(s)
    PROVE  SuInv'
<1>1. CASE PublishPacket(s)
  <2>1. /\ suServer[s] \in Homeserver /\ Fits(suServer[s]) /\ suStarts \in Nat
        /\ suServer \in [SuServers -> Homeserver]
    BY EachFits, SuTypes DEF SuInv
  <2>2. ~(suTx # None /\ suTx.server = s)
    BY <1>1, TxIsMigrating DEF PublishPacket
  <2> DEFINE r == [suServer[s] EXCEPT !.step = "up"]
  <2>3. /\ r \in Homeserver /\ r.step = "up" /\ r.runs = suServer[s].runs
        /\ r.version = suServer[s].version
    BY <2>1 DEF Homeserver, Steps
  <2>4. suServer' = [suServer EXCEPT ![s] = r]
    BY <1>1, <2>1 DEF PublishPacket, SuStep
  <2>5. UNCHANGED <<suApplied, suSchema, suTx, suEvents, suEntries, suSessions>> /\ suStarts' \in Nat
    BY <1>1, <2>1 DEF PublishPacket, suDatabase, suRows
  <2>6. suServer[s].step = "publish"
    BY <1>1 DEF PublishPacket
  <2> HIDE DEF r
  <2>7. Fits(r)
    BY <2>1, <2>3, <2>6 DEF Fits, Serving, Migrated
  <2> QED
    BY <2>2, <2>3, <2>4, <2>5, <2>7, ServerStep
<1>2. CASE Republish(s) \/ PacketExpires(s)
  BY <1>2, PacketStep DEF Republish, PacketExpires
<1> QED
  BY <1>1, <1>2

\* A step that changes the transaction alone.
LEMMA TxStep ==
    ASSUME SuInv, UNCHANGED <<suApplied, suSchema, suServer, suEvents, suEntries, suSessions, suStarts>>,
           suTx' # None =>
             /\ suTx' \in [server : SuServers, name : NamesTo(Len(Migrations)),
                           seen : 0..Len(suSessions), ended : BOOLEAN]
             /\ suServer[suTx'.server].step = "migrate" /\ suServer[suTx'.server].todo # {}
             /\ suTx'.name = Migrations[FirstOf(suServer[suTx'.server].todo)].name
             /\ suTx'.ended => suTx' = suTx \/ suTx'.seen = Len(suSessions)
    PROVE  SuInv'
<1>0. SuTypeOK /\ RunsInv /\ AppliedInv /\ SchemaInv /\ TxInv /\ NewestInv /\ HashInv /\ SeenInv /\ CapsInv
  BY DEF SuInv
<1>1. SuTypeOK'
  BY <1>0 DEF SuTypeOK
<1>2. (RunsInv /\ AppliedInv /\ SchemaInv /\ NewestInv /\ HashInv /\ CapsInv)'
  BY <1>0 DEF RunsInv, AppliedInv, SchemaInv, NewestInv, HashInv, CapsInv, Done
<1>3. TxInv'
  BY DEF TxInv
<1>4. SeenInv'
  <2> SUFFICES ASSUME LastPageRead', NEW i \in 1..Len(suSessions), i > suTx'.seen
         PROVE suSessions[i].late
    BY DEF SeenInv
  <2>1. suTx' # None /\ suTx'.ended
    BY DEF LastPageRead, Sanitizing
  <2>2. CASE suTx' = suTx
    BY <1>0, <2>1, <2>2 DEF SeenInv, LastPageRead, Sanitizing
  <2>3. CASE suTx'.seen = Len(suSessions)
    BY <2>3, <1>0 DEF SuTypeOK
  <2> QED
    BY <2>1, <2>2, <2>3
<1> QED
  BY <1>1, <1>2, <1>3, <1>4 DEF SuInv

\* up() of the first migration, and the pages of sanitize_sessions.
LEMMA MigrationSteps ==
    ASSUME SuInv, (\E s \in SuServers : BeginMigration(s)) \/ SanitizePage
    PROVE  SuInv'
<1>0. /\ suTx # None => suTx \in [server : SuServers, name : NamesTo(Len(Migrations)),
                           seen : 0..Len(suSessions), ended : BOOLEAN]
      /\ suServer \in [SuServers -> Homeserver] /\ TxInv /\ Len(suSessions) \in Nat
  BY SuTypes DEF SuInv
<1>1. CASE SanitizePage
  <2>1. UNCHANGED <<suApplied, suSchema, suServer, suEvents, suEntries, suSessions, suStarts>>
    BY <1>1 DEF SanitizePage, suRows
  <2>2. suTx # None /\ suTx.ended = FALSE /\ suTx.seen \in 0..Len(suSessions)
    BY <1>0, <1>1 DEF SanitizePage, Sanitizing
  <2>3. CASE suTx.seen < Len(suSessions)
    <3>1. suTx' = [suTx EXCEPT !.seen = suTx.seen + 1]
      BY <1>1, <2>3 DEF SanitizePage
    <3>2. suTx.seen + 1 \in 0..Len(suSessions)
      BY <1>0, <2>2, <2>3
    <3>3. /\ suTx' \in [server : SuServers, name : NamesTo(Len(Migrations)),
                           seen : 0..Len(suSessions), ended : BOOLEAN]
          /\ suTx'.server = suTx.server /\ suTx'.name = suTx.name /\ suTx'.ended = FALSE
      BY <1>0, <2>2, <3>1, <3>2
    <3> QED
      BY <1>0, <2>1, <2>2, <3>3, TxStep DEF TxInv
  <2>4. CASE ~(suTx.seen < Len(suSessions))
    <3>1. suTx' = [suTx EXCEPT !.ended = TRUE]
      BY <1>1, <2>4 DEF SanitizePage
    <3>2. suTx.seen = Len(suSessions)
      BY <1>0, <2>2, <2>4
    <3>3. /\ suTx' \in [server : SuServers, name : NamesTo(Len(Migrations)),
                           seen : 0..Len(suSessions), ended : BOOLEAN]
          /\ suTx'.server = suTx.server /\ suTx'.name = suTx.name /\ suTx'.seen = suTx.seen
      BY <1>0, <2>2, <3>1
    <3> QED
      BY <1>0, <2>1, <2>2, <3>2, <3>3, TxStep DEF TxInv
  <2> QED
    BY <2>3, <2>4
<1>2. CASE \E s \in SuServers : BeginMigration(s)
  <2> PICK s \in SuServers : BeginMigration(s)
    BY <1>2
  <2>1. UNCHANGED <<suApplied, suSchema, suServer, suEvents, suEntries, suSessions, suStarts>>
    BY DEF BeginMigration, suRows
  <2> DEFINE f == FirstOf(suServer[s].todo)
  <2>2. suServer[s].step = "migrate" /\ suServer[s].todo # {}
    BY DEF BeginMigration
  <2>3. suServer[s].todo \in SUBSET (1..Len(Migrations))
    BY <1>0 DEF Homeserver
  <2>4. f \in 1..Len(Migrations)
    BY <2>2, <2>3, FirstIsOne
  <2>5. suTx' = [server |-> s, name |-> Migrations[f].name, seen |-> 0, ended |-> FALSE]
    BY DEF BeginMigration
  <2> HIDE DEF f
  <2>6. Migrations[f].name \in NamesTo(Len(Migrations))
    BY <2>4 DEF NamesTo
  <2>7. /\ suTx' \in [server : SuServers, name : NamesTo(Len(Migrations)),
                           seen : 0..Len(suSessions), ended : BOOLEAN]
        /\ suTx'.server = s /\ suTx'.name = Migrations[f].name /\ suTx'.ended = FALSE
    BY <1>0, <2>5, <2>6
  <2> QED
    BY <2>1, <2>2, <2>7, TxStep DEF f
<1> QED
  BY <1>1, <1>2

\* A homeserver that stops drops its transaction.
LEMMA StopStep ==
    ASSUME SuInv, NEW s \in SuServers, Stop(s)
    PROVE  SuInv'
<1>1. suStarts \in Nat
  BY SuTypes DEF SuInv
<1>2. UNCHANGED <<suApplied, suSchema, suEvents, suEntries, suSessions>> /\ suStarts' \in Nat
  BY <1>1 DEF Stop, suRows
<1>3. /\ suTx' = suTx \/ suTx' = None
      /\ ~(suTx' # None /\ suTx'.server = s)
  BY DEF Stop
<1>4. suServer' = [suServer EXCEPT ![s] = Off]
  BY DEF Stop
<1> QED
  BY <1>2, <1>3, <1>4, OffFits, ServerMoves

EventRow == [put : BOOLEAN, path : SuPaths, hash : SuContents \cup {None, "zero"}, late : BOOLEAN]
SessionRow == [caps : {"normal", "loose", "invalid", "deleted"}, late : BOOLEAN]

\* Every PUT event has a hash after the backfill, and nothing else is changed.
LEMMA BackfillFills ==
    ASSUME NEW events \in Seq(EventRow), NEW entries \in [SuPaths -> SuContents \cup {None}]
    PROVE  LET after == Backfill(events, entries)
           IN /\ after \in Seq(EventRow) /\ Len(after) = Len(events)
              /\ \A i \in 1..Len(events) :
                   /\ after[i].put = events[i].put /\ after[i].path = events[i].path
                   /\ after[i].late = events[i].late
                   /\ events[i].put => after[i].hash # None
                   /\ events[i].hash # None => after[i].hash = events[i].hash
                   /\ events[i].put /\ events[i].hash = None /\ entries[events[i].path] # None =>
                        after[i].hash = entries[events[i].path]
<1> DEFINE after == Backfill(events, entries)
<1>1. after = [i \in 1..Len(events) |->
     IF ~events[i].put \/ events[i].hash # None THEN events[i]
     ELSE [events[i] EXCEPT !.hash = IF entries[events[i].path] # None THEN entries[events[i].path]
                                     ELSE "zero"]]
  BY DEF Backfill
<1>2. Len(events) \in Nat /\ \A i \in 1..Len(events) : events[i] \in EventRow
  OBVIOUS
<1> HIDE DEF after
<1>3. ASSUME NEW i \in 1..Len(events)
      PROVE  /\ after[i] \in EventRow
             /\ after[i].put = events[i].put /\ after[i].path = events[i].path
             /\ after[i].late = events[i].late
             /\ events[i].put => after[i].hash # None
             /\ events[i].hash # None => after[i].hash = events[i].hash
             /\ events[i].put /\ events[i].hash = None /\ entries[events[i].path] # None =>
                  after[i].hash = entries[events[i].path]
  <2>1. CASE ~events[i].put \/ events[i].hash # None
    <3>1. after[i] = events[i]
      BY <1>1, <2>1
    <3> QED
      BY <1>2, <2>1, <3>1
  <2>2. CASE events[i].put /\ events[i].hash = None
    <3> DEFINE h == IF entries[events[i].path] # None THEN entries[events[i].path] ELSE "zero"
    <3>1. after[i] = [events[i] EXCEPT !.hash = h]
      BY <1>1, <2>2
    <3>2. events[i].path \in SuPaths
      BY <1>2 DEF EventRow
    <3>3. h \in SuContents \cup {None, "zero"} /\ h # None
      BY <3>2, StartAssumption
    <3>4. entries[events[i].path] # None => h = entries[events[i].path]
      OBVIOUS
    <3> HIDE DEF h
    <3>5. events[i] \in EventRow
      BY <1>2
    <3>6. after[i] \in EventRow
      BY <3>1, <3>3, <3>5 DEF EventRow
    <3>7. /\ after[i].put = events[i].put /\ after[i].path = events[i].path
          /\ after[i].late = events[i].late /\ after[i].hash = h
      BY <3>1, <3>5 DEF EventRow
    <3> QED
      BY <2>2, <3>3, <3>4, <3>6, <3>7
  <2> QED
    BY <2>1, <2>2, <1>2 DEF EventRow
<1>4. DOMAIN after = 1..Len(events)
  BY <1>1
<1>5. after \in Seq(EventRow) /\ Len(after) = Len(events)
  <2>1. after = [i \in 1..Len(events) |-> after[i]]
    BY <1>1
  <2>2. after \in [1..Len(events) -> EventRow]
    BY <1>3, <2>1
  <2> QED
    BY <1>2, <2>2
<1> QED
  BY <1>3, <1>5 DEF after

\* A session that was seen keeps no loose or invalid capabilities, the others are left.
LEMMA SanitizeCleans ==
    ASSUME NEW sessions \in Seq(SessionRow), NEW seen \in Nat
    PROVE  LET after == Sanitize(sessions, seen)
           IN /\ after \in Seq(SessionRow) /\ Len(after) = Len(sessions)
              /\ \A i \in 1..Len(sessions) :
                   /\ after[i].late = sessions[i].late
                   /\ i <= seen => after[i].caps \notin {"loose", "invalid"}
<1> DEFINE normal == [i \in 1..Len(sessions) |->
                   IF i <= seen /\ sessions[i].caps = "loose"
                   THEN [sessions[i] EXCEPT !.caps = "normal"] ELSE sessions[i]]
           after == [i \in 1..Len(sessions) |->
        IF i <= seen /\ normal[i].caps = "invalid" THEN [normal[i] EXCEPT !.caps = "deleted"] ELSE normal[i]]
<1>1. Len(sessions) \in Nat /\ \A i \in 1..Len(sessions) : sessions[i] \in SessionRow
  OBVIOUS
<1>2. Len(normal) = Len(sessions)
  BY <1>1
<1>3. Sanitize(sessions, seen) = after
  BY <1>2 DEF Sanitize
<1>4. ASSUME NEW i \in 1..Len(sessions)
      PROVE  /\ normal[i] \in SessionRow /\ normal[i].late = sessions[i].late
             /\ i <= seen => normal[i].caps # "loose"
  BY <1>1 DEF SessionRow
<1> HIDE DEF normal
<1>5. ASSUME NEW i \in 1..Len(sessions)
      PROVE  /\ after[i] \in SessionRow /\ after[i].late = sessions[i].late
             /\ i <= seen => after[i].caps \notin {"loose", "invalid"}
  BY <1>4 DEF SessionRow
<1>6. after \in Seq(SessionRow) /\ Len(after) = Len(sessions)
  <2>1. after \in [1..Len(sessions) -> SessionRow]
    BY <1>5
  <2> HIDE DEF after
  <2> QED
    BY <1>1, <2>1
<1> HIDE DEF after
<1> QED
  BY <1>3, <1>5, <1>6

\* A migration and its mark are one transaction.
LEMMA CommitStep ==
    ASSUME SuInv, NEW s \in SuServers, CommitMigration(s)
    PROVE  SuInv'
<1>0. SuTypeOK /\ RunsInv /\ AppliedInv /\ SchemaInv /\ TxInv /\ NewestInv /\ HashInv /\ SeenInv /\ CapsInv
  BY DEF SuInv
<1>1. /\ suServer \in [SuServers -> Homeserver] /\ suStarts \in Nat
      /\ suApplied \subseteq NamesTo(Len(Migrations))
      /\ suEvents \in Seq(EventRow) /\ suEntries \in [SuPaths -> SuContents \cup {None}]
      /\ suSessions \in Seq(SessionRow)
  BY <1>0, SuTypes DEF EventRow, SessionRow
<1>2. /\ suTx # None /\ suTx.server = s /\ suTx' = None /\ (Sanitizing => suTx.ended)
      /\ suEntries' = suEntries /\ suStarts' = suStarts
  BY DEF CommitMigration
<1>3. suTx.seen \in Nat /\ suTx.name \in NamesTo(Len(Migrations))
  <2>1. suTx \in [server : SuServers, name : NamesTo(Len(Migrations)),
                  seen : 0..Len(suSessions), ended : BOOLEAN]
    BY <1>0, <1>2, SuTypes
  <2>2. suTx.seen \in 0..Len(suSessions) /\ suTx.name \in NamesTo(Len(Migrations))
    BY <2>1
  <2> QED
    BY <2>2
<1> DEFINE f == FirstOf(suServer[s].todo)
<1>4. /\ suServer[s].step = "migrate" /\ suServer[s].todo # {}
      /\ suTx.name = Migrations[f].name
  BY <1>0, <1>2 DEF TxInv
<1>5. suServer[s].todo \in SUBSET (1..Len(Migrations)) /\ f \in 1..Len(Migrations)
  <2>1. suServer[s].todo \in SUBSET (1..Len(Migrations))
    BY <1>1 DEF Homeserver
  <2> QED
    BY <2>1, <1>4, FirstIsOne
<1>6. CASE suTx.name \in suApplied
  <2>1. suServer' = [suServer EXCEPT ![s] = Off] /\ UNCHANGED <<suApplied, suSchema, suEvents, suSessions>>
    BY <1>6 DEF CommitMigration
  <2> QED
    BY <1>1, <1>2, <2>1, OffFits, ServerMoves
<1>7. CASE suTx.name \notin suApplied
  <2>1. /\ suApplied' = suApplied \cup {suTx.name}
        /\ suSchema' = suSchema \cup Migrations[f].adds
        /\ suServer' = [suServer EXCEPT ![s].todo = AfterMigration(suServer[s].todo)]
        /\ suEvents' = IF Enhancing THEN Backfill(suEvents, suEntries) ELSE suEvents
        /\ suSessions' = IF Sanitizing THEN Sanitize(suSessions, suTx.seen) ELSE suSessions
    BY <1>7 DEF CommitMigration, MarkAsDone
  <2> DEFINE r == [suServer[s] EXCEPT !.todo = suServer[s].todo \ {f}]
  <2>2. suServer' = [suServer EXCEPT ![s] = r]
    BY <1>1, <2>1 DEF AfterMigration
  <2> HIDE DEF f
  <2>3. /\ r \in Homeserver /\ r.step = suServer[s].step /\ r.version = suServer[s].version
        /\ r.runs = suServer[s].runs /\ r.todo = suServer[s].todo \ {f}
    BY <1>1, <1>5 DEF Homeserver
  <2> HIDE DEF r
  <2>4. suServer' \in [SuServers -> Homeserver]
    BY <1>1, <2>2, <2>3
  <2>5. suEvents' \in Seq(EventRow)
    BY <1>1, <2>1, BackfillFills
  <2>6. suSessions' \in Seq(SessionRow)
    BY <1>1, <1>3, <2>1, SanitizeCleans
  <2>7. SuTypeOK'
    <3>1. suApplied' \subseteq NamesTo(Len(Migrations))
      BY <1>1, <1>3, <2>1
    <3>2. suEntries' \in [SuPaths -> SuContents \cup {None}] /\ suStarts' \in Nat /\ suTx' = None
      BY <1>1, <1>2
    <3> QED
      BY <2>4, <2>5, <2>6, <3>1, <3>2 DEF SuTypeOK, Homeserver, EventRow, SessionRow
  <2>8. \A t \in SuServers : /\ suServer'[t].step = suServer[t].step /\ suServer'[t].runs = suServer[t].runs
                             /\ suServer'[t].version = suServer[t].version
                             /\ t # s => suServer'[t] = suServer[t]
    BY <1>1, <2>2, <2>3
  <2>9. RunsInv'
    BY <1>0, <2>8 DEF RunsInv
  <2>10. AppliedInv'
    <3> SUFFICES ASSUME NEW t \in SuServers, NEW i \in 1..Len(Migrations),
                  \/ suServer'[t].step = "migrate" /\ i \notin suServer'[t].todo
                  \/ suServer'[t].step \in Migrated /\ i <= suServer'[t].version
           PROVE Migrations[i].name \in suApplied'
      BY DEF AppliedInv
    <3>1. CASE t = s /\ i = f
      BY <3>1, <1>4, <2>1 DEF f
    <3>2. CASE ~(t = s /\ i = f)
      <4>1. i \notin suServer'[t].todo => i \notin suServer[t].todo
        <5>1. CASE t = s
          BY <5>1, <3>2, <1>1, <2>2, <2>3
        <5>2. CASE t # s
          BY <5>2, <2>8
        <5> QED
          BY <5>1, <5>2
      <4>2. \/ suServer[t].step = "migrate" /\ i \notin suServer[t].todo
            \/ suServer[t].step \in Migrated /\ i <= suServer[t].version
        BY <4>1, <2>8
      <4> QED
        BY <4>2, <1>0, <2>1 DEF AppliedInv
    <3> QED
      BY <3>1, <3>2
  <2>11. SchemaInv'
    <3> SUFFICES ASSUME NEW i \in 1..Len(Migrations), Migrations[i].name \in suApplied'
           PROVE Migrations[i].adds \subseteq suSchema'
      BY DEF SchemaInv
    <3>1. CASE Migrations[i].name \in suApplied
      BY <3>1, <1>0, <2>1 DEF SchemaInv
    <3>2. CASE Migrations[i].name = suTx.name
      <4>1. i = f
        BY <3>2, <1>4, <1>5, MigrationNames DEF f
      <4> QED
        BY <4>1, <2>1
    <3> QED
      BY <3>1, <3>2, <2>1
  <2>12. TxInv' /\ SeenInv'
    BY <1>2 DEF TxInv, SeenInv, LastPageRead, Sanitizing
  <2>13. ASSUME Enhancing PROVE NewestInv' /\ HashInv'
    <3> DEFINE after == Backfill(suEvents, suEntries)
    <3>1. suEvents' = after
      BY <2>1, <2>13
    <3>2. /\ Len(after) = Len(suEvents)
          /\ \A i \in 1..Len(suEvents) :
               /\ after[i].put = suEvents[i].put /\ after[i].path = suEvents[i].path
               /\ after[i].late = suEvents[i].late
               /\ suEvents[i].put => after[i].hash # None
               /\ suEvents[i].hash # None => after[i].hash = suEvents[i].hash
               /\ suEvents[i].put /\ suEvents[i].hash = None /\ suEntries[suEvents[i].path] # None =>
                    after[i].hash = suEntries[suEvents[i].path]
      BY <1>1, BackfillFills
    <3> HIDE DEF after
    <3>3. Len(suEvents) \in Nat
      BY <1>1
    <3>4. NewestInv'
      <4> SUFFICES ASSUME NEW i \in 1..Len(suEvents), after[i].put,
                     \A j \in i+1..Len(suEvents) : after[j].path # after[i].path
             PROVE /\ suEntries[after[i].path] # None
                   /\ after[i].hash # None => after[i].hash = suEntries[after[i].path]
        BY <1>2, <3>1, <3>2 DEF NewestInv
      <4>1. \A j \in i+1..Len(suEvents) : suEvents[j].path # suEvents[i].path
        BY <3>2, <3>3
      <4>2. /\ suEntries[suEvents[i].path] # None
            /\ suEvents[i].hash # None => suEvents[i].hash = suEntries[suEvents[i].path]
        BY <1>0, <3>2, <4>1 DEF NewestInv
      <4> QED
        BY <3>2, <4>2
    <3>5. HashInv'
      BY <3>1, <3>2 DEF HashInv
    <3> QED
      BY <3>4, <3>5
  <2>14. ASSUME ~Enhancing PROVE NewestInv' /\ HashInv'
    <3>1. suEvents' = suEvents
      BY <2>1, <2>14
    <3>2. Done(EnhanceEvents)' => Done(EnhanceEvents)
      BY <1>2, <2>1, <2>14 DEF Done, Enhancing
    <3> QED
      BY <1>0, <1>2, <3>1, <3>2 DEF NewestInv, HashInv
  <2>15. CapsInv'
    <3>1. CASE Sanitizing
      <4> DEFINE after == Sanitize(suSessions, suTx.seen)
      <4>1. suSessions' = after
        BY <2>1, <3>1
      <4>2. /\ Len(after) = Len(suSessions)
            /\ \A i \in 1..Len(suSessions) :
                 /\ after[i].late = suSessions[i].late
                 /\ i <= suTx.seen => after[i].caps \notin {"loose", "invalid"}
        BY <1>1, <1>3, SanitizeCleans
      <4> HIDE DEF after
      <4>3. LastPageRead
        BY <1>2, <3>1 DEF LastPageRead
      <4>4. \A i \in 1..Len(suSessions) : i > suTx.seen => suSessions[i].late
        BY <1>0, <4>3 DEF SeenInv
      <4>5. ASSUME NEW i \in 1..Len(suSessions), ~after[i].late
            PROVE after[i].caps \notin {"loose", "invalid"}
        <5>1. i <= suTx.seen
          BY <1>1, <1>3, <4>2, <4>4, <4>5
        <5> QED
          BY <5>1, <4>2
      <4> QED
        BY <4>1, <4>2, <4>5 DEF CapsInv
    <3>2. CASE ~Sanitizing
      <4>1. suSessions' = suSessions
        BY <2>1, <3>2
      <4>2. Done(SanitizeCapabilities)' => Done(SanitizeCapabilities)
        BY <1>2, <2>1, <3>2 DEF Done, Sanitizing
      <4> QED
        BY <1>0, <4>1, <4>2 DEF CapsInv
    <3> QED
      BY <3>1, <3>2
  <2> QED
    BY <2>7, <2>9, <2>10, <2>11, <2>12, <2>13, <2>14, <2>15 DEF SuInv
<1> QED
  BY <1>6, <1>7

\* A row is appended to an ordered table.
LEMMA OneMore ==
    ASSUME NEW S, NEW seq \in Seq(S), NEW e \in S
    PROVE  LET after == Append(seq, e)
           IN /\ after \in Seq(S) /\ Len(after) = Len(seq) + 1 /\ Len(seq) \in Nat
              /\ after[Len(seq) + 1] = e
              /\ \A i \in 1..Len(seq) : after[i] = seq[i]
              /\ 1..Len(after) = 1..Len(seq) \cup {Len(seq) + 1}
OBVIOUS

\* A file is written or deleted with its event.
LEMMA WriteFileStep ==
    ASSUME SuInv, NEW s \in SuServers, NEW p \in SuPaths, NEW c \in SuContents \cup {None},
           WriteFile(s, p, c)
    PROVE  SuInv'
<1>0. SuTypeOK /\ RunsInv /\ AppliedInv /\ SchemaInv /\ TxInv /\ NewestInv /\ HashInv /\ SeenInv /\ CapsInv
  BY DEF SuInv
<1>1. /\ suEvents \in Seq(EventRow) /\ suEntries \in [SuPaths -> SuContents \cup {None}]
  BY <1>0, SuTypes DEF EventRow
<1>2. UNCHANGED <<suApplied, suSchema, suTx, suSessions, suServer, suStarts>>
  BY DEF WriteFile
<1> DEFINE e == [put |-> c # None, path |-> p,
                 hash |-> IF c # None /\ Knows(s, EnhanceEvents) THEN c ELSE None,
                 late |-> Done(EnhanceEvents) /\ ~Knows(s, EnhanceEvents)]
           N == Len(suEvents)
<1>3. suEvents' = Append(suEvents, e) /\ suEntries' = [suEntries EXCEPT ![p] = c]
  BY DEF WriteFile
<1>4. /\ e \in EventRow /\ e.put = (c # None) /\ e.path = p
      /\ e.hash \in {c, None}
      /\ e.late = (Done(EnhanceEvents) /\ ~Knows(s, EnhanceEvents))
      /\ c # None /\ Knows(s, EnhanceEvents) => e.hash = c
  <2>1. /\ (c # None) \in BOOLEAN /\ (Done(EnhanceEvents) /\ ~Knows(s, EnhanceEvents)) \in BOOLEAN
        /\ (IF c # None /\ Knows(s, EnhanceEvents) THEN c ELSE None) \in SuContents \cup {None, "zero"}
    BY DEF Done, Knows
  <2> QED
    BY <2>1 DEF EventRow
<1> HIDE DEF e
<1>5. /\ suEvents' \in Seq(EventRow) /\ Len(suEvents') = N + 1 /\ N \in Nat
      /\ suEvents'[N + 1] = e
      /\ \A i \in 1..N : suEvents'[i] = suEvents[i]
  BY <1>1, <1>3, <1>4, OneMore
<1> HIDE DEF N
<1>6. SuTypeOK'
  <2>1. suEntries' \in [SuPaths -> SuContents \cup {None}]
    BY <1>1, <1>3
  <2> QED
    BY <1>0, <1>2, <1>5, <2>1 DEF SuTypeOK, EventRow
<1>7. (RunsInv /\ AppliedInv /\ SchemaInv /\ TxInv /\ SeenInv /\ CapsInv)'
  BY <1>0, <1>2 DEF RunsInv, AppliedInv, SchemaInv, TxInv, SeenInv, CapsInv, Done, LastPageRead, Sanitizing
<1>8. NewestInv'
  <2> SUFFICES ASSUME NEW i \in 1..(N + 1), suEvents'[i].put,
                 \A j \in i+1..(N + 1) : suEvents'[j].path # suEvents'[i].path
         PROVE /\ suEntries'[suEvents'[i].path] # None
               /\ suEvents'[i].hash # None => suEvents'[i].hash = suEntries'[suEvents'[i].path]
    BY <1>5 DEF NewestInv
  <2>1. CASE i = N + 1
    <3>1. suEvents'[i] = e /\ suEntries'[p] = c
      BY <2>1, <1>1, <1>3, <1>5
    <3> QED
      BY <3>1, <1>4
  <2>2. CASE i # N + 1
    <3>1. i \in 1..N /\ N + 1 \in i+1..(N + 1)
      BY <2>2, <1>5
    <3>2. suEvents'[i] = suEvents[i] /\ suEvents[i].path # p
      BY <3>1, <1>4, <1>5
    <3>3. \A j \in i+1..N : suEvents[j].path # suEvents[i].path
      <4> SUFFICES ASSUME NEW j \in i+1..N PROVE suEvents[j].path # suEvents[i].path
        OBVIOUS
      <4>1. j \in 1..N /\ j \in i+1..(N + 1)
        BY <3>1, <1>5
      <4> QED
        BY <4>1, <3>2, <1>5
    <3>4. /\ suEntries[suEvents[i].path] # None
          /\ suEvents[i].hash # None => suEvents[i].hash = suEntries[suEvents[i].path]
      BY <1>0, <3>1, <3>2, <3>3 DEF NewestInv, N
    <3>5. suEvents[i].path \in SuPaths
      <4>1. suEvents[i] \in EventRow
        BY <1>1, <3>1 DEF N
      <4> QED
        BY <4>1 DEF EventRow
    <3>6. suEntries'[suEvents[i].path] = suEntries[suEvents[i].path]
      BY <1>1, <1>3, <3>2, <3>5
    <3> QED
      BY <3>2, <3>4, <3>6
  <2> QED
    BY <2>1, <2>2
<1>9. HashInv'
  <2> SUFFICES ASSUME Done(EnhanceEvents), NEW i \in 1..(N + 1), suEvents'[i].put, ~suEvents'[i].late
         PROVE suEvents'[i].hash # None
    BY <1>2, <1>5 DEF HashInv, Done
  <2>1. CASE i = N + 1
    <3>1. suEvents'[i] = e
      BY <2>1, <1>5
    <3> QED
      BY <3>1, <1>4
  <2>2. CASE i # N + 1
    <3>1. i \in 1..N
      BY <2>2, <1>5
    <3> QED
      BY <3>1, <1>0, <1>5 DEF HashInv, N
  <2> QED
    BY <2>1, <2>2
<1> QED
  BY <1>6, <1>7, <1>8, <1>9 DEF SuInv

\* A cookie session is opened: one that no page of the migration will see is late.
LEMMA OpenSessionStep ==
    ASSUME SuInv, NEW s \in SuServers, NEW caps \in {"normal", "loose", "invalid"},
           OpenCookieSession(s, caps)
    PROVE  SuInv'
<1>0. SuTypeOK /\ RunsInv /\ AppliedInv /\ SchemaInv /\ TxInv /\ NewestInv /\ HashInv /\ SeenInv /\ CapsInv
  BY DEF SuInv
<1>1. suSessions \in Seq(SessionRow)
  BY <1>0, SuTypes DEF SessionRow
<1>2. UNCHANGED <<suApplied, suSchema, suTx, suEvents, suEntries, suServer, suStarts>>
  BY DEF OpenCookieSession
<1> DEFINE e == [caps |-> caps, late |-> Done(SanitizeCapabilities) \/ LastPageRead]
           N == Len(suSessions)
<1>3. suSessions' = Append(suSessions, e)
  BY DEF OpenCookieSession
<1>4. e \in SessionRow /\ (e.late <=> Done(SanitizeCapabilities) \/ LastPageRead)
  <2>1. (Done(SanitizeCapabilities) \/ LastPageRead) \in BOOLEAN
    BY DEF Done, LastPageRead, Sanitizing
  <2> QED
    BY <2>1 DEF SessionRow
<1> HIDE DEF e
<1>5. /\ suSessions' \in Seq(SessionRow) /\ Len(suSessions') = N + 1 /\ N \in Nat
      /\ suSessions'[N + 1] = e
      /\ \A i \in 1..N : suSessions'[i] = suSessions[i]
  BY <1>1, <1>3, <1>4, OneMore
<1> HIDE DEF N
<1>6. SuTypeOK'
  <2>1. suTx # None => suTx \in [server : SuServers, name : NamesTo(Len(Migrations)),
                             seen : 0..Len(suSessions), ended : BOOLEAN]
    BY <1>0, SuTypes
  <2>2. 0..Len(suSessions) \subseteq 0..Len(suSessions')
    BY <1>5 DEF N
  <2>3. suTx # None => suTx \in [server : SuServers, name : NamesTo(Len(Migrations)),
                             seen : 0..Len(suSessions'), ended : BOOLEAN]
    BY <2>1, <2>2
  <2> QED
    BY <1>0, <1>2, <1>5, <2>3 DEF SuTypeOK, SessionRow
<1>7. (RunsInv /\ AppliedInv /\ SchemaInv /\ TxInv /\ NewestInv /\ HashInv)'
  BY <1>0, <1>2 DEF RunsInv, AppliedInv, SchemaInv, TxInv, NewestInv, HashInv, Done
<1>8. ASSUME NEW i \in 1..(N + 1)
      PROVE \/ i \in 1..N /\ suSessions'[i] = suSessions[i]
            \/ i = N + 1 /\ suSessions'[i] = e
  <2>1. i \in 1..N \/ i = N + 1
    BY <1>5
  <2> QED
    BY <1>5, <2>1
<1>9. SeenInv'
  <2> SUFFICES ASSUME LastPageRead, NEW i \in 1..(N + 1), i > suTx.seen
         PROVE suSessions'[i].late
    BY <1>2, <1>5 DEF SeenInv, LastPageRead, Sanitizing
  <2> QED
    BY <1>0, <1>4, <1>8 DEF SeenInv, N
<1>10. CapsInv'
  <2> SUFFICES ASSUME Done(SanitizeCapabilities), NEW i \in 1..(N + 1), ~suSessions'[i].late
         PROVE suSessions'[i].caps \notin {"loose", "invalid"}
    BY <1>2, <1>5 DEF CapsInv, Done
  <2> QED
    BY <1>0, <1>4, <1>8 DEF CapsInv, N
<1> QED
  BY <1>6, <1>7, <1>9, <1>10 DEF SuInv

\* Every step keeps the invariant.
LEMMA SuNextStep ==
    ASSUME SuInv, [SuNext]_suVars
    PROVE  SuInv'
<1>1. CASE UNCHANGED suVars
  BY <1>1, PacketStep DEF suVars, suDatabase, suRows
<1>2. CASE SanitizePage
  BY <1>2, MigrationSteps
<1>3. ASSUME NEW s \in SuServers,
             \/ BeginStart(s) \/ ReadKey(s) \/ WriteKey(s) \/ ListMigrations(s) \/ BeginMigration(s)
             \/ CommitMigration(s) \/ MigrationsDone(s) \/ StartListener(s)
             \/ StartApp(s) \/ StartRepair(s) \/ StartAdmin(s) \/ StartMetrics(s)
             \/ StartIcannHttp(s) \/ StartPubkyTls(s) \/ PublishPacket(s) \/ Republish(s) \/ PacketExpires(s) \/ Stop(s)
      PROVE SuInv'
  BY <1>3, BeginStartStep, ListMigrationsStep, MigrationSteps, CommitStep, StartSteps, PacketSteps, StopStep
<1>4. ASSUME NEW s \in SuServers, NEW p \in SuPaths, NEW c \in SuContents \cup {None}, WriteFile(s, p, c)
      PROVE SuInv'
  BY <1>4, WriteFileStep
<1>5. ASSUME NEW s \in SuServers, NEW caps \in {"normal", "loose", "invalid"}, OpenCookieSession(s, caps)
      PROVE SuInv'
  BY <1>5, OpenSessionStep
<1> QED
  BY <1>1, <1>2, <1>3, <1>4, <1>5, Zenon DEF SuNext

\* A homeserver that serves finds the schema of its version.
LEMMA SuInvSound == SuInv => StartSound
<1> SUFFICES ASSUME SuInv PROVE StartSound
  OBVIOUS
<1>0. SuTypeOK /\ RunsInv /\ AppliedInv /\ SchemaInv /\ TxInv /\ NewestInv /\ HashInv /\ SeenInv /\ CapsInv
  BY DEF SuInv
<1>1. ServesItsSchema
  <2> SUFFICES ASSUME NEW s \in SuServers, suServer[s].runs \ {"events", "revocations"} # {}
         PROVE /\ SchemaTo(suServer[s].version) \subseteq suSchema
               /\ {"events", "revocations"} \subseteq suServer[s].runs
    BY DEF ServesItsSchema
  <2>1. suServer[s].step \in Serving /\ {"events", "revocations"} \subseteq suServer[s].runs
    BY <1>0 DEF RunsInv
  <2>2. suServer[s].version \in 0..Len(Migrations)
    BY <1>0, SuTypes DEF Homeserver
  <2>3. ASSUME NEW i \in 1..suServer[s].version PROVE Migrations[i].adds \subseteq suSchema
    <3>1. i \in 1..Len(Migrations) /\ i <= suServer[s].version
      BY <2>2, MigrationNames
    <3>2. Migrations[i].name \in suApplied
      BY <1>0, <2>1, <3>1 DEF AppliedInv, Migrated
    <3> QED
      BY <1>0, <3>1, <3>2 DEF SchemaInv
  <2>4. SchemaTo(suServer[s].version) \subseteq suSchema
    BY <2>3 DEF SchemaTo
  <2> QED
    BY <2>1, <2>4
<1>2. MigratedRowsAreWhole
  <2>1. ASSUME Done(EnhanceEvents), NEW i \in 1..Len(suEvents), suEvents[i].put /\ ~suEvents[i].late
        PROVE /\ suEvents[i].hash # None
              /\ (\A j \in i+1..Len(suEvents) : suEvents[j].path # suEvents[i].path) =>
                   suEvents[i].hash = suEntries[suEvents[i].path]
    BY <1>0, <2>1 DEF HashInv, NewestInv
  <2> QED
    BY <1>0, <2>1 DEF MigratedRowsAreWhole, CapsInv
<1> QED
  BY <1>0, <1>1, <1>2 DEF StartSound

\* Any number of homeservers of any two versions may start, migrate, stop and write
\* beside each other on one database: one that serves has the tables and columns of its
\* version and listens, and the rows that a migration has read come out whole.
THEOREM StartsAreSound == SuSpec => []StartSound
<1>1. SuInit => SuInv
  BY SuBegins
<1>2. SuInv /\ [SuNext]_suVars => SuInv'
  BY SuNextStep
<1>3. SuInv => StartSound
  BY SuInvSound
<1> QED
  BY <1>1, <1>2, <1>3, PTL DEF SuSpec

------------------------------------------------------------------------------
(* Requests for events: what a query becomes, and the pages of the old feed.   *)

FqWords == {p.word : p \in FqParams}
FqNums == {p.num : p \in FqParams} \cup {None}
FqFlags == {p.on : p \in FqParams} \cup {FALSE}
FqEntry == [user : FqWords, cursor : FqNums]
FqErrors == {None, "InvalidLimit", "ZeroLimit", "InvalidPath", "InvalidPublicKey", "InvalidCursor",
             "LiveWithReverse", "UserRequired", "TooManyUsers", "UserNotFound"}
FqResults == [error : FqErrors, users : Seq(FqEntry), cursor : FqNums, limit : FqNums,
              live : FqFlags, reverse : FqFlags, paths : SUBSET FqWords]

LEMMA ParamFacts ==
    ASSUME NEW p \in FqParams
    PROVE  p.word \in FqWords /\ p.num \in FqNums /\ p.on \in FqFlags /\ None \in FqNums
  BY DEF FqWords, FqNums, FqFlags

LEMMA ErrorFacts ==
    ASSUME NEW r \in FqResults, NEW e \in FqErrors
    PROVE  FqError(r, e) \in FqResults /\ FqError(r, e).users = r.users /\ FqError(r, e).error = e
<1> DEFINE U == Seq(FqEntry)
<1>1. r \in [error : FqErrors, users : U, cursor : FqNums, limit : FqNums, live : FqFlags, reverse : FqFlags,
             paths : SUBSET FqWords]
  BY DEF FqResults
<1> HIDE DEF U
<1>2. /\ FqError(r, e) \in [error : FqErrors, users : U, cursor : FqNums, limit : FqNums, live : FqFlags,
                            reverse : FqFlags, paths : SUBSET FqWords]
      /\ FqError(r, e).users = r.users /\ FqError(r, e).error = e
  BY <1>1 DEF FqError
<1> QED
  BY <1>2 DEF FqResults, U

\* A parameter both streams accept leaves the users alone.
LEMMA SharedFacts ==
    ASSUME NEW r \in FqResults, NEW p \in FqParams
    PROVE  SharedParam(r, p) \in FqResults /\ SharedParam(r, p).users = r.users
<1> DEFINE U == Seq(FqEntry)
           T == [error : FqErrors, users : U, cursor : FqNums, limit : FqNums, live : FqFlags, reverse : FqFlags,
                 paths : SUBSET FqWords]
<1>1. T = FqResults
  BY DEF FqResults
<1> HIDE DEF U
<1>2. p.word \in FqWords /\ p.num \in FqNums /\ p.on \in FqFlags
  BY ParamFacts
<1>3. [r EXCEPT !.limit = p.num] \in T /\ [r EXCEPT !.limit = p.num].users = r.users
  BY <1>1, <1>2
<1>4. [r EXCEPT !.live = p.on] \in T /\ [r EXCEPT !.live = p.on].users = r.users
  BY <1>1, <1>2
<1>5. [r EXCEPT !.reverse = p.on] \in T /\ [r EXCEPT !.reverse = p.on].users = r.users
  BY <1>1, <1>2
<1>6. [r EXCEPT !.paths = @ \cup {p.word}] \in T /\ [r EXCEPT !.paths = @ \cup {p.word}].users = r.users
  BY <1>1, <1>2
<1> HIDE DEF T
<1>7. \A e \in {"InvalidLimit", "ZeroLimit", "InvalidPath"} : FqError(r, e) \in FqResults /\ FqError(r, e).users = r.users
  BY ErrorFacts DEF FqErrors
<1>8. CASE p.key = "limit"
  BY <1>1, <1>3, <1>7, <1>8 DEF SharedParam
<1>9. CASE p.key = "live"
  BY <1>1, <1>4, <1>9 DEF SharedParam
<1>10. CASE p.key = "reverse"
  BY <1>1, <1>5, <1>10 DEF SharedParam
<1>11. CASE p.key = "path" /\ p.word # None
  BY <1>1, <1>6, <1>7, <1>11 DEF SharedParam
<1>12. CASE p.key \notin {"limit", "live", "reverse"} /\ ~(p.key = "path" /\ p.word # None)
  BY <1>12 DEF SharedParam
<1> QED
  BY <1>8, <1>9, <1>10, <1>11, <1>12

LEMMA FqEntryFacts ==
    ASSUME NEW named \in Seq(FqEntry), NEW i \in 1..Len(named)
    PROVE  named[i] \in FqEntry /\ named[i].user \in FqWords /\ named[i].cursor \in FqNums
<1>1. named[i] \in FqEntry
  BY ElementOfSeq
<1> QED
  BY <1>1 DEF FqEntry

\* A user that is named again keeps its place and gets the new cursor.
LEMMA UserCursorFacts ==
    ASSUME NEW named \in Seq(FqEntry), NEW u \in FqWords, NEW c \in FqNums,
           NEW new, new = UserCursor(named, u, c)
    PROVE  /\ new \in Seq(FqEntry) /\ Len(new) \in Nat
           /\ \E i \in 1..Len(new) : new[i].user = u
           /\ \A i \in 1..Len(new) :
                \/ new[i].user = u /\ new[i].cursor = c
                \/ i \in 1..Len(named) /\ new[i] = named[i] /\ named[i].user # u
           /\ \A i \in 1..Len(named) : i \in 1..Len(new) /\ new[i].user = named[i].user
<1> DEFINE n == Len(named)
           e(i) == IF named[i].user = u THEN [named[i] EXCEPT !.cursor = c] ELSE named[i]
<1>1. n \in Nat
  OBVIOUS
<1>2. CASE \E i \in 1..n : named[i].user = u
  <2>1. new = [i \in 1..n |-> e(i)]
    BY <1>2 DEF UserCursor
  <2>2. ASSUME NEW i \in 1..n
        PROVE  /\ e(i) \in FqEntry /\ e(i).user = named[i].user
               /\ named[i].user = u => e(i).cursor = c
               /\ named[i].user # u => e(i) = named[i]
    <3>1. named[i] \in FqEntry
      BY FqEntryFacts
    <3> QED
      BY <3>1 DEF FqEntry
  <2> HIDE DEF e
  <2>3. new \in Seq(FqEntry) /\ Len(new) = n /\ \A i \in 1..n : new[i] = e(i)
    BY <1>1, <2>1, <2>2
  <2> QED
    BY <1>1, <1>2, <2>2, <2>3
<1>3. CASE ~\E i \in 1..n : named[i].user = u
  <2> DEFINE x == [user |-> u, cursor |-> c]
  <2>1. new = Append(named, x)
    BY <1>3 DEF UserCursor
  <2>2. x \in FqEntry /\ x.user = u /\ x.cursor = c
    BY DEF FqEntry
  <2> HIDE DEF x
  <2>3. /\ new \in Seq(FqEntry) /\ Len(new) = n + 1 /\ new[n + 1] = x
        /\ \A i \in 1..n : new[i] = named[i]
    BY <2>1, <2>2, AppendProperties
  <2>4. \A i \in 1..Len(new) : i \in 1..n \/ i = n + 1
    BY <1>1, <2>3
  <2>5. n + 1 \in 1..Len(new) /\ \A i \in 1..n : i \in 1..Len(new)
    BY <1>1, <2>3
  <2> QED
    BY <1>1, <1>3, <2>2, <2>3, <2>4, <2>5
<1> QED
  BY <1>2, <1>3

FqTypes ==
    /\ fqRoute \in {"client", "admin", "feed"}
    /\ fqStep \in {"query", "lookup", "open", "page", "refused"}
    /\ fqParsed \in FqResults /\ fqQuery \in Seq(FqParams) /\ fqKnown \in Seq(FqUsers)
    /\ fqIds \in Seq(1..Len(fqKnown))

\* Where a request is, and what it has on the way.
FqStepInv ==
    /\ fqRoute = "feed" <=> fqStep = "page" \/ (fqRoute = "feed" /\ fqStep = "query")
    /\ fqStep \in {"lookup", "open"} => fqParsed.error = None
    /\ fqStep = "query" => fqIds = <<>>
    /\ fqSub # None => fqStep = "open"

Mentions(u) == {i \in 1..Len(fqQuery) : fqQuery[i].key = "user" /\ fqQuery[i].word = u}

\* The users found so far are those the query has named so far, each with its last cursor.
FqUsersInv ==
    fqRoute = "client" /\ fqParsed.error = None =>
      /\ \A u : u \notin {None, Failed} =>
           ((\E i \in 1..Len(fqParsed.users) : fqParsed.users[i].user = u) <=> Mentions(u) # {})
      /\ \A i \in 1..Len(fqParsed.users) :
           LET u == fqParsed.users[i].user IN
           /\ u \notin {None, Failed} /\ LastMention(u) \in Mentions(u)
           /\ fqParsed.users[i].cursor = fqQuery[LastMention(u)].num

\* The ids found are those of the first users.
FqIdsInv ==
    /\ Len(fqIds) <= Len(fqParsed.users)
    /\ \A i \in 1..Len(fqIds) : fqKnown[fqIds[i]] = fqParsed.users[i].user

FqSubInv ==
    fqRoute = "client" /\ fqSub # None =>
      /\ Len(fqIds) = Len(fqParsed.users) /\ DOMAIN fqSub.from = {fqIds[i] : i \in 1..Len(fqIds)}
      /\ \A id \in DOMAIN fqSub.from : \E i \in 1..Len(fqIds) : fqIds[i] = id /\ fqSub.from[id] = fqParsed.users[i].cursor

FqClientInv == FqTypes /\ FqStepInv /\ FqUsersInv /\ FqIdsInv /\ FqSubInv

LEMMA FqClientInit == FqInit => FqClientInv
<1> SUFFICES ASSUME FqInit PROVE FqClientInv
  OBVIOUS
<1>1. /\ fqQuery = <<>> /\ fqIds = <<>> /\ fqKnown = <<>> /\ fqParsed = NothingParsed /\ fqSub = None
      /\ fqStep = "query" /\ fqRoute \in {"client", "admin", "feed"}
  BY DEF FqInit
<1>2. fqParsed \in FqResults /\ fqParsed.users = <<>> /\ Len(fqParsed.users) = 0
  <2>1. None \in FqErrors /\ None \in FqNums /\ FALSE \in FqFlags /\ {} \in SUBSET FqWords
    BY Zenon DEF FqErrors, FqNums, FqFlags
  <2>2. <<>> \in Seq(FqEntry)
    OBVIOUS
  <2> QED
    BY <1>1, <2>1, <2>2 DEF NothingParsed, FqResults
<1>3. FqTypes
  BY <1>1, <1>2 DEF FqTypes
<1>4. \A u : Mentions(u) = {}
  BY <1>1 DEF Mentions
<1> QED
  BY <1>1, <1>2, <1>3, <1>4 DEF FqClientInv, FqStepInv, FqUsersInv, FqIdsInv, FqSubInv

\* What is appended to a query is the last mention of its user and of nobody else.
LEMMA AppendedMention ==
    ASSUME FqTypes, NEW p \in FqParams, fqQuery' = Append(fqQuery, p), NEW u
    PROVE  /\ Len(fqQuery') = Len(fqQuery) + 1 /\ Len(fqQuery) \in Nat /\ fqQuery' \in Seq(FqParams)
           /\ \A i \in 1..Len(fqQuery) : fqQuery'[i] = fqQuery[i]
           /\ p.key = "user" /\ p.word = u =>
                /\ LastMention(u)' = Len(fqQuery) + 1 /\ Len(fqQuery) + 1 \in Mentions(u)'
                /\ fqQuery'[Len(fqQuery) + 1] = p
           /\ ~(p.key = "user" /\ p.word = u) => Mentions(u)' = Mentions(u) /\ LastMention(u)' = LastMention(u)
<1> DEFINE n == Len(fqQuery)
<1>1. fqQuery \in Seq(FqParams) /\ n \in Nat
  BY DEF FqTypes
<1>2. /\ fqQuery' \in Seq(FqParams) /\ Len(fqQuery') = n + 1 /\ fqQuery'[n + 1] = p
      /\ \A i \in 1..n : fqQuery'[i] = fqQuery[i]
  BY <1>1, AppendProperties
<1>3. PICK q, r : q = fqQuery /\ r = fqQuery'
  OBVIOUS
<1>4. Mentions(u) = {i \in 1..n : q[i].key = "user" /\ q[i].word = u}
  BY <1>3 DEF Mentions
<1>5. Mentions(u)' = {i \in 1..(n + 1) : r[i].key = "user" /\ r[i].word = u}
  BY <1>2, <1>3 DEF Mentions
<1>6. LastMention(u) = IF Mentions(u) = {} THEN 0 ELSE CHOOSE i \in Mentions(u) : \A j \in Mentions(u) : j <= i
  BY DEF LastMention, Mentions
<1>7. LastMention(u)' = IF Mentions(u)' = {} THEN 0 ELSE CHOOSE i \in Mentions(u)' : \A j \in Mentions(u)' : j <= i
  BY DEF LastMention, Mentions
<1> HIDE DEF n
<1>8. ASSUME p.key = "user", p.word = u
      PROVE  LastMention(u)' = n + 1 /\ n + 1 \in Mentions(u)'
  <2>1. n + 1 \in Mentions(u)'
    BY <1>1, <1>2, <1>3, <1>5, <1>8
  <2>2. \A j \in Mentions(u)' : j <= n + 1 /\ j \in Nat
    BY <1>1, <1>5
  <2>3. PICK M : M = Mentions(u)'
    OBVIOUS
  <2>4. n + 1 \in M /\ \A j \in M : j <= n + 1 /\ j \in Nat
    BY <2>1, <2>2, <2>3
  <2>5. (CHOOSE i \in M : \A j \in M : j <= i) = n + 1
    <3>1. (CHOOSE i \in M : \A j \in M : j <= i) \in M /\ \A k \in M : k <= (CHOOSE i \in M : \A j \in M : j <= i)
      BY <2>4
    <3> QED
      BY <1>1, <2>4, <3>1
  <2> QED
    BY <1>7, <2>1, <2>3, <2>5
<1>9. ASSUME ~(p.key = "user" /\ p.word = u)
      PROVE  Mentions(u)' = Mentions(u) /\ LastMention(u)' = LastMention(u)
  <2>1. Mentions(u)' = Mentions(u)
    <3>1. \A i \in 1..n : q[i] = r[i] /\ i \in 1..(n + 1)
      BY <1>1, <1>2, <1>3
    <3>2. \A i \in 1..(n + 1) : i \in 1..n \/ i = n + 1
      BY <1>1
    <3> QED
      BY <1>2, <1>3, <1>4, <1>5, <1>9, <3>1, <3>2
  <2>2. PICK M : M = Mentions(u)
    OBVIOUS
  <2> QED
    BY <1>6, <1>7, <2>1, <2>2
<1> QED
  BY <1>1, <1>2, <1>8, <1>9 DEF n

\* The parameters of a client's query, one by one.
LEMMA ClientParamFacts ==
    ASSUME NEW r \in FqResults, r.error = None, NEW p \in FqParams
    PROVE  /\ ClientParam(r, p) \in FqResults
           /\ ClientParam(r, p).error = None =>
                \/ /\ p.key = "user" /\ p.word \notin {None, Failed}
                   /\ ClientParam(r, p).users = UserCursor(r.users, p.word, p.num)
                \/ /\ ~(p.key = "user" /\ p.word # None) /\ ClientParam(r, p).users = r.users
<1> DEFINE U == Seq(FqEntry)
           T == [error : FqErrors, users : U, cursor : FqNums, limit : FqNums, live : FqFlags, reverse : FqFlags,
                 paths : SUBSET FqWords]
           new == UserCursor(r.users, p.word, p.num)
<1>1. T = FqResults
  BY DEF FqResults
<1>2. p.word \in FqWords /\ p.num \in FqNums
  BY ParamFacts
<1>3. r.users \in Seq(FqEntry)
  BY DEF FqResults
<1>4. new \in U
  BY <1>2, <1>3, UserCursorFacts
<1> HIDE DEF U, new
<1>5. [r EXCEPT !.users = new] \in T /\ [r EXCEPT !.users = new].users = new
  BY <1>1, <1>4
<1> HIDE DEF T
<1>6. \A e \in {"InvalidPublicKey", "InvalidCursor"} : FqError(r, e) \in FqResults /\ FqError(r, e).error # None
  BY ErrorFacts, RequestsAssumption DEF FqErrors
<1>7. CASE p.key = "user" /\ p.word # None
  <2>1. ClientParam(r, p) = IF p.word = Failed THEN FqError(r, "InvalidPublicKey")
                            ELSE IF p.num = Failed THEN FqError(r, "InvalidCursor")
                            ELSE [r EXCEPT !.users = new]
    BY <1>7 DEF ClientParam, new
  <2> QED
    BY <1>1, <1>5, <1>6, <1>7, <2>1 DEF new
<1>8. CASE ~(p.key = "user" /\ p.word # None)
  <2>1. ClientParam(r, p) = SharedParam(r, p)
    BY <1>8 DEF ClientParam
  <2> QED
    BY <1>8, <2>1, SharedFacts
<1> QED
  BY <1>7, <1>8

LEMMA AdminParamFacts ==
    ASSUME NEW r \in FqResults, NEW p \in FqParams
    PROVE  AdminParam(r, p) \in FqResults
<1> DEFINE U == Seq(FqEntry)
           T == [error : FqErrors, users : U, cursor : FqNums, limit : FqNums, live : FqFlags, reverse : FqFlags,
                 paths : SUBSET FqWords]
           new == UserCursor(r.users, p.word, None)
<1>1. T = FqResults
  BY DEF FqResults
<1>2. p.word \in FqWords /\ p.num \in FqNums /\ None \in FqNums
  BY ParamFacts
<1>3. r.users \in Seq(FqEntry)
  BY DEF FqResults
<1>4. new \in U
  BY <1>2, <1>3, UserCursorFacts
<1> HIDE DEF U, new
<1>5. [r EXCEPT !.users = new] \in T /\ [r EXCEPT !.cursor = p.num] \in T
  BY <1>1, <1>2, <1>4
<1> HIDE DEF T
<1>6. \A e \in {"InvalidPublicKey", "InvalidCursor"} : FqError(r, e) \in FqResults
  BY ErrorFacts DEF FqErrors
<1>7. SharedParam(r, p) \in FqResults
  BY SharedFacts
<1>8. CASE p.key = "user" /\ p.word # None
  BY <1>1, <1>5, <1>6, <1>8 DEF AdminParam, new
<1>9. CASE p.key = "cursor" /\ p.num # None
  BY <1>1, <1>5, <1>6, <1>9 DEF AdminParam
<1>10. CASE ~(p.key = "user" /\ p.word # None) /\ ~(p.key = "cursor" /\ p.num # None)
  BY <1>7, <1>10 DEF AdminParam
<1> QED
  BY <1>8, <1>9, <1>10

LEMMA CheckFacts ==
    ASSUME NEW route, NEW r \in FqResults
    PROVE  /\ CheckStreamQuery(route, r) \in FqResults /\ CheckStreamQuery(route, r).users = r.users
           /\ CheckStreamQuery(route, r).error = None => r.error = None
<1>1. \A e \in {"LiveWithReverse", "UserRequired", "TooManyUsers"} :
         FqError(r, e) \in FqResults /\ FqError(r, e).error # None /\ FqError(r, e).users = r.users
  BY ErrorFacts, RequestsAssumption DEF FqErrors
<1> QED
  BY <1>1 DEF CheckStreamQuery, CheckUserCount

LEMMA ParseParamStep ==
    ASSUME FqClientInv, NEW p \in FqParams, ParseParam(p)
    PROVE  FqClientInv'
<1>1. /\ fqStep = "query" /\ fqRoute # "feed" /\ fqQuery' = Append(fqQuery, p)
      /\ fqParsed' = IF fqRoute = "client" THEN ClientParam(fqParsed, p) ELSE AdminParam(fqParsed, p)
      /\ UNCHANGED <<fqRoute, fqStep, fqIds, fqSub, fqKnown>>
  BY DEF ParseParam
<1>2. FqTypes /\ fqParsed \in FqResults
  BY DEF FqClientInv, FqTypes
<1>3. fqParsed' \in FqResults
  <2>1. CASE fqRoute = "client" /\ fqParsed.error = None
    BY <1>1, <1>2, <2>1, ClientParamFacts
  <2>2. CASE fqRoute = "client" /\ fqParsed.error # None
    BY <1>1, <1>2, <2>2 DEF ClientParam
  <2>3. CASE fqRoute # "client"
    BY <1>1, <1>2, <2>3, AdminParamFacts
  <2> QED
    BY <2>1, <2>2, <2>3
<1>4. fqQuery' \in Seq(FqParams)
  BY <1>1, <1>2, AppendedMention
<1>5. FqTypes'
  BY <1>1, <1>2, <1>3, <1>4 DEF FqTypes
<1>6. fqIds = <<>> /\ fqSub = None
  BY <1>1 DEF FqClientInv, FqStepInv
<1>7. FqStepInv'
  BY <1>1 DEF FqClientInv, FqStepInv
<1>8. FqIdsInv' /\ FqSubInv'
  <2>1. fqParsed'.users \in Seq(FqEntry)
    BY <1>3 DEF FqResults
  <2>2. Len(fqIds') = 0 /\ Len(fqParsed'.users) \in Nat
    BY <1>1, <1>6, <2>1
  <2> QED
    BY <1>1, <1>6, <2>2 DEF FqIdsInv, FqSubInv
<1>80. PICK new : new = fqParsed'.users
  OBVIOUS
<1>9. ASSUME fqRoute' = "client", fqParsed'.error = None
      PROVE  /\ \A u : u \notin {None, Failed} => ((\E i \in 1..Len(new) : new[i].user = u) <=> Mentions(u)' # {})
             /\ \A i \in 1..Len(new) :
                  /\ new[i].user \notin {None, Failed} /\ LastMention(new[i].user)' \in Mentions(new[i].user)'
                  /\ new[i].cursor = fqQuery'[LastMention(new[i].user)'].num
  <2>1. fqRoute = "client" /\ fqParsed' = ClientParam(fqParsed, p)
    BY <1>1, <1>9
  <2>2. fqParsed.error = None
    BY <1>9, <2>1 DEF ClientParam
  <2>3. PICK old : old = fqParsed.users
    OBVIOUS
  <2>4. /\ \A u : u \notin {None, Failed} => ((\E i \in 1..Len(old) : old[i].user = u) <=> Mentions(u) # {})
        /\ \A i \in 1..Len(old) : /\ old[i].user \notin {None, Failed}
                                  /\ LastMention(old[i].user) \in Mentions(old[i].user)
                                  /\ old[i].cursor = fqQuery[LastMention(old[i].user)].num
    BY <2>1, <2>2, <2>3 DEF FqClientInv, FqUsersInv
  <2>5. \A u : Mentions(u) \subseteq 1..Len(fqQuery)
    BY DEF Mentions
  <2>6. /\ \A i \in 1..Len(fqQuery) : fqQuery'[i] = fqQuery[i]
        /\ \A u : p.key = "user" /\ p.word = u =>
             LastMention(u)' = Len(fqQuery) + 1 /\ Len(fqQuery) + 1 \in Mentions(u)' /\ fqQuery'[Len(fqQuery) + 1] = p
        /\ \A u : ~(p.key = "user" /\ p.word = u) => Mentions(u)' = Mentions(u) /\ LastMention(u)' = LastMention(u)
    BY <1>1, <1>2, AppendedMention
  <2>7. old \in Seq(FqEntry)
    BY <1>2, <2>3 DEF FqResults
  <2>8. ASSUME NEW i \in 1..Len(old), ~(p.key = "user" /\ p.word = old[i].user)
        PROVE  /\ LastMention(old[i].user)' \in Mentions(old[i].user)'
               /\ old[i].cursor = fqQuery'[LastMention(old[i].user)'].num
    <3>1. LastMention(old[i].user) \in Mentions(old[i].user) /\ LastMention(old[i].user) \in 1..Len(fqQuery)
      BY <2>4, <2>5
    <3> QED
      BY <2>4, <2>6, <2>8, <3>1
  <2>9. CASE p.key = "user" /\ p.word \notin {None, Failed} /\ new = UserCursor(old, p.word, p.num)
    <3>1. /\ \E i \in 1..Len(new) : new[i].user = p.word
          /\ \A i \in 1..Len(new) :
                \/ new[i].user = p.word /\ new[i].cursor = p.num
                \/ i \in 1..Len(old) /\ new[i] = old[i] /\ old[i].user # p.word
          /\ \A i \in 1..Len(old) : i \in 1..Len(new) /\ new[i].user = old[i].user
      <4>1. p.word \in FqWords /\ p.num \in FqNums
        BY ParamFacts
      <4>2. PICK w \in FqWords, c \in FqNums : w = p.word /\ c = p.num
        BY <4>1
      <4>3. new = UserCursor(old, w, c)
        BY <2>9, <4>2
      <4>4. /\ \E i \in 1..Len(new) : new[i].user = w
            /\ \A i \in 1..Len(new) :
                 \/ new[i].user = w /\ new[i].cursor = c
                 \/ i \in 1..Len(old) /\ new[i] = old[i] /\ old[i].user # w
            /\ \A i \in 1..Len(old) : i \in 1..Len(new) /\ new[i].user = old[i].user
        BY <2>7, <4>3, UserCursorFacts
      <4> QED
        BY <4>2, <4>4
    <3>2. ASSUME NEW u, u \notin {None, Failed}
          PROVE  (\E i \in 1..Len(new) : new[i].user = u) <=> Mentions(u)' # {}
      <4>1. CASE u = p.word
        BY <2>6, <2>9, <3>1, <4>1
      <4>2. CASE u # p.word
        <5>1. Mentions(u)' = Mentions(u)
          BY <2>6, <4>2
        <5>2. (\E i \in 1..Len(new) : new[i].user = u) <=> (\E i \in 1..Len(old) : old[i].user = u)
          BY <3>1, <4>2
        <5> QED
          BY <2>4, <3>2, <5>1, <5>2
      <4> QED
        BY <4>1, <4>2
    <3>3. ASSUME NEW i \in 1..Len(new)
          PROVE  /\ new[i].user \notin {None, Failed} /\ LastMention(new[i].user)' \in Mentions(new[i].user)'
                 /\ new[i].cursor = fqQuery'[LastMention(new[i].user)'].num
      <4>1. CASE new[i].user = p.word /\ new[i].cursor = p.num
        <5>1. PICK w : w = p.word
          OBVIOUS
        <5>2. LastMention(w)' = Len(fqQuery) + 1 /\ Len(fqQuery) + 1 \in Mentions(w)' /\ fqQuery'[Len(fqQuery) + 1] = p
          BY <2>6, <2>9, <5>1
        <5> QED
          BY <2>9, <4>1, <5>1, <5>2
      <4>2. CASE i \in 1..Len(old) /\ new[i] = old[i] /\ old[i].user # p.word
        BY <2>4, <2>8, <4>2
      <4> QED
        BY <3>1, <4>1, <4>2
    <3> QED
      BY <3>2, <3>3
  <2>10. CASE ~(p.key = "user" /\ p.word # None) /\ new = old
    <3>1. \A u : u # None => Mentions(u)' = Mentions(u)
      BY <2>6, <2>10
    <3>2. \A i \in 1..Len(old) : ~(p.key = "user" /\ p.word = old[i].user)
      BY <2>4, <2>10
    <3> QED
      BY <2>4, <2>8, <2>10, <3>1, <3>2
  <2> QED
    BY <1>2, <1>9, <1>80, <2>1, <2>2, <2>3, <2>9, <2>10, ClientParamFacts
<1>10. FqUsersInv'
  BY <1>9, <1>80 DEF FqUsersInv
<1> QED
  BY <1>5, <1>7, <1>8, <1>10 DEF FqClientInv

LEMMA UsersKept ==
    ASSUME FqUsersInv, fqRoute' = fqRoute, fqQuery' = fqQuery,
           fqParsed'.error = None => fqParsed.error = None, fqParsed'.users = fqParsed.users
    PROVE  FqUsersInv'
<1>1. \A u : Mentions(u)' = Mentions(u) /\ LastMention(u)' = LastMention(u)
  BY DEF Mentions, LastMention
<1> QED
  BY <1>1 DEF FqUsersInv

LEMMA AskStreamStep ==
    ASSUME FqClientInv, AskStream
    PROVE  FqClientInv'
<1>1. /\ fqStep = "query" /\ fqRoute # "feed" /\ fqParsed' = CheckStreamQuery(fqRoute, fqParsed)
      /\ fqStep' = IF fqParsed'.error # None THEN "refused" ELSE "lookup"
      /\ UNCHANGED <<fqRoute, fqQuery, fqIds, fqSub, fqKnown>>
  BY DEF AskStream
<1>2. FqTypes /\ fqParsed \in FqResults
  BY DEF FqClientInv, FqTypes
<1>3. /\ fqParsed' \in FqResults /\ fqParsed'.users = fqParsed.users
      /\ fqParsed'.error = None => fqParsed.error = None
  BY <1>1, <1>2, CheckFacts
<1>4. FqTypes'
  BY <1>1, <1>2, <1>3 DEF FqTypes
<1>5. FqStepInv'
  BY <1>1, <1>2 DEF FqClientInv, FqStepInv, FqTypes
<1>6. FqUsersInv'
  BY <1>1, <1>3, UsersKept DEF FqClientInv
<1>7. FqIdsInv' /\ fqSub' = None
  BY <1>1, <1>3 DEF FqClientInv, FqIdsInv, FqStepInv
<1> QED
  BY <1>4, <1>5, <1>6, <1>7 DEF FqClientInv, FqSubInv

LEMMA LookupUserStep ==
    ASSUME FqClientInv, LookupUser
    PROVE  FqClientInv'
<1> DEFINE u == fqParsed.users[Len(fqIds) + 1].user
           n == Len(fqIds)
           K == 1..Len(fqKnown)
<1>1. /\ fqStep = "lookup" /\ n < Len(fqParsed.users)
      /\ UNCHANGED <<fqRoute, fqQuery, fqSub, fqKnown>>
  BY DEF LookupUser
<1>2. \/ Contains(fqKnown, u) /\ fqIds' = Append(fqIds, IdOf(u)) /\ UNCHANGED <<fqStep, fqParsed>>
      \/ fqStep' = "refused" /\ fqParsed' = FqError(fqParsed, "UserNotFound") /\ UNCHANGED fqIds
  BY DEF LookupUser
<1>3. FqTypes /\ fqParsed \in FqResults /\ fqIds \in Seq(K) /\ fqKnown \in Seq(FqUsers)
  BY DEF FqClientInv, FqTypes
<1>4. fqSub = None /\ fqParsed.error = None /\ fqRoute # "feed"
  BY <1>1 DEF FqClientInv, FqStepInv
<1>5. /\ Len(fqIds) <= Len(fqParsed.users)
      /\ \A i \in 1..Len(fqIds) : fqKnown[fqIds[i]] = fqParsed.users[i].user
  BY DEF FqClientInv, FqIdsInv
<1>6. n \in Nat /\ Len(fqParsed.users) \in Nat
  <2>1. fqParsed.users \in Seq(FqEntry)
    BY <1>3 DEF FqResults
  <2> QED
    BY <1>3, <2>1
<1>7. CASE Contains(fqKnown, u) /\ fqIds' = Append(fqIds, IdOf(u)) /\ UNCHANGED <<fqStep, fqParsed>>
  <2>1. IdOf(u) \in K /\ fqKnown[IdOf(u)] = u
    BY <1>3, <1>7 DEF Contains, IdOf
  <2> HIDE DEF K, u
  <2>2. fqIds' \in Seq(K) /\ Len(fqIds') = n + 1 /\ fqIds'[n + 1] = IdOf(u) /\ \A i \in 1..n : fqIds'[i] = fqIds[i]
    BY <1>3, <1>7, <2>1, AppendProperties
  <2>3. FqTypes'
    BY <1>1, <1>3, <1>7, <2>2 DEF FqTypes, K
  <2>4. \A i \in 1..(n + 1) : i \in 1..n \/ i = n + 1
    BY <1>6
  <2>5. Len(fqIds') <= Len(fqParsed.users)
    BY <1>1, <1>6, <2>2
  <2>6. \A i \in 1..Len(fqIds') : fqKnown[fqIds'[i]] = fqParsed.users[i].user
    BY <1>5, <2>1, <2>2, <2>4 DEF u
  <2>7. FqIdsInv'
    BY <1>1, <1>7, <2>5, <2>6 DEF FqIdsInv
  <2>8. FqUsersInv'
    BY <1>1, <1>7, UsersKept DEF FqClientInv
  <2>9. FqStepInv'
    BY <1>1, <1>4, <1>7 DEF FqStepInv
  <2> QED
    BY <1>1, <1>4, <2>3, <2>7, <2>8, <2>9 DEF FqClientInv, FqSubInv
<1>8. CASE fqStep' = "refused" /\ fqParsed' = FqError(fqParsed, "UserNotFound") /\ UNCHANGED fqIds
  <2>1. fqParsed' \in FqResults /\ fqParsed'.users = fqParsed.users /\ fqParsed'.error # None
    BY <1>3, <1>8, ErrorFacts, RequestsAssumption DEF FqErrors
  <2>2. FqTypes'
    BY <1>1, <1>3, <1>8, <2>1 DEF FqTypes
  <2>3. FqIdsInv'
    BY <1>1, <1>5, <1>8, <2>1 DEF FqIdsInv
  <2>4. FqStepInv'
    BY <1>1, <1>4, <1>8 DEF FqStepInv
  <2> QED
    BY <1>1, <1>4, <2>1, <2>2, <2>3, <2>4 DEF FqClientInv, FqSubInv, FqUsersInv
<1> QED
  BY <1>2, <1>7, <1>8

LEMMA OpenStreamStep ==
    ASSUME FqClientInv, OpenUserStream \/ OpenAllStream
    PROVE  FqClientInv'
<1>1. /\ fqStep = "lookup" /\ Len(fqIds) = Len(fqParsed.users) /\ fqStep' = "open"
      /\ UNCHANGED <<fqRoute, fqQuery, fqParsed, fqIds, fqKnown>>
  BY DEF OpenUserStream, OpenAllStream, AllFound
<1>2. FqTypes'
  BY <1>1 DEF FqClientInv, FqTypes
<1>3. FqStepInv'
  BY <1>1 DEF FqClientInv, FqStepInv
<1>4. FqUsersInv'
  BY <1>1, UsersKept DEF FqClientInv
<1>5. FqIdsInv'
  BY <1>1 DEF FqClientInv, FqIdsInv
<1>6. FqSubInv'
  <2> SUFFICES ASSUME fqRoute' = "client" PROVE FqSubInv'
    BY DEF FqSubInv
  <2> DEFINE f == [id \in Range(fqIds) |-> fqParsed.users[CHOOSE i \in 1..Len(fqIds) : fqIds[i] = id].cursor]
  <2>0. OpenUserStream
    BY <1>1 DEF OpenAllStream
  <2>1. fqSub'.from = f
    BY <2>0 DEF OpenUserStream, Subscription
  <2>2. fqIds \in Seq(1..Len(fqKnown))
    BY DEF FqClientInv, FqTypes
  <2>3. DOMAIN fqIds = 1..Len(fqIds)
    BY <2>2
  <2>4. Range(fqIds) = {fqIds[i] : i \in 1..Len(fqIds)}
    BY <2>3 DEF Range
  <2>5. DOMAIN f = {fqIds[i] : i \in 1..Len(fqIds)}
    BY <2>1, <2>4
  <2>6. ASSUME NEW id \in DOMAIN f
        PROVE  \E i \in 1..Len(fqIds) : fqIds[i] = id /\ f[id] = fqParsed.users[i].cursor
    <3> DEFINE k == CHOOSE i \in 1..Len(fqIds) : fqIds[i] = id
    <3>1. k \in 1..Len(fqIds) /\ fqIds[k] = id
      BY <2>5, <2>6
    <3>2. f[id] = fqParsed.users[k].cursor
      BY <2>1, <2>6
    <3> QED
      BY <3>1, <3>2
  <2> HIDE DEF f
  <2>7. PICK ids, named : ids = fqIds /\ named = fqParsed.users
    OBVIOUS
  <2>8. /\ Len(ids) = Len(named) /\ DOMAIN fqSub'.from = {ids[i] : i \in 1..Len(ids)}
        /\ \A id \in DOMAIN fqSub'.from : \E i \in 1..Len(ids) : ids[i] = id /\ fqSub'.from[id] = named[i].cursor
    BY <1>1, <2>1, <2>5, <2>6, <2>7
  <2>9. fqIds' = ids /\ fqParsed'.users = named
    BY <1>1, <2>7
  <2> QED
    BY <2>8, <2>9 DEF FqSubInv
<1> QED
  BY <1>2, <1>3, <1>4, <1>5, <1>6 DEF FqClientInv

\* Who signs up gets a new id; the ids found stay those of their users.
LEMMA SignUpUserStep ==
    ASSUME FqClientInv, NEW w \in FqUsers, SignUpUser(w)
    PROVE  FqClientInv'
<1> DEFINE m == Len(fqKnown)
<1>1. fqKnown' = Append(fqKnown, w) /\ UNCHANGED <<fqRoute, fqStep, fqQuery, fqParsed, fqIds, fqSub>>
  BY DEF SignUpUser, FqClient
<1>2. FqTypes /\ fqKnown \in Seq(FqUsers) /\ fqIds \in Seq(1..m) /\ m \in Nat
  BY DEF FqClientInv, FqTypes
<1>3. fqKnown' \in Seq(FqUsers) /\ Len(fqKnown') = m + 1 /\ \A i \in 1..m : fqKnown'[i] = fqKnown[i]
  BY <1>1, <1>2, AppendProperties
<1> HIDE DEF m
<1>4. \A i \in 1..Len(fqIds) : fqIds[i] \in 1..m
  BY <1>2, ElementOfSeq
<1>5. fqIds \in Seq(1..(m + 1))
  <2>1. 1..m \subseteq 1..(m + 1)
    BY <1>2
  <2> QED
    BY <1>2, <2>1
<1>6. FqTypes'
  BY <1>1, <1>2, <1>3, <1>5 DEF FqTypes
<1>7. FqStepInv' /\ FqSubInv'
  BY <1>1 DEF FqClientInv, FqStepInv, FqSubInv
<1>8. FqUsersInv'
  BY <1>1, UsersKept DEF FqClientInv
<1>9. FqIdsInv'
  BY <1>1, <1>3, <1>4 DEF FqClientInv, FqIdsInv
<1> QED
  BY <1>6, <1>7, <1>8, <1>9 DEF FqClientInv

\* A reader of the old feed, and who writes to it, has nothing to do with the streams.
LEMMA OtherFqSteps ==
    ASSUME FqClientInv, UNCHANGED <<fqRoute, fqQuery, fqParsed, fqIds, fqSub, fqKnown>>,
           fqStep' = fqStep \/ (fqRoute = "feed" /\ fqStep' = "page")
    PROVE  FqClientInv'
<1>1. FqTypes'
  BY DEF FqClientInv, FqTypes
<1>2. FqStepInv'
  BY DEF FqClientInv, FqStepInv
<1>3. FqIdsInv' /\ FqSubInv'
  BY DEF FqClientInv, FqIdsInv, FqSubInv
<1>4. FqUsersInv'
  BY UsersKept DEF FqClientInv
<1> QED
  BY <1>1, <1>2, <1>3, <1>4 DEF FqClientInv

LEMMA FqClientNext == FqClientInv /\ [FqNext]_fqVars => FqClientInv'
<1> SUFFICES ASSUME FqClientInv, [FqNext]_fqVars PROVE FqClientInv'
  OBVIOUS
<1>1. ASSUME NEW limit, ReadFeed(limit) PROVE FqClientInv'
  BY <1>1, OtherFqSteps DEF ReadFeed
<1>2. ASSUME NEW public, CommitOne(public) PROVE FqClientInv'
  BY <1>2, OtherFqSteps DEF CommitOne, FqClient
<1>3. CASE UNCHANGED fqVars
  BY <1>3, OtherFqSteps DEF fqVars
<1> QED
  BY <1>1, <1>2, <1>3, ParseParamStep, AskStreamStep, LookupUserStep, OpenStreamStep, SignUpUserStep, Zenon DEF FqNext

\* The streams opened are those the invariant describes.
LEMMA AskedFromInv == FqClientInv => SubscribedAsAsked
<1> SUFFICES ASSUME FqClientInv, fqRoute = "client", fqSub # None
             PROVE  /\ \A u \in FqUsers : LastMention(u) # 0 <=> \E id \in DOMAIN fqSub.from : fqKnown[id] = u
                    /\ \A id \in DOMAIN fqSub.from : fqSub.from[id] = fqQuery[LastMention(fqKnown[id])].num
  BY DEF SubscribedAsAsked
<1>1. fqParsed.error = None
  BY DEF FqClientInv, FqStepInv
<1>2. /\ \A u : u \notin {None, Failed} =>
           ((\E i \in 1..Len(fqParsed.users) : fqParsed.users[i].user = u) <=> Mentions(u) # {})
      /\ \A i \in 1..Len(fqParsed.users) :
           /\ LastMention(fqParsed.users[i].user) \in Mentions(fqParsed.users[i].user)
           /\ fqParsed.users[i].cursor = fqQuery[LastMention(fqParsed.users[i].user)].num
  BY <1>1 DEF FqClientInv, FqUsersInv
<1>3. /\ Len(fqIds) = Len(fqParsed.users) /\ DOMAIN fqSub.from = {fqIds[i] : i \in 1..Len(fqIds)}
      /\ \A id \in DOMAIN fqSub.from :
           \E i \in 1..Len(fqIds) : fqIds[i] = id /\ fqSub.from[id] = fqParsed.users[i].cursor
  BY DEF FqClientInv, FqSubInv
<1>4. \A i \in 1..Len(fqIds) : fqKnown[fqIds[i]] = fqParsed.users[i].user
  BY DEF FqClientInv, FqIdsInv
<1>5. \A u : Mentions(u) \subseteq 1..Len(fqQuery) /\ 0 \notin Mentions(u)
  BY DEF Mentions
<1>6. \A u : Mentions(u) = {} => LastMention(u) = 0
  BY DEF Mentions, LastMention
<1>7. ASSUME NEW id \in DOMAIN fqSub.from
      PROVE  fqSub.from[id] = fqQuery[LastMention(fqKnown[id])].num
  BY <1>2, <1>3, <1>4
<1>8. ASSUME NEW u \in FqUsers
      PROVE  LastMention(u) # 0 <=> \E id \in DOMAIN fqSub.from : fqKnown[id] = u
  <2>1. u \notin {None, Failed}
    BY RequestsAssumption
  <2>2. (\E i \in 1..Len(fqParsed.users) : fqParsed.users[i].user = u) <=> \E id \in DOMAIN fqSub.from : fqKnown[id] = u
    BY <1>3, <1>4
  <2>3. (\E i \in 1..Len(fqParsed.users) : fqParsed.users[i].user = u) => LastMention(u) # 0
    BY <1>2, <1>5
  <2> QED
    BY <1>2, <1>6, <2>1, <2>2, <2>3
<1> QED
  BY <1>7, <1>8

FqFeedInv ==
    /\ fqLog \in Seq(BOOLEAN) /\ fqCursor \in 0..Len(fqLog) /\ fqGot \in Seq(1..fqCursor)
    /\ FeedPagesJoin

Increasing(s) == \A i, j \in 1..Len(s) : i < j => s[i] < s[j]

\* s lists the members of S.
Lists(s, S) == {s[i] : i \in 1..Len(s)} = S

\* s lists the members of S up to its last.
UpToLast(s, S) ==
    Len(s) # 0 => s[Len(s)] \in S /\ \A x \in S : x <= s[Len(s)] <=> \E i \in 1..Len(s) : s[i] = x

\* Public events of a log, after c and up to n.
Public(log, n, c) == {i \in 1..n : i > c /\ log[i]}

\* Ids put in order.
LEMMA OrderedIds ==
    ASSUME NEW L \in Nat, NEW S \in SUBSET (1..L)
    PROVE  LET order == CHOOSE s \in [1..Cardinality(S) -> S] : \A i, j \in DOMAIN s : i < j => s[i] < s[j]
           IN order \in Seq(S) /\ Increasing(order) /\ Lists(order, S)
<1> DEFINE R == {e \in (1..L) \X (1..L) : e[1] < e[2]}
           n == Cardinality(S)
           Sorted(s) == \A i, j \in DOMAIN s : i < j => s[i] < s[j]
           order == CHOOSE s \in [1..n -> S] : Sorted(s)
<1>1. IsFiniteSet(S) /\ n \in Nat
  <2>1. IsFiniteSet(1..L)
    BY FS_Interval
  <2> QED
    BY <2>1, FS_Subset, FS_CardinalityType
<1>2. \A x, y \in S : <<x, y>> \in R <=> x < y
  OBVIOUS
<1>3. \A x \in S : x \in Nat
  OBVIOUS
<1> HIDE DEF R
<1>4. Orders(R, S)
  BY <1>2, <1>3 DEF Orders
<1>5. PICK s0 : Sorts(R, S, s0)
  BY <1>1, <1>4, CanBeSorted
<1>6. \A s \in [1..n -> S] : Sorted(s) <=> Sorts(R, S, s)
  BY <1>2 DEF Sorts
<1>7. s0 \in [1..n -> S] /\ Sorted(s0)
  BY <1>5, <1>6 DEF Sorts
<1>8. order \in [1..n -> S] /\ Sorts(R, S, order)
  <2> HIDE DEF Sorted
  <2>1. order \in [1..n -> S] /\ Sorted(order)
    BY <1>7
  <2> QED
    BY <1>6, <2>1
<1> HIDE DEF order
<1>9. /\ order \in Seq(S) /\ Len(order) = n
      /\ \A x \in S : \E i \in 1..Len(order) : order[i] = x
  BY <1>1, <1>4, <1>8, SortedIsWhole
<1>10. Increasing(order)
  <2>1. \A i, j \in 1..n : i < j => <<order[i], order[j]>> \in R /\ order[i] \in S /\ order[j] \in S
    BY <1>8 DEF Sorts
  <2> QED
    BY <1>2, <1>9, <2>1 DEF Increasing
<1>11. Lists(order, S)
  <2>1. \A i \in 1..Len(order) : order[i] \in S
    BY <1>9, ElementOfSeq
  <2> QED
    BY <1>9, <2>1 DEF Lists
<1> QED
  BY <1>9, <1>10, <1>11 DEF order

\* A page of the first members of a set of ids, in order: it holds those up to its last.
LEMMA FirstIds ==
    ASSUME NEW S \in SUBSET Nat, NEW order \in Seq(S), Increasing(order),
           Lists(order, S),
           NEW m \in 0..Len(order), NEW page, page = SubSeq(order, 1, m)
    PROVE  page \in Seq(S) /\ Len(page) = m /\ Increasing(page) /\ UpToLast(page, S)
<1> DEFINE n == Len(order)
<1>1. n \in Nat /\ m \in Nat /\ m <= n
  OBVIOUS
<1>2. \A i, j \in 1..n : i < j => order[i] < order[j]
  BY DEF Increasing
<1>3. \A i \in 1..n : order[i] \in S /\ order[i] \in Nat
  BY ElementOfSeq
<1>4. page \in Seq(S) /\ Len(page) = m /\ \A i \in 1..m : page[i] = order[i]
  BY <1>1
<1> HIDE DEF n
<1>5. \A i \in 1..m : i \in 1..n
  BY <1>1
<1>6. Increasing(page)
  BY <1>2, <1>4, <1>5 DEF Increasing
<1>7. ASSUME m # 0, NEW x \in S
      PROVE  page[m] \in S /\ (x <= page[m] <=> \E i \in 1..m : page[i] = x)
  <2>1. m \in 1..m
    BY <1>1, <1>7
  <2>2. page[m] = order[m] /\ order[m] \in S /\ order[m] \in Nat
    BY <1>3, <1>4, <1>5, <2>1
  <2>3. PICK j \in 1..n : order[j] = x
    BY DEF n, Lists
  <2>4. j < m => order[j] < order[m]
    BY <1>2, <1>5, <2>1
  <2>5. m < j => order[m] < order[j]
    BY <1>2, <1>5, <2>1
  <2>6. x \in Nat /\ j \in Nat /\ 1 <= j
    BY <1>1
  <2>7. x <= page[m] <=> j <= m
    <3> DEFINE v == order[m]
    <3>1. (j < m => x < v) /\ (m < j => v < x) /\ (j = m => x = v) /\ v \in Nat
      BY <2>2, <2>3, <2>4, <2>5
    <3> HIDE DEF v
    <3>2. x <= v <=> j <= m
      BY <1>1, <2>6, <3>1
    <3> QED
      BY <2>2, <3>2 DEF v
  <2>8. j <= m => j \in 1..m /\ page[j] = x
    BY <1>1, <1>4, <2>3, <2>6
  <2>9. ASSUME NEW i \in 1..m, page[i] = x PROVE j <= m
    <3>1. i \in 1..n /\ order[i] = order[j] /\ order[j] \in Nat /\ i <= m /\ i \in Nat
      BY <1>1, <1>3, <1>4, <1>5, <2>3, <2>9
    <3>2. ~(i < j)
      BY <1>2, <3>1
    <3> QED
      BY <1>1, <2>6, <3>1, <3>2
  <2> QED
    BY <2>2, <2>7, <2>8, <2>9
<1>8. m # 0 => page[m] \in S
  BY <1>1, <1>3, <1>4, <1>5
<1> QED
  BY <1>4, <1>6, <1>7, <1>8 DEF UpToLast

\* Pages that go on where the last one ended join.
LEMMA PagesJoin ==
    ASSUME NEW c \in Nat, NEW m \in Nat, c <= m, NEW log,
           NEW got \in Seq(1..c), Increasing(got), Lists(got, Public(log, c, 0)),
           NEW page \in Seq(1..m), Increasing(page), Lists(page, Public(log, m, c))
    PROVE  got \o page \in Seq(1..m) /\ Increasing(got \o page) /\ Lists(got \o page, Public(log, m, 0))
<1> DEFINE a == Len(got)
           b == Len(page)
           all == got \o page
           T == 1..m
<1>1. 1..c \subseteq T
  OBVIOUS
<1>2. got \in Seq(T) /\ page \in Seq(T) /\ a \in Nat /\ b \in Nat
  BY <1>1
<1>3. /\ \A i \in 1..a : got[i] \in 1..c
      /\ \A i \in 1..b : page[i] \in T
  BY ElementOfSeq
<1> HIDE DEF T
<1>4. /\ all \in Seq(T) /\ Len(all) = a + b
      /\ \A i \in 1..a : all[i] = got[i]
      /\ \A i \in 1..b : all[a + i] = page[i]
  <2>1. /\ all \in Seq(T) /\ Len(all) = a + b
        /\ \A i \in 1..(a + b) : all[i] = IF i <= a THEN got[i] ELSE page[i - a]
    BY <1>2, ConcatProperties
  <2> HIDE DEF all, a, b
  <2>2. \A i \in 1..a : i \in 1..(a + b) /\ i <= a
    BY <1>2
  <2>3. \A i \in 1..b : a + i \in 1..(a + b) /\ ~(a + i <= a) /\ (a + i) - a = i
    BY <1>2
  <2> QED
    BY <2>1, <2>2, <2>3
<1>5. /\ \A i, j \in 1..a : i < j => got[i] < got[j]
      /\ \A i, j \in 1..b : i < j => page[i] < page[j]
  BY DEF Increasing
<1>6. \A i \in 1..b : page[i] > c /\ log[page[i]] /\ page[i] \in Nat
  <2>1. \A i \in 1..b : page[i] \in Public(log, m, c)
    BY DEF Lists
  <2> QED
    BY <1>3, <2>1 DEF T, Public
<1> HIDE DEF a, b, all
<1>7. \A i \in 1..(a + b) : i \in 1..a \/ \E j \in 1..b : i = a + j
  <2> SUFFICES ASSUME NEW i \in 1..(a + b), i \notin 1..a PROVE \E j \in 1..b : i = a + j
    OBVIOUS
  <2>1. i - a \in 1..b /\ i = a + (i - a)
    BY <1>2
  <2> QED
    BY <2>1
<1>8. ASSUME NEW i \in 1..(a + b), NEW j \in 1..(a + b), i < j
      PROVE  all[i] < all[j]
  <2>1. CASE i \in 1..a /\ j \in 1..a
    BY <1>4, <1>5, <1>8, <2>1
  <2>2. CASE i \in 1..a /\ j \notin 1..a
    <3>1. PICK k \in 1..b : j = a + k
      BY <1>7, <2>2
    <3>2. all[i] = got[i] /\ all[j] = page[k] /\ got[i] \in 1..c /\ page[k] > c /\ page[k] \in Nat
      BY <1>3, <1>4, <1>6, <2>2, <3>1
    <3> QED
      BY <3>2
  <2>3. CASE i \notin 1..a
    <3>1. PICK l \in 1..b : i = a + l
      BY <1>7, <2>3
    <3>2. j \notin 1..a
      BY <1>2, <1>8, <2>3
    <3>3. PICK k \in 1..b : j = a + k
      BY <1>7, <3>2
    <3>4. l < k
      BY <1>2, <1>8, <3>1, <3>3
    <3> QED
      BY <1>4, <1>5, <3>1, <3>3, <3>4
  <2> QED
    BY <2>1, <2>2, <2>3
<1>9. Increasing(all)
  BY <1>4, <1>8 DEF Increasing
<1>10. ASSUME NEW i \in 1..(a + b) PROVE all[i] \in T /\ log[all[i]]
  <2>1. CASE i \in 1..a
    <3>1. got[i] \in Public(log, c, 0)
      BY <2>1 DEF a, Lists
    <3> QED
      BY <1>1, <1>4, <2>1, <3>1 DEF Public
  <2>2. CASE i \notin 1..a
    <3>1. PICK j \in 1..b : i = a + j
      BY <1>7, <2>2
    <3> QED
      BY <1>3, <1>4, <1>6, <3>1
  <2> QED
    BY <2>1, <2>2
<1>11. ASSUME NEW x \in T, log[x] PROVE \E i \in 1..(a + b) : all[i] = x
  <2>1. x \in 1..m
    BY DEF T
  <2>2. CASE x <= c
    <3>1. x \in Public(log, c, 0)
      BY <1>11, <2>1, <2>2 DEF Public
    <3>2. x \in {got[i] : i \in 1..Len(got)}
      BY <3>1 DEF Lists
    <3>20. PICK i \in 1..a : got[i] = x
      BY <3>2 DEF a
    <3>3. i \in 1..(a + b)
      BY <1>2
    <3> QED
      BY <1>4, <3>20, <3>3
  <2>3. CASE x > c
    <3>10. x \in Public(log, m, c)
      BY <1>11, <2>1, <2>3 DEF Public
    <3>1. PICK i \in 1..b : page[i] = x
      BY <3>10 DEF b, Lists
    <3>2. a + i \in 1..(a + b)
      BY <1>2
    <3> QED
      BY <1>4, <3>1, <3>2
  <2> QED
    BY <2>1, <2>2, <2>3
<1>12. {all[i] : i \in 1..(a + b)} = Public(log, m, 0)
  <2>1. \A x : x \in Public(log, m, 0) <=> x \in T /\ log[x]
    BY DEF Public, T
  <2>2. \A x \in {all[i] : i \in 1..(a + b)} : x \in T /\ log[x]
    BY <1>10, Zenon
  <2>3. \A x \in T : log[x] => x \in {all[i] : i \in 1..(a + b)}
    BY <1>11, Zenon
  <2> QED
    BY <2>1, <2>2, <2>3, Zenon
<1> QED
  BY <1>4, <1>9, <1>12 DEF all, T, Lists

LEMMA ReadFeedStep ==
    ASSUME FqFeedInv, NEW limit \in FqLimits, ReadFeed(limit)
    PROVE  FqFeedInv'
<1>1. PICK L, log, c, got, page :
        /\ L = Len(fqLog) /\ log = fqLog /\ c = fqCursor /\ got = fqGot /\ page = PublicPage(fqCursor, limit)
  OBVIOUS
<1>2. /\ log \in Seq(BOOLEAN) /\ L \in Nat /\ L = Len(log) /\ c \in 0..L /\ c \in Nat /\ got \in Seq(1..c)
      /\ Range(got) = {i \in 1..c : log[i]} /\ \A i, j \in DOMAIN got : i < j => got[i] < got[j]
  BY <1>1 DEF FqFeedInv, FeedPagesJoin
<1>3. DOMAIN got = 1..Len(got)
  BY <1>2
<1>4. Increasing(got) /\ Lists(got, Public(log, c, 0))
  <2>1. Public(log, c, 0) = {i \in 1..c : log[i]}
    BY <1>2 DEF Public
  <2>2. Range(got) = {got[i] : i \in 1..Len(got)}
    BY <1>3 DEF Range
  <2>3. Increasing(got)
    BY <1>2, <1>3 DEF Increasing
  <2> QED
    BY <1>2, <2>1, <2>2, <2>3 DEF Lists
<1>5. /\ fqGot' = got \o page /\ fqLog' = log
      /\ fqCursor' = IF page = <<>> THEN c ELSE page[Len(page)]
  BY <1>1 DEF ReadFeed
<1> DEFINE S == Public(log, L, c)
           order == CHOOSE s \in [1..Cardinality(S) -> S] : \A i, j \in DOMAIN s : i < j => s[i] < s[j]
           k == PageSize(limit)
           m == IF Len(order) > k THEN k ELSE Len(order)
<1>6. page = SubSeq(order, 1, m)
  BY <1>1 DEF PublicPage, Public
<1>7. k \in Nat
  BY RequestsAssumption DEF PageSize
<1>8. S \in SUBSET (1..L) /\ S \in SUBSET Nat
  BY DEF Public
<1>9. \A x : x \in S <=> x \in 1..L /\ x > c /\ log[x]
  BY DEF Public
<1> HIDE DEF S, k
<1>10. order \in Seq(S) /\ Increasing(order) /\ Lists(order, S)
  BY <1>2, <1>8, OrderedIds
<1> HIDE DEF order
<1>11. m \in 0..Len(order) /\ m \in Nat
  BY <1>7, <1>10
<1> HIDE DEF m
<1>12. page \in Seq(S) /\ Len(page) = m /\ Increasing(page) /\ UpToLast(page, S)
  BY <1>6, <1>8, <1>10, <1>11, FirstIds, Zenon
<1>13. PICK d : d = IF page = <<>> THEN c ELSE page[Len(page)]
  OBVIOUS
<1>14. d \in Nat /\ c <= d /\ d <= L /\ page \in Seq(1..d) /\ Lists(page, Public(log, d, c))
  <2>1. CASE m = 0
    <3>1. page = <<>>
      BY <1>12, <2>1
    <3>2. d = c
      BY <1>13, <3>1
    <3>3. Public(log, d, c) = {}
      BY <1>2, <3>2 DEF Public
    <3> QED
      BY <1>2, <3>1, <3>2, <3>3 DEF Lists
  <2>2. CASE m # 0
    <3>1. page # <<>>
      BY <1>12, <2>2
    <3>2. d = page[m] /\ d \in S
      BY <1>12, <1>13, <2>2, <3>1 DEF UpToLast
    <3>3. d \in 1..L /\ d > c
      BY <1>9, <3>2
    <3>4. \A x \in S : x <= d <=> \E i \in 1..m : page[i] = x
      BY <1>12, <2>2, <3>2 DEF UpToLast
    <3>5. \A i \in 1..m : page[i] \in S
      BY <1>12, ElementOfSeq
    <3>6. \A x : x \in Public(log, d, c) <=> x \in S /\ x <= d
      <4>1. \A x : x \in 1..d <=> x \in 1..L /\ x <= d
        BY <1>2, <3>3
      <4> QED
        BY <1>9, <4>1 DEF Public
    <3>7. \A x : x \in {page[i] : i \in 1..m} <=> x \in Public(log, d, c)
      BY <3>4, <3>5, <3>6
    <3>8. Lists(page, Public(log, d, c))
      BY <1>12, <3>7 DEF Lists
    <3>9. \A i \in 1..m : page[i] \in 1..d
      BY <3>4, <3>5, <3>6 DEF Public
    <3>10. page \in Seq(1..d)
      <4>1. page = [i \in 1..m |-> page[i]]
        BY <1>12
      <4>2. [i \in 1..m |-> page[i]] \in Seq(1..d)
        BY <1>11, <3>9
      <4> QED
        BY <4>1, <4>2
    <3> QED
      BY <1>2, <3>3, <3>8, <3>10
  <2> QED
    BY <2>1, <2>2
<1>16. got \o page \in Seq(1..d) /\ Increasing(got \o page) /\ Lists(got \o page, Public(log, d, 0))
  BY <1>2, <1>4, <1>12, <1>14, PagesJoin, Zenon
<1>17. PICK all : all = got \o page
  OBVIOUS
<1>18. /\ all \in Seq(1..d) /\ \A i, j \in DOMAIN all : i < j => all[i] < all[j]
       /\ Range(all) = {i \in 1..d : log[i]}
  <2>1. all \in Seq(1..d) /\ Increasing(all) /\ {all[i] : i \in 1..Len(all)} = {i \in 1..d : log[i]}
    BY <1>16, <1>17 DEF Lists, Public
  <2>2. DOMAIN all = 1..Len(all)
    BY <2>1
  <2> QED
    BY <2>1, <2>2 DEF Increasing, Range
<1>19. fqGot' = all /\ fqCursor' = d /\ fqLog' = log
  BY <1>5, <1>13, <1>17
<1>20. FeedPagesJoin'
  BY <1>18, <1>19 DEF FeedPagesJoin
<1>21. d \in 0..L
  BY <1>2, <1>14
<1> QED
  BY <1>2, <1>18, <1>19, <1>20, <1>21 DEF FqFeedInv

LEMMA CommitOneStep ==
    ASSUME FqFeedInv, NEW public \in BOOLEAN, CommitOne(public)
    PROVE  FqFeedInv'
<1>1. PICK L, log, c, got, new : /\ L = Len(fqLog) /\ log = fqLog /\ c = fqCursor /\ got = fqGot
                                /\ new = Append(fqLog, public)
  OBVIOUS
<1>2. log \in Seq(BOOLEAN) /\ L \in Nat /\ L = Len(log) /\ c \in 0..L /\ got \in Seq(1..c)
  BY <1>1 DEF FqFeedInv
<1>3. Range(got) = {i \in 1..c : log[i]} /\ \A i, j \in DOMAIN got : i < j => got[i] < got[j]
  BY <1>1 DEF FqFeedInv, FeedPagesJoin
<1>4. fqGot' = got /\ fqCursor' = c /\ fqLog' = new
  BY <1>1 DEF CommitOne, FqClient
<1>5. new \in Seq(BOOLEAN) /\ Len(new) = L + 1 /\ \A i \in 1..L : new[i] = log[i]
  BY <1>1, <1>2, AppendProperties
<1>6. c \in 0..(L + 1) /\ \A i \in 1..c : i \in 1..L
  BY <1>2
<1>7. {i \in 1..c : new[i]} = {i \in 1..c : log[i]}
  BY <1>5, <1>6
<1> QED
  BY <1>2, <1>3, <1>4, <1>5, <1>6, <1>7 DEF FqFeedInv, FeedPagesJoin

LEMMA FqFeedInit == FqInit => FqFeedInv
<1> SUFFICES ASSUME FqInit PROVE FqFeedInv
  OBVIOUS
<1>1. fqLog = <<>> /\ fqGot = <<>> /\ fqCursor = 0
  BY DEF FqInit
<1> QED
  BY <1>1 DEF FqFeedInv, FeedPagesJoin, Range

LEMMA FqFeedNext == FqFeedInv /\ [FqNext]_fqVars => FqFeedInv'
<1> SUFFICES ASSUME FqFeedInv, [FqNext]_fqVars PROVE FqFeedInv'
  OBVIOUS
<1>1. CASE UNCHANGED <<fqLog, fqGot, fqCursor>>
  BY <1>1 DEF FqFeedInv, FeedPagesJoin
<1>2. \/ UNCHANGED <<fqLog, fqGot, fqCursor>>
      \/ \E limit \in FqLimits : ReadFeed(limit)
      \/ \E public \in BOOLEAN : CommitOne(public)
  BY DEF FqNext, fqVars, ParseParam, AskStream, LookupUser, OpenUserStream, OpenAllStream, SignUpUser, FqClient
<1> QED
  BY <1>1, <1>2, ReadFeedStep, CommitOneStep

\* Event requests are served as they were asked, whatever the parameters, users, pages and
\* limits: a client's stream is opened for exactly the users its query names, each from
\* the cursor given last, and the pages of the old feed join without a gap or a repeat.
THEOREM FeedRequestsAreSound == FqSpec => []FeedRequestsSound
<1>1. FqInit => FqClientInv /\ FqFeedInv
  BY FqClientInit, FqFeedInit
<1>2. FqClientInv /\ FqFeedInv /\ [FqNext]_fqVars => (FqClientInv /\ FqFeedInv)'
  BY FqClientNext, FqFeedNext
<1>3. FqClientInv /\ FqFeedInv => FeedRequestsSound
  BY AskedFromInv DEF FeedRequestsSound, FqTypeOK, FqClientInv, FqTypes, FqFeedInv
<1> QED
  BY <1>1, <1>2, <1>3, PTL DEF FqSpec

=============================================================================
