-------------------------------- MODULE Signup --------------------------------
(***************************************************************************)
(* Signup, by cookie or by grant: one transaction checks that there is no  *)
(* such user, consumes the signup code and creates the user with the       *)
(* code's quota.  Signups interleave at every statement, under READ        *)
(* COMMITTED: a statement waits for the row another open transaction       *)
(* wrote, then looks at it again.                                          *)
(***************************************************************************)
EXTENDS Integers, Values

CONSTANTS
    Signups,        \* the requests
    Keys,           \* public keys that sign up
    Codes,          \* signup codes
    Modes           \* the SignupModes: TRUE for TokenRequired, FALSE for Open

ASSUME SignupAssumption ==
    /\ Modes \subseteq BOOLEAN
    /\ None \notin Keys \cup Codes
    /\ {"none", "default"} \cap Codes = {}

VARIABLES
    tokenRequired,  \* the mode the homeserver was started in
    sgIssued,   \* the codes an administrator has generated
    usedBy,   \* usedBy[c]: the used_by column
    users,    \* users[k]: the code whose quota user k has, or "default"
    sgPc,       \* the step of each signup
    key, code,  \* what it asks for; None for a request without a code
    sgReply

sgVars == <<tokenRequired, sgIssued, usedBy, users, sgPc, key, code, sgReply>>
given == <<tokenRequired, key, code>>

NoUser == "none"
CodeQuotas == Codes \cup {"default"}

SgTypeOK ==
    /\ tokenRequired \in Modes
    /\ sgIssued \subseteq Codes
    /\ usedBy \in [Codes -> Keys \cup {None}]
    /\ users \in [Keys -> CodeQuotas \cup {NoUser}]
    /\ sgPc \in [Signups -> {"check", "code", "mark", "insert", "commit", "done"}]
    /\ key \in [Signups -> Keys]
    /\ code \in [Signups -> Codes \cup {None}]
    /\ sgReply \in [Signups -> {"none", "created", "exists", "required", "invalid",
                              "used", "error"}]

SgInit ==
    /\ tokenRequired \in Modes
    /\ sgIssued = {}
    /\ usedBy = [c \in Codes |-> None]
    /\ users = [k \in Keys |-> NoUser]
    /\ sgPc = [s \in Signups |-> "check"]
    /\ key \in [Signups -> Keys]
    /\ code \in [Signups -> Codes \cup {None}]
    /\ sgReply = [s \in Signups |-> "none"]

-----------------------------------------------------------------------------
(* Helpers *)

SignupGoto(s, step) == sgPc' = [sgPc EXCEPT ![s] = step] /\ UNCHANGED sgReply
EndSignup(s, r) == /\ sgPc' = [sgPc EXCEPT ![s] = "done"]
                /\ sgReply' = [sgReply EXCEPT ![s] = r]

\* The open transaction of s has marked its code; it has inserted its user.
HasMarked(s) == tokenRequired /\ sgPc[s] \in {"insert", "commit"}
HasInserted(s) == sgPc[s] = "commit"

\* Mutant: get() locks the code, and the UPDATE is on another connection.
MutCodeRowFree(c) ==
    \A s \in Signups : sgPc[s] \in {"mark", "insert", "commit"} => code[s] # c

\* An UPDATE waits for the row.
CodeRowFree(c) == \A s \in Signups : HasMarked(s) => code[s] # c

\* Mutant: the public key is not unique.
MutUserKeyFree(k) == TRUE

\* The unique index: an INSERT waits for a row of the same key.
UserKeyFree(k) == \A s \in Signups : HasInserted(s) => key[s] # k

\* The quota of the user that s creates.
QuotaOf(s) == IF tokenRequired THEN code[s] ELSE "default"

\* mark_as_used: WHERE used_by IS NULL.
Unused(c) == usedBy[c] = None

-----------------------------------------------------------------------------
(* Actions *)

\* generate_signup_token.
Generate(c) ==
    /\ c \notin sgIssued
    /\ sgIssued' = sgIssued \cup {c}
    /\ UNCHANGED <<usedBy, users, sgPc, given, sgReply>>

\* ensure_user_not_exists.
CheckUser(s) ==
    /\ sgPc[s] = "check"
    /\ \/ users[key[s]] # NoUser /\ EndSignup(s, "exists")
       \/ /\ users[key[s]] = NoUser
          /\ \/ ~tokenRequired /\ SignupGoto(s, "insert")
             \/ tokenRequired /\ code[s] # None /\ SignupGoto(s, "code")
             \/ tokenRequired /\ code[s] = None /\ EndSignup(s, "required")
    /\ UNCHANGED <<sgIssued, usedBy, users, given>>

\* SignupCodeRepository::get sees what is committed.
GetCode(s) ==
    /\ sgPc[s] = "code"
    /\ \/ code[s] \notin sgIssued /\ EndSignup(s, "invalid")
       \/ code[s] \in sgIssued /\ usedBy[code[s]] # None /\ EndSignup(s, "used")
       \/ code[s] \in sgIssued /\ usedBy[code[s]] = None /\ SignupGoto(s, "mark")
    /\ UNCHANGED <<sgIssued, usedBy, users, given>>

\* mark_as_used.
MarkAsUsed(s) ==
    /\ sgPc[s] = "mark" /\ CodeRowFree(code[s])
    /\ \/ Unused(code[s]) /\ SignupGoto(s, "insert")
       \/ ~Unused(code[s]) /\ EndSignup(s, "error")
    /\ UNCHANGED <<sgIssued, usedBy, users, given>>

\* create_in_tx and set_quota_in_tx: the public key is unique.
InsertUser(s) ==
    /\ sgPc[s] = "insert" /\ UserKeyFree(key[s])
    /\ \/ users[key[s]] = NoUser /\ SignupGoto(s, "commit")
       \/ users[key[s]] # NoUser /\ EndSignup(s, "error")
    /\ UNCHANGED <<sgIssued, usedBy, users, given>>

Commit(s) ==
    /\ sgPc[s] = "commit"
    /\ users' = [users EXCEPT ![key[s]] = QuotaOf(s)]
    /\ usedBy' = IF tokenRequired THEN [usedBy EXCEPT ![code[s]] = key[s]] ELSE usedBy
    /\ EndSignup(s, "created")
    /\ UNCHANGED <<sgIssued, given>>

\* A failed transaction takes its mark back.
Rollback(s) == UNCHANGED usedBy

\* A statement fails, or the client goes away.
Fail(s) ==
    /\ sgPc[s] # "done"
    /\ Rollback(s)
    /\ EndSignup(s, "error")
    /\ UNCHANGED <<sgIssued, users, given>>

SignupStep(s) ==
    CheckUser(s) \/ GetCode(s) \/ MarkAsUsed(s) \/ InsertUser(s) \/ Commit(s)

SgNext ==
    \/ \E c \in Codes : Generate(c)
    \/ \E s \in Signups : SignupStep(s) \/ Fail(s)

SgSpec == SgInit /\ [][SgNext]_sgVars

\* The database serves every statement that does not wait.
SgFairSpec == SgSpec /\ \A s \in Signups : WF_sgVars(SignupStep(s))

-----------------------------------------------------------------------------
(* Properties *)

(***************************************************************************)
(* A code makes one user, and is spent on no other: used_by names the user *)
(* that has its quota, though signups with one code, one key or both race, *)
(* and a signup that fails leaves the code to be used.                     *)
(***************************************************************************)
CodeMakesOneUser ==
    tokenRequired => \A c \in Codes, k \in Keys : users[k] = c <=> usedBy[c] = k

(***************************************************************************)
(* A signup that was answered "created" made the account, alone of all     *)
(* that ask for its key: the user has the quota of the code that this very *)
(* request presented.                                                      *)
(***************************************************************************)
CreatedOnce ==
    \A s \in Signups : sgReply[s] = "created" =>
       /\ users[key[s]] = QuotaOf(s)
       /\ \A t \in Signups : sgReply[t] = "created" /\ key[t] = key[s] => t = s

(***************************************************************************)
(* Why: what a transaction saw of its code and its key when it wrote their *)
(* rows still holds when it commits, and no two of them write the same.    *)
(***************************************************************************)
RowsReserved ==
    /\ \A s \in Signups : HasMarked(s) => usedBy[code[s]] = None
    /\ \A s \in Signups : HasInserted(s) => users[key[s]] = NoUser
    /\ \A s, t \in Signups : HasMarked(s) /\ HasMarked(t) /\ s # t => code[s] # code[t]
    /\ \A s, t \in Signups : HasInserted(s) /\ HasInserted(t) /\ s # t => key[s] # key[t]
    /\ \A s \in Signups : tokenRequired /\ sgPc[s] \notin {"check", "done"} => code[s] # None
    /\ \A s \in Signups : sgReply[s] = "created" => sgPc[s] = "done" /\ users[key[s]] # NoUser

(***************************************************************************)
(* A signup that has begun may wait for others' codes and keys and ends.   *)
(***************************************************************************)
SignupEnds == \A s \in Signups : sgPc[s] # "check" ~> sgPc[s] = "done"

(***************************************************************************)
(* Signups share codes and keys without sharing what they buy.             *)
(***************************************************************************)
SignupsSound == CodeMakesOneUser /\ CreatedOnce
===============================================================================
