------------------------------- MODULE Accounts -------------------------------
(***************************************************************************)
(* User accounts and signup codes as the administrator sees them             *)
(* (pubky-homeserver/src/services/user_service, admin_server/routes,         *)
(* persistence/sql/entities/user.rs and signup_code.rs).  Enabling and       *)
(* disabling a user, changing its quota and counting its bytes each read the *)
(* row under a row lock and write some of its columns back.  A listing reads *)
(* one page per request while rows are added and changed; the page of a list *)
(* of users starts after a user named by its key, whose place is looked up   *)
(* again for every page.                                                     *)
(***************************************************************************)
EXTENDS Naturals, Sequences, FiniteSets, Values

CONSTANTS
  AdPasswords,              \* what the administrator gives as password; None: nothing
  AdConfigPassword,         \* the password in the client's config file
  AdPassword,               \* the server's admin_password
  AdSlots,                  \* requests that change a row
  AdBytes,                  \* what a write adds to the used bytes
  AdQuotas,                 \* quota columns an administrator sets
  AdCodes,                  \* signup codes: naturals, in the order of their text
  AdQueries,                \* [by, state, reverse, limit] of the listings
  AdDefaultLimit, AdMaxLimit,
  AdFirst,                  \* users there at first
  MaxAdUsers,               \* rows, and transactions that would add one
  MaxAdChanges

VARIABLES
  adUser,     \* id -> [created, used, disabled, quota]; rows are never deleted
  adCode,     \* code -> whether it is used
  adOp,       \* slot -> the request's transaction, None when idle
  adClock,    \* current_timestamp
  adChanges,  \* changes so far
  adList,     \* the listing, None when there is none
  adMeant     \* history: user -> the row the finished changes ask for

adVars == <<adUser, adCode, adOp, adClock, adChanges, adList, adMeant>>

------------------------------------------------------------------------------
NewUserRow(at) == [created |-> at, used |-> 0, disabled |-> FALSE, quota |-> None]

\* The entity a request writes back, from the one it read.
Applied(change, row) ==
  CASE change.kind = "disable" -> [row EXCEPT !.disabled = change.to]
    [] change.kind = "write"   -> [row EXCEPT !.used = @ + change.by]
    [] change.kind = "quota"   -> [row EXCEPT !.quota = change.to]

\* update writes disabled and used_bytes, set_quota the quota columns: each
\* leaves the columns of the other alone.
Written(change, entity, row) ==
  IF change.kind = "quota" THEN [row EXCEPT !.quota = entity.quota]
  ELSE [row EXCEPT !.disabled = entity.disabled, !.used = entity.used]

AdChanges == [kind : {"disable"}, to : BOOLEAN] \cup [kind : {"write"}, by : AdBytes]
             \cup [kind : {"quota"}, to : AdQuotas]

\* AdminContext::resolve, homeservercli: a flag goes before the config file.
SentPassword(flag) == IF flag # None THEN flag ELSE AdConfigPassword

\* AdminAuthLayer; the WebDAV handler compares the Basic password the same way.
AdminAllowed(flag) == SentPassword(flag) = AdPassword

\* Fault: the row is read without a lock.
UnlockedAlways(u) == TRUE

\* FOR UPDATE and FOR NO KEY UPDATE exclude each other.
Unlocked(u) == \A s \in AdSlots : adOp[s] # None => adOp[s].id # u

------------------------------------------------------------------------------
(* Rows in the order of a listing.  A code's order is its text.                *)

RowsOf(by) == IF by = "code" THEN DOMAIN adCode ELSE DOMAIN adUser

\* UserListSortBy::column and value; ids break ties.
PlaceOf(by, r) == CASE by = "code"    -> <<0, r>>
                    [] by = "created" -> <<adUser[r].created, r>>
                    [] by = "used"    -> <<adUser[r].used, r>>

Before(p, q) == p[1] < q[1] \/ (p[1] = q[1] /\ p[2] < q[2])

\* UserListState, SignupCodeListState: disabled users, used codes.
Selected(q, r) ==
  q.state = "all" \/ (q.state = "on") = (IF q.by = "code" THEN adCode[r] ELSE adUser[r].disabled)

UserPageLimit(q) ==
  LET l == IF q.limit = None THEN AdDefaultLimit ELSE q.limit
  IN IF l < AdMaxLimit THEN l ELSE AdMaxLimit

Follows(q, p, at) == IF q.reverse THEN Before(p, at) ELSE Before(at, p)

AfterPlace(q, p, at) == Follows(q, p, at)

\* The rows from a place on (None: from the start), in the order asked for.
RowsAfter(q, at) ==
  LET rows == {r \in RowsOf(q.by) : /\ Selected(q, r)
                                    /\ at = None \/ AfterPlace(q, PlaceOf(q.by, r), at)}
  IN CHOOSE s \in [1..Cardinality(rows) -> rows] :
       \A i, j \in DOMAIN s : i < j => Follows(q, PlaceOf(q.by, s[j]), PlaceOf(q.by, s[i]))

\* list: one row more than the page holds is asked for; split_list_page drops it.
PageOf(q, at) ==
  LET rows == RowsAfter(q, at)  n == UserPageLimit(q)
  IN [items |-> SubSeq(rows, 1, IF Len(rows) > n THEN n ELSE Len(rows)),
      next  |-> IF Len(rows) > n THEN rows[n] ELSE None]

------------------------------------------------------------------------------
UserRow == [created : Nat, used : Nat, disabled : BOOLEAN, quota : AdQuotas \cup {None}]
Creation == [kind : {"create"}, id : {0}, at : Nat]
Change   == [kind : {"change"}, id : Nat \ {0}, change : AdChanges, entity : UserRow]

\* A limit in a request is a NonZeroU16.
ListQueries == [by : {"code", "created", "used"}, state : {"all", "on", "off"}, reverse : BOOLEAN,
                limit : (Nat \ {0}) \cup {None}]

ASSUME AccountsAssumption ==
  /\ AdFirst \in Nat /\ AdBytes \subseteq Nat /\ None \notin Creation \cup Change
  /\ AdCodes \subseteq Nat /\ IsFiniteSet(AdCodes) /\ None \notin Nat \cup (Nat \X Nat)
  /\ AdQueries \subseteq ListQueries /\ {AdDefaultLimit, AdMaxLimit} \subseteq Nat \ {0}

AdTypeOK ==
  /\ adUser \in Seq(UserRow) /\ adClock \in Nat
  /\ \A u \in DOMAIN adUser : adUser[u].created <= adClock
  /\ adOp \in [AdSlots -> Creation \cup Change \cup {None}]
  /\ DOMAIN adCode \subseteq AdCodes /\ DOMAIN adMeant = DOMAIN adUser
  /\ adList # None => adList.query \in AdQueries
                      /\ adList.cursor \in {None} \cup RowsOf(adList.query.by)

AdInit ==
  /\ adUser = [u \in 1..AdFirst |-> NewUserRow(0)] /\ adCode = <<>> /\ adMeant = adUser
  /\ adOp = [s \in AdSlots |-> None]
  /\ adClock = 0 /\ adChanges = 0 /\ adList = None

\* Rows that changed their place in the listing, or came into it or left it.
Moved(q) ==
  {r \in RowsOf(q.by) : PlaceOf(q.by, r) # PlaceOf(q.by, r)' \/ Selected(q, r) # Selected(q, r)'}

ListFollows ==
  IF adList = None \/ adList.step = "done" THEN UNCHANGED adList
  ELSE \E q \in {adList.query} : adList' = [adList EXCEPT !.moved = @ \cup Moved(q)]

\* create_in_tx: created_at is the time the transaction began, the id is given
\* out by the insert.
BeginUser(s) ==
  /\ adOp[s] = None /\ AdFirst + adClock < MaxAdUsers
  /\ adOp' = [adOp EXCEPT ![s] = [kind |-> "create", id |-> 0, at |-> adClock]]
  /\ adClock' = adClock + 1
  /\ UNCHANGED <<adUser, adCode, adChanges, adList, adMeant>>

CommitUser(s) ==
  /\ adOp[s] # None /\ adOp[s].kind = "create" /\ Len(adUser) < MaxAdUsers
  /\ adUser' = Append(adUser, NewUserRow(adOp[s].at))
  /\ adMeant' = Append(adMeant, NewUserRow(adOp[s].at))
  /\ adOp' = [adOp EXCEPT ![s] = None]
  /\ UNCHANGED <<adCode, adClock, adChanges, adList>>

\* set_disabled, patch_quota, and the write of a file: the row is locked and
\* read.  The first two need the administrator's password.
LockUser(s, u, change, password) ==
  /\ adOp[s] = None /\ adChanges < MaxAdChanges /\ Unlocked(u)
  /\ change.kind # "write" => AdminAllowed(password)
  /\ adOp' = [adOp EXCEPT ![s] = [kind |-> "change", id |-> u, change |-> change,
                                  entity |-> Applied(change, adUser[u])]]
  /\ adChanges' = adChanges + 1
  /\ UNCHANGED <<adUser, adCode, adClock, adList, adMeant>>

\* The columns are written and the transaction commits.
UpdateUser(s) ==
  /\ adOp[s] # None /\ adOp[s].kind = "change"
  /\ LET op == adOp[s] IN
     /\ adUser'  = [adUser EXCEPT ![op.id] = Written(op.change, op.entity, @)]
     /\ adMeant' = [adMeant EXCEPT ![op.id] = Applied(op.change, @)]
  /\ adOp' = [adOp EXCEPT ![s] = None]
  /\ UNCHANGED adCode /\ ListFollows /\ UNCHANGED <<adClock, adChanges>>

\* An error or a dropped request rolls the transaction back.
RollBack(s) ==
  /\ adOp[s] # None /\ adOp' = [adOp EXCEPT ![s] = None]
  /\ UNCHANGED <<adUser, adCode, adClock, adChanges, adList, adMeant>>

\* POST /generate_signup_token: the code is random, so it may sort anywhere.
GenerateCode(c, password) ==
  /\ AdminAllowed(password) /\ c \notin DOMAIN adCode
  /\ adCode' = [x \in DOMAIN adCode \cup {c} |-> IF x = c THEN FALSE ELSE adCode[x]]
  /\ UNCHANGED <<adUser, adOp, adClock, adChanges, adList, adMeant>>

UseCode(c) ==
  /\ c \in DOMAIN adCode /\ ~adCode[c]
  /\ adCode' = [adCode EXCEPT ![c] = TRUE]
  /\ UNCHANGED adUser /\ ListFollows
  /\ UNCHANGED <<adOp, adClock, adChanges, adMeant>>

------------------------------------------------------------------------------
(* GET /users and GET /signup_tokens, page after page.                         *)

BeginUserList(q, password) ==
  /\ adList = None /\ AdminAllowed(password)
  /\ adList' = [query |-> q, step |-> "page", cursor |-> None, at |-> None, shown |-> None,
                seen |-> <<>>, moved |-> {}, shifted |-> FALSE,
                there |-> {r \in RowsOf(q.by) : Selected(q, r)}]
  /\ UNCHANGED <<adUser, adCode, adOp, adClock, adChanges, adMeant>>

\* The user the cursor names is read for its present place.  A code is its place.
ReadCursorRow ==
  /\ adList # None /\ adList.step = "cursor"
  /\ LET p == PlaceOf(adList.query.by, adList.cursor) IN
     adList' = [adList EXCEPT !.step = "page", !.at = p, !.shifted = @ \/ p # adList.shown]
  /\ UNCHANGED <<adUser, adCode, adOp, adClock, adChanges, adMeant>>

ReadPage ==
  /\ adList # None /\ adList.step = "page"
  /\ LET page == PageOf(adList.query, adList.at) IN
     adList' = [adList EXCEPT !.seen = @ \o page.items, !.cursor = page.next,
                  !.step = IF page.next = None THEN "done" ELSE "cursor",
                  !.shown = IF page.next = None THEN None
                            ELSE PlaceOf(adList.query.by, page.next)]
  /\ UNCHANGED <<adUser, adCode, adOp, adClock, adChanges, adMeant>>

AdNext ==
  \/ \E s \in AdSlots :
       \/ BeginUser(s) \/ CommitUser(s) \/ UpdateUser(s) \/ RollBack(s)
       \/ \E u \in DOMAIN adUser, c \in AdChanges, p \in AdPasswords : LockUser(s, u, c, p)
  \/ \E c \in AdCodes : UseCode(c) \/ \E p \in AdPasswords : GenerateCode(c, p)
  \/ \E q \in AdQueries, p \in AdPasswords : BeginUserList(q, p)
  \/ ReadCursorRow \/ ReadPage

AdSpec == AdInit /\ [][AdNext]_adVars

------------------------------------------------------------------------------
\* No finished change of a row is lost to another: disabling a user writes its
\* used bytes back, and counting bytes writes whether it is disabled.
NoChangeLost == adUser = adMeant

\* A listing that came to its end has every row that was there all along, once,
\* though rows are added and changed between its pages; a list of users by used
\* bytes may miss or repeat one only if a user that a cursor named moved meanwhile.
ListedExactlyOnce ==
  adList # None /\ adList.step = "done" /\ ~adList.shifted =>
    \A r \in adList.there \ adList.moved :
      Cardinality({i \in DOMAIN adList.seen : adList.seen[i] = r}) = 1

\* Administration beside the users' own requests (user.rs, admin_server/routes).
AccountsSound == AdTypeOK /\ NoChangeLost /\ ListedExactlyOnce
==============================================================================
