------------------------------- MODULE Listing -------------------------------
(***************************************************************************)
(* Paging through a directory while files come and go                        *)
(* (pubky-homeserver/src/client_server/{routes/tenants/read,query_params}.rs, *)
(* persistence/sql/entities/entry/repository.rs, pubky-sdk/src/actors/        *)
(* storage/list.rs).  The caller repeats the request with the last name it    *)
(* received as cursor until a page is empty.                                  *)
(***************************************************************************)
EXTENDS StoragePaths

CONSTANTS
  LsFiles,         \* paths the user can have files at
  LsDirs,          \* directories the caller lists
  LsOrder,         \* files and directories in the order of COLLATE "C"
  LsLimits,        \* limits a request can carry, None for none
  DefaultLimit,    \* DEFAULT_LIST_LIMIT
  MaxLimit,        \* DEFAULT_MAX_LIST_LIMIT
  SpecialSegments, \* segments that do not match themselves as a regular expression
  LsEncoded,       \* name -> its percent-encoded form, where that differs
  MaxLsSeen        \* bound on the names received before a request

VARIABLES
  lsRows,   \* the files with an entry row
  lsAsk,    \* what the caller lists
  lsPc,     \* where its current request is, or how the listing ended
  lsCursor, \* the cursor of the request
  lsSeen,   \* the names received
  lsKept    \* the names that were there all the time since the first page

lsVars == <<lsRows, lsAsk, lsPc, lsCursor, lsSeen, lsKept>>

Position(name) == CHOOSE i \in 1..Len(LsOrder) : LsOrder[i] = name

Under(dir, rows) == {f \in rows : StartsWith(f, dir)}

\* What the directory holds: its files and its directories that hold files.
Child(dir, f) ==
  IF Len(f) = Len(dir) THEN f ELSE Append(SubSeq(f, 1, Len(dir)), "")

Children(dir, rows) == {Child(dir, f) : f \in Under(dir, rows)}

\* list_shallow cuts a path by a regular expression that starts with the
\* directory as it is written; a path that does not match is left as it is.
RegPath(dir, f) ==
  IF \E i \in 1..Len(dir) : dir[i] \in SpecialSegments THEN f ELSE Child(dir, f)

Names(dir, rows, shallow) ==
  IF shallow THEN {RegPath(dir, f) : f \in Under(dir, rows)} ELSE Under(dir, rows)

EffectiveLimit(limit) ==
  LET l == IF limit = None THEN DefaultLimit ELSE limit IN
  IF l < MaxLimit THEN l ELSE MaxLimit

\* Fault: the cursor is included in the page that follows it.
FromCursor(name, cursor, reverse) ==
  cursor = None \/ (IF reverse THEN Position(name) <= Position(cursor)
                    ELSE Position(name) >= Position(cursor))

AfterCursor(name, cursor, reverse) ==
  cursor = None \/ (IF reverse THEN Position(name) < Position(cursor)
                    ELSE Position(name) > Position(cursor))

\* ORDER BY ... COLLATE "C" with LIMIT: the first `limit` of the names.
Page(names, limit, reverse) ==
  LET sorted == SetToSortSeq(names, LAMBDA a, b : IF reverse THEN Position(a) > Position(b)
                                                   ELSE Position(a) < Position(b))
  IN SubSeq(sorted, 1, IF Len(sorted) < limit THEN Len(sorted) ELSE limit)

\* The cursor a caller passes on: to_pubky_url of the last resource, which is
\* percent-encoded and which the homeserver compares as it is written.
CursorOf(name) == IF name \in DOMAIN LsEncoded THEN LsEncoded[name] ELSE name

LsNames == {LsOrder[i] : i \in 1..Len(LsOrder)}

LsTypeOK ==
  /\ lsRows \subseteq LsFiles /\ lsPc \in {"none", "check", "query", "done", "error"}
  /\ lsAsk # None => lsAsk \in [dir : LsDirs, shallow : BOOLEAN, reverse : BOOLEAN, limit : LsLimits]
  /\ lsCursor \in LsNames \cup {None} /\ lsSeen \in Seq(LsNames) /\ lsKept \subseteq LsNames

LsInit ==
  /\ lsRows \in SUBSET LsFiles /\ lsAsk = None /\ lsPc = "none" /\ lsCursor = None
  /\ lsSeen = <<>> /\ lsKept = {}

\* A file is created or removed: what a listing can rely on shrinks with it.
ChangeFile(f) ==
  /\ lsRows' = IF f \in lsRows THEN lsRows \ {f} ELSE lsRows \cup {f}
  /\ lsKept' = IF lsAsk = None THEN lsKept
               ELSE lsKept \cap (IF lsAsk.shallow THEN Children(lsAsk.dir, lsRows')
                                 ELSE Under(lsAsk.dir, lsRows'))
  /\ UNCHANGED <<lsAsk, lsPc, lsCursor, lsSeen>>

\* ListBuilder: a path without the trailing slash is refused before it is sent.
BeginList(dir, shallow, reverse, limit) ==
  /\ lsPc = "none" /\ IsDirectory(dir)
  /\ lsAsk' = [dir |-> dir, shallow |-> shallow, reverse |-> reverse, limit |-> limit]
  /\ lsPc' = "check"
  /\ lsKept' = IF shallow THEN Children(dir, lsRows) ELSE Under(dir, lsRows)
  /\ UNCHANGED <<lsRows, lsCursor, lsSeen>>

\* A cursor that is no entry path answers 400.
BadCursor ==
  /\ lsPc = "query" /\ lsSeen = <<>> /\ lsPc' = "error"
  /\ UNCHANGED <<lsRows, lsAsk, lsCursor, lsSeen, lsKept>>

\* contains_directory, a query of its own: no file below answers 404.
ContainsDirectory ==
  /\ lsPc = "check"
  /\ lsPc' = IF Under(lsAsk.dir, lsRows) = {} THEN "error" ELSE "query"
  /\ UNCHANGED <<lsRows, lsAsk, lsCursor, lsSeen, lsKept>>

\* The page; the caller goes on after its last name until a page is empty.
ListPage ==
  /\ lsPc = "query" /\ Len(lsSeen) <= MaxLsSeen
  /\ LET names == {n \in Names(lsAsk.dir, lsRows, lsAsk.shallow) :
                     AfterCursor(n, lsCursor, lsAsk.reverse)}
         page  == Page(names, EffectiveLimit(lsAsk.limit), lsAsk.reverse)
     IN /\ lsSeen' = lsSeen \o page
        /\ IF page = <<>> THEN lsPc' = "done" /\ UNCHANGED lsCursor
           ELSE lsPc' = "check" /\ lsCursor' = CursorOf(Last(page))
  /\ UNCHANGED <<lsRows, lsAsk, lsKept>>

LsNext ==
  \/ \E f \in LsFiles : ChangeFile(f)
  \/ \E d \in LsDirs, s, r \in BOOLEAN, l \in LsLimits : BeginList(d, s, r, l)
  \/ ContainsDirectory \/ BadCursor \/ ListPage

LsSpec == LsInit /\ [][LsNext]_lsVars

------------------------------------------------------------------------------
\* Between a name and its percent-encoded form, where a cursor misleads.
Misplaced(n) ==
  \E m \in DOMAIN LsEncoded :
    \/ Position(n) \in Position(m)..Position(LsEncoded[m])
    \/ Position(n) \in Position(LsEncoded[m])..Position(m)

\* However files come and go between the pages, a listing that ends has every
\* name that was there throughout, and none twice, except those that sort between
\* a name and the encoded form of it that the SDK sends as cursor.  A directory
\* below one whose name is special is listed by what is in it.
ListingComplete ==
  /\ LsTypeOK
  /\ lsPc = "done" /\ lsAsk.limit # 0 =>
       \A n \in lsKept : Misplaced(n) \/ \E i \in 1..Len(lsSeen) :
         lsSeen[i] = n \/ (IsDirectory(n) /\ StartsWith(lsSeen[i], n))
  /\ \A i, j \in 1..Len(lsSeen) : i # j => lsSeen[i] # lsSeen[j] \/ Misplaced(lsSeen[i])
==============================================================================
