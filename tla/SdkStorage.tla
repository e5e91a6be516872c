------------------------------ MODULE SdkStorage ------------------------------
(***************************************************************************)
(* Storage as the SDK's callers see it (pubky-sdk/src/actors/storage and its *)
(* JavaScript binding): which file a path or an address reaches after it was *)
(* parsed, percent-encoded and decoded, and what a lock handle protects.     *)
(* A text is a name and the number of times it has been percent-encoded; the *)
(* homeserver removes one layer.  Two callers are signed in as one user.     *)
(***************************************************************************)
EXTENDS Naturals, FiniteSets, Values

CONSTANTS
  StClients,
  StNames,     \* file names, ordinary and
  StSpecial,   \* with a character that is percent-encoded
  StRefused,   \* "", ".", ".." or a path with "//"
  MaxTyped,    \* layers in what a caller types: "a%20b" is a text of its own
  StTimeouts, MaxStTokens, MaxStTicks, MaxStRequests

VARIABLES
  stFiles,     \* files there are
  stLocks,     \* file -> [token, left], None when it was never locked
  stGranted,   \* locks granted so far
  stTicks,
  stBearer,    \* caller -> whether the homeserver accepts its bearer
  stHandle,    \* caller -> its StorageLock, None when it has none
  stOp,        \* caller -> its request, None when idle
  stAsked,     \* requests so far
  stListed,    \* the resource the callers took from the last listing
  stStored,    \* history: the last text a session stored under, and the file
  stDone       \* history: what the homeserver did last

stVars == <<stFiles, stLocks, stGranted, stTicks, stBearer, stHandle, stOp, stAsked, stListed,
            stStored, stDone>>
stServer == <<stFiles, stLocks, stGranted, stStored>>

------------------------------------------------------------------------------
(* Texts.                                                                      *)

Typed == [name : StNames, layers : {0}] \cup [name : StSpecial, layers : 0..MaxTyped]

\* Url::path_segments_mut().push: the percent sign is encoded like any other.
Encode(t)  == IF t.name \in StSpecial THEN [t EXCEPT !.layers = @ + 1] ELSE t
DecodeOnce(t) == IF t.layers > 0 THEN [t EXCEPT !.layers = @ - 1] ELSE t

ParsePath(t) == IF t.name \in StRefused THEN Failed ELSE Encode(t)

\* IntoResourcePath: a text is parsed, a ResourcePath is one already.
IntoAbsPath(arg) == IF arg.kind = "text" THEN ParsePath(arg.text) ELSE arg.text

\* SessionStorage::request parses the text of the ResourcePath once more.
SessionUrl(arg) == IF IntoAbsPath(arg) = Failed THEN Failed ELSE ParsePath(IntoAbsPath(arg))

\* PubkyResource::from_str: pubky://<owner>/<path> or pubky<owner>/<path>; the
\* owner must not carry the prefix once more.
ParseAddress(arg) == IF arg.kind = "prefixed" THEN Failed ELSE ParsePath(arg.text)

\* PublicStorage::request: a text is parsed, a PubkyResource is used as it is.
PublicUrl(arg) == IF arg.kind = "resource" THEN arg.text ELSE ParseAddress(arg)

\* PubkyResource::from_transport_url decodes before it parses; a URL whose two
\* owners differ is refused.
FromTransport(line) == IF line.form = "mixed" THEN Failed ELSE ParsePath(DecodeOnce(line.text))

\* ListBuilder::parse_resource_line: pubky:// with the stored path, or a URL.
NamedBy(line) == IF line.form = "pubky" THEN ParsePath(line.text) ELSE FromTransport(line)

LinesOf(files) == {[form |-> "pubky", text |-> f] : f \in files}
             \cup {[form |-> w, text |-> Encode(f)] : w \in {"storage", "mixed"}, f \in files}

\* The homeserver decodes the path of the request.
FileAt(url) == DecodeOnce(url)

------------------------------------------------------------------------------
(* The homeserver.                                                             *)

HasLock(f) == f \in DOMAIN stLocks /\ stLocks[f].left > 0

\* A write without a token needs an unlocked path, one with a token its lock.
WriteAllowed(f, token) ==
  IF token = None THEN ~HasLock(f) ELSE HasLock(f) /\ stLocks[f].token = token

Locked(f, token, left) ==
  [x \in DOMAIN stLocks \cup {f} |->
     IF x = f THEN [token |-> token, left |-> left] ELSE stLocks[x]]

\* The status of a request, None for success.  A lock that has lapsed counts as
\* swept, also for the unlock that would still find its row.
Status(c, op) ==
  LET f == FileAt(op.url) IN
  CASE op.verb # "public" /\ ~stBearer[c] -> "401"
    [] op.verb \in {"public", "get"} /\ f \notin stFiles -> "404"
    [] op.verb \in {"put", "blob", "delete"} /\ ~WriteAllowed(f, op.token) ->
         IF op.token = None THEN "423" ELSE "412"
    [] op.verb = "delete" /\ f \notin stFiles -> "404"
    [] op.verb = "lock" /\ op.token = None /\ HasLock(f) -> "423"
    [] op.verb = "lock" /\ op.token # None /\ ~WriteAllowed(f, op.token) -> "412"
    [] op.verb = "unlock" /\ ~WriteAllowed(f, op.token) -> "409"
    [] OTHER -> None

ASSUME StorageAssumption ==
  /\ None \notin Nat \cup {"401", "404", "409", "412", "423"} /\ StTimeouts \subseteq Nat
  /\ {MaxTyped, MaxStTokens, MaxStTicks} \subseteq Nat

StTypeOK ==
  /\ stFiles \subseteq [name : StNames \cup StSpecial, layers : Nat]
  /\ stGranted <= MaxStTokens /\ stTicks <= MaxStTicks
  /\ stBearer \in [StClients -> BOOLEAN]
  /\ \A f, g \in DOMAIN stLocks : f # g => stLocks[f].token # stLocks[g].token

StInit ==
  /\ stFiles \in {{[name |-> n, layers |-> 0]} : n \in StNames \cup StSpecial}
  /\ stLocks = [f \in {} |-> 0] /\ stGranted = 0
  /\ stTicks = 0 /\ stBearer = [c \in StClients |-> TRUE]
  /\ stHandle = [c \in StClients |-> None] /\ stOp = [c \in StClients |-> None]
  /\ stAsked = 0 /\ stListed = {} /\ stStored = None /\ stDone = None

------------------------------------------------------------------------------
(* The caller.  What cannot be parsed is refused before anything is sent.      *)

Ask(c, verb, url, token, locked, timeout, arg) ==
  /\ stOp[c] = None /\ url # Failed /\ stAsked < MaxStRequests /\ stAsked' = stAsked + 1
  /\ stOp' = [stOp EXCEPT ![c] = [verb |-> verb, url |-> url, token |-> token, locked |-> locked,
                                  timeout |-> timeout, arg |-> arg, retried |-> FALSE,
                                  reply |-> None]]
  /\ stDone' = None
  /\ UNCHANGED <<stServer, stTicks, stBearer, stHandle, stListed>>

\* The operations and the arguments they take.
SessionVerbs == {"get", "put", "blob", "delete"}
HandleVerbs  == {"put", "blob", "delete", "unlock"}
PublicKinds  == {"text", "resource", "prefixed"}

\* What the caller has: texts it types, and what a listing gave it.
Args(kinds) == [kind : kinds \cap {"text", "prefixed"}, text : Typed]
          \cup [kind : kinds \cap {"path", "resource"}, text : stListed]

SessionCall(c, verb, arg) ==
  Ask(c, verb, SessionUrl(arg), None, FALSE, 0, arg)
PublicCall(c, arg) == Ask(c, "public", PublicUrl(arg), None, FALSE, 0, arg)

\* SessionStorage::lock keeps the path it was given as a ResourcePath.
LockCall(c, arg, timeout) ==
  /\ IntoAbsPath(arg) # Failed
  /\ Ask(c, "lock", SessionUrl([kind |-> "path", text |-> IntoAbsPath(arg)]), None, FALSE,
         timeout, [kind |-> "path", text |-> IntoAbsPath(arg)])

\* Fault: the request does not name the lock.
NoIfHeader(h) == None

IfHeader(h) == h.token

\* put_locked, delete_locked, refresh_lock and unlock address the handle's path;
\* putBlobLocked gives the path's text to prepare_blob_put, which parses it again.
HandleUrl(h, verb) ==
  SessionUrl([kind |-> IF verb = "blob" THEN "text" ELSE "path", text |-> h.path])

HandleCall(c, verb, timeout) ==
  /\ stHandle[c] # None
  /\ Ask(c, verb, HandleUrl(stHandle[c], verb), IfHeader(stHandle[c]), TRUE, timeout,
         [kind |-> "path", text |-> stHandle[c].path])

\* The handle is dropped: nothing is sent.
DropHandle(c) ==
  /\ stHandle[c] # None /\ stOp[c] = None
  /\ stHandle' = [stHandle EXCEPT ![c] = None] /\ stDone' = None
  /\ UNCHANGED <<stServer, stTicks, stBearer, stOp, stAsked, stListed>>

\* A listing, of either storage: the caller takes one of its entries.  A line that
\* does not parse fails it.
ListCall(c, line) ==
  /\ stOp[c] = None /\ NamedBy(line) # Failed
  /\ stListed' = {NamedBy(line)}
  /\ stDone' = [verb |-> "list", file |-> None, arg |-> None, locked |-> FALSE, status |-> None,
                mine |-> {NamedBy(line)}]
  /\ UNCHANGED <<stServer, stTicks, stBearer, stHandle, stOp, stAsked>>

\* The homeserver does what it is asked; which lock the caller holds is noted.
Do(c) ==
  /\ stOp[c] # None /\ stOp[c].reply = None
  /\ LET op == stOp[c]
         f == FileAt(op.url)
         status == Status(c, op)
         token == IF op.token = None THEN stGranted + 1 ELSE op.token
     IN
     /\ op.verb = "lock" /\ op.token = None => stGranted < MaxStTokens
     /\ stOp' = [stOp EXCEPT ![c].reply = [status |-> status, token |-> token]]
     /\ stFiles' = IF status # None THEN stFiles
                   ELSE CASE op.verb \in {"put", "blob"} -> stFiles \cup {f}
                          [] op.verb = "delete" -> stFiles \ {f}
                          [] OTHER -> stFiles
     /\ stLocks' = IF status # None THEN stLocks
                   ELSE CASE op.verb = "lock" -> Locked(f, token, op.timeout)
                          [] op.verb = "unlock" -> Locked(f, token, 0)
                          [] OTHER -> stLocks
     /\ stGranted' = IF status = None /\ op.verb = "lock" /\ op.token = None THEN token ELSE stGranted
     /\ stStored' = IF status = None /\ op.verb \in {"put", "blob"} /\ ~op.locked
                    THEN [arg |-> op.arg, file |-> f] ELSE stStored
     /\ stDone' = [verb |-> op.verb, file |-> f, arg |-> op.arg, locked |-> op.locked, status |-> status,
                   mine |-> {g \in DOMAIN stLocks : HasLock(g) /\ stHandle[c] # None
                                                    /\ stLocks[g].token = stHandle[c].token}]
  /\ UNCHANGED <<stTicks, stBearer, stHandle, stAsked, stListed>>

\* A Blob that met a 401 is sent again once, with a new bearer; the others are
\* retried by the credential.
Again(op, status) == op.verb # "public" /\ status = "401" /\ ~op.retried

\* The caller has its answer: a new handle, a refreshed one, or an error.
Receive(c) ==
  /\ stOp[c] # None /\ stOp[c].reply # None
  /\ LET op == stOp[c]  r == op.reply IN
     /\ stHandle' = IF op.verb = "lock" /\ r.status = None
                    THEN [stHandle EXCEPT ![c] =
                            [path |-> op.arg.text, token |-> r.token, timeout |-> op.timeout]]
                    ELSE stHandle
     /\ IF Again(op, r.status)
        THEN /\ stBearer' = [stBearer EXCEPT ![c] = TRUE]
             /\ stOp' = [stOp EXCEPT ![c].reply = None, ![c].retried = TRUE]
        ELSE stOp' = [stOp EXCEPT ![c] = None] /\ UNCHANGED stBearer
  /\ stDone' = None
  /\ UNCHANGED <<stServer, stTicks, stAsked, stListed>>

\* The answer is lost, or the caller drops the request.
LoseReply(c) ==
  /\ stOp[c] # None /\ stOp' = [stOp EXCEPT ![c] = None] /\ stDone' = None
  /\ UNCHANGED <<stServer, stTicks, stBearer, stHandle, stAsked, stListed>>

BearerExpires(c) ==
  /\ stBearer[c] /\ stOp[c] # None /\ stOp[c].reply = None
  /\ stBearer' = [stBearer EXCEPT ![c] = FALSE] /\ stDone' = None
  /\ UNCHANGED <<stServer, stTicks, stHandle, stOp, stAsked, stListed>>

StTick ==
  /\ stTicks < MaxStTicks /\ stTicks' = stTicks + 1 /\ stDone' = None
  /\ stLocks' = [f \in DOMAIN stLocks |->
                   [stLocks[f] EXCEPT !.left = IF @ > 0 THEN @ - 1 ELSE 0]]
  /\ UNCHANGED <<stFiles, stGranted, stStored, stBearer, stHandle, stOp, stAsked, stListed>>

StNext ==
  \/ StTick
  \/ \E c \in StClients :
       \/ Do(c) \/ Receive(c) \/ LoseReply(c) \/ BearerExpires(c) \/ DropHandle(c)
       \/ \E a \in Args({"text", "path"}) :
            \/ \E v \in SessionVerbs : SessionCall(c, v, a)
            \/ \E t \in StTimeouts : LockCall(c, a, t)
       \/ \E a \in Args(PublicKinds) : PublicCall(c, a)
       \/ \E v \in HandleVerbs : HandleCall(c, v, 0)
       \/ \E t \in StTimeouts : HandleCall(c, "lock", t)
       \/ \E l \in LinesOf(stFiles) : ListCall(c, l)

StSpec == StInit /\ [][StNext]_stVars

------------------------------------------------------------------------------
\* A locked write that succeeds wrote the file its caller's lock is on, while it
\* still had the lock, however long the request took.
LockedWriteUnderItsLock ==
  stDone # None /\ stDone.verb \in {"put", "blob", "delete"} /\ stDone.locked
    /\ stDone.status = None => stDone.file \in stDone.mine

\* Every resource a listing names reaches, through PublicStorage, a file that was
\* listed: names are neither decoded too often nor too rarely.
ListedIsReached ==
  stDone # None /\ stDone.verb = "list" =>
    \A r \in stDone.mine : FileAt(PublicUrl([kind |-> "resource", text |-> r])) \in stFiles

\* What a session has stored under a text, anyone reads under that text with
\* PublicStorage (storage/core.rs:32).  It does not hold: SessionStorage::request
\* encodes the path twice and a public address is encoded once.
PublicReadsWhatSessionStored ==
  stDone # None /\ stDone.verb = "public" /\ stStored # None /\ stDone.arg = stStored.arg
    /\ stStored.file \in stFiles => stDone.status = None /\ stDone.file = stStored.file

\* Locks and names of storage/{lock,list,core}.rs reach the files they are for.
StorageSound == StTypeOK /\ LockedWriteUnderItsLock /\ ListedIsReached
===============================================================================
