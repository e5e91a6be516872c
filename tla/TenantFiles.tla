----------------------------- MODULE TenantFiles -----------------------------
(***************************************************************************)
(* Reading one file of a tenant while it is overwritten and deleted          *)
(* (pubky-homeserver/src/client_server/routes/tenants/{read,write}.rs,        *)
(* persistence/files/{file/file_service,opendal/opendal_service,              *)
(* write_path_layer}.rs).  GET reads the entry row, then the blob, in steps  *)
(* of its own; PUT publishes the blob before the row, DELETE removes the row *)
(* before the blob, one change at a time (FileFinalization).  A version is   *)
(* the number of the PUT it comes from; two PUTs may carry the same bytes.   *)
(***************************************************************************)
EXTENDS Naturals, Sequences, Values

CONSTANTS
  Contents,      \* what a PUT can carry
  Size,          \* content -> its length
  MaxBytes,      \* what the user's other files leave of the quota, for the early check
  FileMetadata,  \* FILE_METADATA_SIZE
  MaxPuts,       \* bound on the PUTs
  MaxSecond      \* bound on the clock, in the whole seconds of an HTTP date

ASSUME FilesAssumption == Size \in [Contents -> Nat] /\ MaxPuts \in Nat /\ MaxSecond \in Nat \ {0}

VARIABLES
  tfEtag,     \* the backend returns an ETag (object store) or not (filesystem)
  tfAllowed,  \* the path is within the user's allowed_write_paths
  tfSecond,   \* the clock
  tfPut,      \* the contents of the PUTs so far, in order
  tfBlob,     \* version of the stored blob, 0 for none
  tfRow,      \* the entry row: its version (0 for none) and modified_at
  tfChange,   \* the PUT or DELETE under way
  tfRead,     \* the GET or HEAD under way
  tfHeld      \* the response the client holds

tfVars == <<tfEtag, tfAllowed, tfSecond, tfPut, tfBlob, tfRow, tfChange, tfRead, tfHeld>>

NoRow    == [ver |-> 0, mod |-> 0]
NoChange == [pc |-> "none", ver |-> 0, admin |-> FALSE]
NoRead   == [pc |-> "none", by |-> None, row |-> NoRow, len |-> 0, etag |-> 0]

Content(v) == tfPut[v]
Length(v)  == Size[Content(v)]

EntryRow == [ver : 0..Len(tfPut), mod : Nat]
HeldResponse ==
  [tag : 1..Len(tfPut), mod : Nat, body : 1..Len(tfPut), len : Nat, asof : 1..Len(tfPut),
   shared : BOOLEAN]

TfTypeOK ==
  /\ tfEtag \in BOOLEAN /\ tfAllowed \in BOOLEAN /\ tfSecond \in 1..MaxSecond
  /\ tfPut \in Seq(Contents) /\ Len(tfPut) <= MaxPuts
  /\ tfBlob \in 0..Len(tfPut) /\ tfRow \in EntryRow
  /\ tfChange \in [pc : {"none", "publish", "commit", "remove", "clear"}, ver : 0..Len(tfPut),
                   admin : BOOLEAN]
  /\ tfRead \in [pc : {"none", "row", "stat", "open", "length"},
                 by : {"full", "tag", "date", "head", None}, row : EntryRow, len : Nat, etag : 0..Len(tfPut)]
  /\ tfHeld # None => tfHeld \in HeldResponse

TfInit ==
  /\ tfEtag \in BOOLEAN /\ tfAllowed = TRUE /\ tfSecond = 1 /\ tfPut = <<>>
  /\ tfBlob = 0 /\ tfRow = NoRow /\ tfChange = NoChange /\ tfRead = NoRead /\ tfHeld = None

SecondPasses ==
  /\ tfSecond < MaxSecond /\ tfSecond' = tfSecond + 1
  /\ UNCHANGED <<tfEtag, tfAllowed, tfPut, tfBlob, tfRow, tfChange, tfRead, tfHeld>>

\* The administrator restricts the user's write paths, or lifts it.
SetAllowed ==
  /\ tfAllowed' = ~tfAllowed
  /\ UNCHANGED <<tfEtag, tfSecond, tfPut, tfBlob, tfRow, tfChange, tfRead, tfHeld>>

------------------------------------------------------------------------------
(* Errors *)

\* From<opendal::Error>: what a layer refused is recovered from the error, the
\* backend's own errors are told apart by their kind.
LayerErrors == {"WritePathForbidden", "DiskSpaceQuotaExceeded", "PathCollision", "LockLost",
                "PublishConflict"}
FileError(kind) ==
  CASE kind \in LayerErrors \cup {"NotFound"} -> kind
    [] kind = "RateLimited" -> "BackendRateLimited"
    [] OTHER -> "OpenDAL"

\* From<FileIoError> for HttpError
StatusOf(error) ==
  CASE error = "NotFound"                            -> 404
    [] error = "DiskSpaceQuotaExceeded"              -> 507
    [] error = "WritePathForbidden"                  -> 403
    [] error \in {"PathCollision", "PublishConflict"} -> 409
    [] error = "StreamBroken"                        -> 400
    [] error = "BackendRateLimited"                  -> 429
    [] error = "LockLost"                            -> 412
    [] OTHER                                         -> 500

\* The client gives its copy up when it is told that the file is not there.
AfterError(status) == IF status = 404 THEN None ELSE tfHeld

------------------------------------------------------------------------------
(* Changes *)

\* WritePathService: what creates, writes or deletes is checked against the quota's
\* write paths, once, before it reaches the layers below.
WritePermitted == tfAllowed

\* fail_if_size_hint_exceeds_quota: a Content-Length that would not fit is
\* refused before the body is streamed.  The metadata of a new file is in the
\* difference, that of a file there is in used_bytes, as the old content is.
ExceedsHint(c) ==
  LET new   == tfRow.ver = 0
      used  == IF new THEN 0 ELSE Length(tfRow.ver) + FileMetadata
      added == IF new THEN Size[c] + FileMetadata ELSE Size[c]
      freed == IF new THEN 0 ELSE Length(tfRow.ver)
  IN used + added > MaxBytes + freed

\* Fault: the row is written when the upload starts.
BeginPutWithRow(c, hinted) ==
  /\ tfChange.pc = "none" /\ tfAllowed /\ Len(tfPut) < MaxPuts
  /\ tfPut' = Append(tfPut, c)
  /\ tfChange' = [pc |-> "publish", ver |-> Len(tfPut'), admin |-> FALSE]
  /\ tfRow' = [ver |-> Len(tfPut'), mod |-> tfSecond]
  /\ UNCHANGED <<tfEtag, tfAllowed, tfSecond, tfBlob, tfRead, tfHeld>>

\* put, until the layers below have taken the whole body: the write path is
\* checked when it opens the writer.
BeginPut(c, hinted) ==
  /\ tfChange.pc = "none" /\ WritePermitted /\ Len(tfPut) < MaxPuts
  /\ hinted => ~ExceedsHint(c)
  /\ tfPut' = Append(tfPut, c)
  /\ tfChange' = [pc |-> "publish", ver |-> Len(tfPut'), admin |-> FALSE]
  /\ UNCHANGED <<tfEtag, tfAllowed, tfSecond, tfBlob, tfRow, tfRead, tfHeld>>

\* is_valid_authorization_header: Basic, with the user "admin" and the password.
DavAllowed(header) == header = [scheme |-> "Basic", user |-> "admin", password |-> "right"]

DavHeaders == [scheme : {"Basic", "Bearer"}, user : {"admin"}, password : {"right", "wrong"}]

\* dav_handler: an administrator writes through the operator without write paths.
DavPut(header, c) ==
  /\ DavAllowed(header)
  /\ tfChange.pc = "none" /\ Len(tfPut) < MaxPuts
  /\ tfPut' = Append(tfPut, c)
  /\ tfChange' = [pc |-> "publish", ver |-> Len(tfPut'), admin |-> TRUE]
  /\ UNCHANGED <<tfEtag, tfAllowed, tfSecond, tfBlob, tfRow, tfRead, tfHeld>>

\* A stream that breaks aborts the upload; so does a refusal of the layers.
AbortPut ==
  /\ tfChange.pc = "publish" /\ tfChange' = NoChange
  /\ UNCHANGED <<tfEtag, tfAllowed, tfSecond, tfPut, tfBlob, tfRow, tfRead, tfHeld>>

PublishBlob ==
  /\ tfChange.pc = "publish"
  /\ tfBlob' = tfChange.ver /\ tfChange' = [tfChange EXCEPT !.pc = "commit"]
  /\ UNCHANGED <<tfEtag, tfAllowed, tfSecond, tfPut, tfRow, tfRead, tfHeld>>

\* EntryRepository::create / update.  The commit may fail: the row then still
\* describes the previous content.
CommitRow(ok) ==
  /\ tfChange.pc = "commit"
  /\ tfRow' = IF ok THEN [ver |-> tfChange.ver, mod |-> tfSecond] ELSE tfRow
  /\ tfChange' = NoChange
  /\ UNCHANGED <<tfEtag, tfAllowed, tfSecond, tfPut, tfBlob, tfRead, tfHeld>>

\* delete and admin_delete: NotFound if there is no blob; only the latter goes
\* past the write path check.
BeginDelete(admin) ==
  /\ tfChange.pc = "none" /\ tfBlob # 0 /\ (admin \/ WritePermitted)
  /\ tfChange' = [pc |-> "remove", ver |-> 0, admin |-> admin]
  /\ UNCHANGED <<tfEtag, tfAllowed, tfSecond, tfPut, tfBlob, tfRow, tfRead, tfHeld>>

RemoveRow(ok) ==
  /\ tfChange.pc = "remove"
  /\ IF ok THEN tfRow' = NoRow /\ tfChange' = [tfChange EXCEPT !.pc = "clear"]
     ELSE tfChange' = NoChange /\ UNCHANGED tfRow
  /\ UNCHANGED <<tfEtag, tfAllowed, tfSecond, tfPut, tfBlob, tfRead, tfHeld>>

RemoveBlob(ok) ==
  /\ tfChange.pc = "clear"
  /\ tfBlob' = IF ok THEN 0 ELSE tfBlob
  /\ tfChange' = NoChange
  /\ UNCHANGED <<tfEtag, tfAllowed, tfSecond, tfPut, tfRow, tfRead, tfHeld>>

------------------------------------------------------------------------------
(* Reads.  by: no validator, If-None-Match (tag) or If-Modified-Since (date), *)
(* or a HEAD.                                                                 *)

BeginRead(by) ==
  /\ tfRead.pc = "none" /\ (by \in {"tag", "date"} => tfHeld # None)
  /\ tfRead' = [NoRead EXCEPT !.pc = "row", !.by = by]
  /\ UNCHANGED <<tfEtag, tfAllowed, tfSecond, tfPut, tfBlob, tfRow, tfChange, tfHeld>>

\* is_not_modified: the ETag is the hash of the content; a date is compared in
\* whole seconds.  The tag has precedence.
IsNotModified(row) ==
  CASE tfRead.by = "tag"  -> Content(tfHeld.tag) = Content(row.ver)
    [] tfRead.by = "date" -> tfHeld.mod >= row.mod
    [] OTHER -> FALSE

\* get_info: there is no row.
InfoMissing ==
  /\ tfRead.pc = "row" /\ tfRow.ver = 0
  /\ tfRead' = NoRead /\ tfHeld' = IF tfRead.by = "head" THEN tfHeld ELSE AfterError(StatusOf("NotFound"))
  /\ UNCHANGED <<tfEtag, tfAllowed, tfSecond, tfPut, tfBlob, tfRow, tfChange>>

\* not_modified_response: the client keeps the body it has under the validators
\* of the row.  shared: the row is not the one whose validators it asked with.
Renewed(row) == [tfHeld EXCEPT !.asof = row.ver, !.tag = row.ver, !.mod = row.mod,
                               !.shared = @ \/ row.ver # tfHeld.tag]

NotModified ==
  /\ tfRead.pc = "row" /\ tfRow.ver # 0 /\ IsNotModified(tfRow)
  /\ tfRead' = NoRead /\ tfHeld' = Renewed(tfRow)
  /\ UNCHANGED <<tfEtag, tfAllowed, tfSecond, tfPut, tfBlob, tfRow, tfChange>>

GetInfo ==
  /\ tfRead.pc = "row" /\ tfRow.ver # 0 /\ ~IsNotModified(tfRow)
  /\ tfRead' = [tfRead EXCEPT !.pc = IF tfRead.by = "head" THEN "length" ELSE "stat",
                              !.row = tfRow]
  /\ UNCHANGED <<tfEtag, tfAllowed, tfSecond, tfPut, tfBlob, tfRow, tfChange, tfHeld>>

\* blob_length: the length a HEAD reports is the blob's.
BlobLength ==
  /\ tfRead.pc = "length" /\ tfRead' = NoRead
  /\ UNCHANGED <<tfEtag, tfAllowed, tfSecond, tfPut, tfBlob, tfRow, tfChange, tfHeld>>

BlobMissing ==
  /\ tfRead.pc \in {"stat", "open"} /\ tfBlob = 0
  /\ tfRead' = NoRead /\ tfHeld' = AfterError(StatusOf(FileError("NotFound")))
  /\ UNCHANGED <<tfEtag, tfAllowed, tfSecond, tfPut, tfBlob, tfRow, tfChange>>

\* The backend throttles the read or fails.
ReadFails(kind) ==
  /\ tfRead.pc \in {"stat", "open"}
  /\ tfRead' = NoRead /\ tfHeld' = AfterError(StatusOf(FileError(kind)))
  /\ UNCHANGED <<tfEtag, tfAllowed, tfSecond, tfPut, tfBlob, tfRow, tfChange>>

Stat ==
  /\ tfRead.pc = "stat" /\ tfBlob # 0
  /\ tfRead' = [tfRead EXCEPT !.pc = "open", !.len = Length(tfBlob), !.etag = tfBlob]
  /\ UNCHANGED <<tfEtag, tfAllowed, tfSecond, tfPut, tfBlob, tfRow, tfChange, tfHeld>>

\* A read conditional on the ETag of stat is refused after an overwrite.
ReadPermitted == tfEtag => tfBlob = tfRead.etag

ReadRefused ==
  /\ tfRead.pc = "open" /\ tfBlob # 0 /\ ~ReadPermitted
  /\ tfRead' = NoRead /\ tfHeld' = AfterError(StatusOf(FileError("ConditionNotMatch")))
  /\ UNCHANGED <<tfEtag, tfAllowed, tfSecond, tfPut, tfBlob, tfRow, tfChange>>

\* into_bytes_stream(0..length): the bytes of the version opened, up to the
\* length of the one stat saw.  A shorter one breaks the stream.
OpenBlob ==
  /\ tfRead.pc = "open" /\ tfBlob # 0 /\ ReadPermitted
  /\ tfRead' = NoRead
  /\ tfHeld' = IF Length(tfBlob) < tfRead.len THEN tfHeld
               ELSE [tag |-> tfRead.row.ver, mod |-> tfRead.row.mod, body |-> tfBlob,
                     len |-> tfRead.len, asof |-> tfRead.row.ver, shared |-> FALSE]
  /\ UNCHANGED <<tfEtag, tfAllowed, tfSecond, tfPut, tfBlob, tfRow, tfChange>>

TfNext ==
  \/ SecondPasses \/ SetAllowed \/ AbortPut \/ PublishBlob
  \/ \E c \in Contents, h \in BOOLEAN : BeginPut(c, h)
  \/ \E header \in DavHeaders, c \in Contents : DavPut(header, c)
  \/ \E b \in BOOLEAN : BeginDelete(b) \/ CommitRow(b) \/ RemoveRow(b) \/ RemoveBlob(b)
  \/ \E by \in {"full", "tag", "date", "head"} : BeginRead(by)
  \/ InfoMissing \/ NotModified \/ GetInfo \/ BlobLength \/ BlobMissing
  \/ \E kind \in {"RateLimited", "Unexpected"} : ReadFails(kind)
  \/ Stat \/ ReadRefused \/ OpenBlob

TfSpec == TfInit /\ [][TfNext]_tfVars

------------------------------------------------------------------------------
\* A client that was answered 200 or 304 from a row never holds a body older
\* than that row, although row and blob are read apart while they change, unless
\* the row's validator is one an earlier row had too: the same bytes were
\* written again, or (for a date) within the same second.
HeldAtLeastAsNew ==
  tfHeld # None /\ tfHeld.body < tfHeld.asof => tfHeld.shared

\* On a backend with ETags the response is whole: its length and its bytes are
\* of one version, whatever is published between stat and read.
BodyIsWhole == tfEtag /\ tfHeld # None => tfHeld.len = Length(tfHeld.body)

\* Reads beside writes (read.rs, opendal_service.rs).
ReadsSound == TfTypeOK /\ HeldAtLeastAsNew /\ BodyIsWhole
==============================================================================
