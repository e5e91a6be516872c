------------------------------ MODULE Responses ------------------------------
(***************************************************************************)
(* How the SDK reads an answer and what an application learns of a failure   *)
(* (pubky-sdk/src: util.rs, errors.rs, actors/auth/relay/response_body.rs,   *)
(* bindings/js/src/js_error.rs).  A body comes in chunks and may stop at any *)
(* of them; some bodies, and all bodies of errors, are read up to a limit.   *)
(***************************************************************************)
EXTENDS Naturals, Values

CONSTANTS
  RpStatuses,     \* statuses of an answer
  RpCauses,       \* what reqwest tells of a failure: sets of "timeout", "certificate",
                  \* "connect", "body", "decode", "builder"
  BodyLimit,      \* MAX_RELAY_BODY_BYTES, MAX_INFO_BYTES
  ErrorLimits,    \* values of max_error_body_bytes
  MaxRpBytes,     \* bound on the bytes of a body
  MaxChunk        \* bound on the bytes of a chunk

VARIABLES
  rpLimit,   \* max_error_body_bytes of the client
  rpNative,  \* not a browser
  rpCall,    \* the call: [use, step, status, total, seen, kept], None before it
  rpBody,    \* bytes of the body it returned
  rpError    \* the error it returned

rpVars == <<rpLimit, rpNative, rpCall, rpBody, rpError>>

IsSuccess(status) == status \in 200..299

\* Who reads the answer: "check" only asks for its status, "json" and "exchange"
\* decode it, "relay" and "info" read it up to BodyLimit.
RpUses == {"check", "json", "exchange", "refresh", "relay", "info"}
Limited(use) == use \in {"relay", "info"}

RpInit ==
  /\ rpLimit \in ErrorLimits /\ rpNative \in BOOLEAN
  /\ rpCall = None /\ rpBody = None /\ rpError = None

------------------------------------------------------------------------------
(* Errors.                                                                    *)

TransportFailed(cause) ==
  [top |-> "Request", sub |-> "Transport", cause |-> cause, status |-> None, text |-> None]
Unexplained == [TransportFailed({}) EXCEPT !.top = "Unknown"]
DecodeJson == [TransportFailed({}) EXCEPT !.sub = "DecodeJson"]
BodyTooLarge == [TransportFailed({}) EXCEPT !.top = "Authentication", !.sub = "Validation"]
\* A request that cannot be prepared: no endpoint in a record, no URL, no signature.
PreparationFailed(top) == [TransportFailed({}) EXCEPT !.top = top, !.sub = "Prepare"]
RefreshFailed(status) ==
  [TransportFailed({}) EXCEPT !.top = "CredentialRefresh", !.sub = "Request", !.status = status]

\* The text of a server's error is its body, or the reason of its status.
Reason == [whole |-> FALSE, kept |-> 0, truncated |-> FALSE]
ServerFailed(status, text) ==
  [TransportFailed({}) EXCEPT !.sub = "Server", !.status = status, !.text = text]

\* RequestErrorKind::from_transport: a browser tells nothing of the connection.
TransportKind(cause) ==
  CASE "timeout" \in cause -> "Timeout"
    [] "timeout" \notin cause /\ rpNative /\ "certificate" \in cause -> "TlsVerification"
    [] OTHER -> IF rpNative /\ "connect" \in cause THEN "Connection"
                ELSE IF "body" \in cause THEN "Body"
                ELSE IF "decode" \in cause THEN "Decode"
                ELSE IF "builder" \in cause THEN "InvalidRequest" ELSE "Other"

KindOf(e) == CASE e.sub = "Transport"  -> TransportKind(e.cause)
               [] e.sub = "Server"     -> "Http"
               [] e.sub = "DecodeJson" -> "Decode"

\* PubkyError::request: a status is told beside its reason.
JsRequest(kind, status) == [name |-> "RequestError", reason |-> kind, status |-> status]

\* From<pubky::Error> for PubkyError: the name and the data of a JavaScript error.
JsError(e) ==
  CASE e.top = "Request" -> JsRequest(KindOf(e), e.status)
    [] e.top = "CredentialRefresh" ->
         [name |-> "CredentialRefreshError", reason |-> None, status |-> e.status]
    [] e.top = "Parse" -> [name |-> "InvalidInput", reason |-> None, status |-> None]
    [] e.top = "Pkarr" -> [name |-> "PkarrError", reason |-> None, status |-> None]
    [] OTHER -> [name |-> "AuthenticationError", reason |-> None, status |-> None]

\* redact_refresh_request_error: other errors pass unchanged.
Redacted(use, e) ==
  IF use = "refresh" /\ e.top = "Request" THEN RefreshFailed(e.status) ELSE e

------------------------------------------------------------------------------
(* A call.                                                                     *)

Fails(e) ==
  /\ rpError' = e /\ rpCall' = [rpCall EXCEPT !.step = "done"]
  /\ UNCHANGED <<rpLimit, rpNative, rpBody>>

Returns(bytes) ==
  /\ rpBody' = bytes /\ rpCall' = [rpCall EXCEPT !.step = "done"]
  /\ UNCHANGED <<rpLimit, rpNative, rpError>>

\* HomeserverFeatures::fetch gives no reason.
InfoUnknown == Fails(Unexplained)

StartCall(use) ==
  /\ rpCall = None
  /\ rpCall' = [use |-> use, step |-> "sent", status |-> None, total |-> 0, seen |-> 0, kept |-> 0]
  /\ UNCHANGED <<rpLimit, rpNative, rpBody, rpError>>

\* Nothing is sent.  An exchange and a refresh sign a proof first.
CannotPrepare(top) ==
  /\ rpCall # None /\ rpCall.step = "sent"
  /\ top = "Authentication" => rpCall.use \in {"exchange", "refresh"}
  /\ IF rpCall.use = "info" THEN InfoUnknown ELSE Fails(Redacted(rpCall.use, PreparationFailed(top)))

RequestFails(cause) ==
  /\ rpCall # None /\ rpCall.step = "sent"
  /\ IF rpCall.use = "info" THEN InfoUnknown ELSE Fails(Redacted(rpCall.use, TransportFailed(cause)))

\* The headers: whose body is not wanted is dropped with its stream, and so is
\* one that is declared to be longer than the limit.
Answered(status, total, declared) ==
  LET use == rpCall.use
      to(step) == /\ rpCall' = [rpCall EXCEPT !.step = step, !.status = status, !.total = total]
                  /\ UNCHANGED <<rpLimit, rpNative, rpBody, rpError>>
      ends(e) == /\ rpError' = e
                 /\ rpCall' = [rpCall EXCEPT !.step = "done", !.status = status, !.total = total]
                 /\ UNCHANGED <<rpLimit, rpNative, rpBody>>
  IN
  /\ rpCall # None /\ rpCall.step = "sent"
  /\ IF ~IsSuccess(status)
     THEN CASE use = "info"    -> ends(Unexplained)
            [] use = "refresh" -> ends(RefreshFailed(status))
            [] OTHER           -> IF rpLimit = 0 THEN ends(ServerFailed(status, Reason)) ELSE to("error")
     ELSE IF Limited(use) /\ declared /\ total > BodyLimit
     THEN ends(IF use = "relay" THEN BodyTooLarge ELSE Unexplained)
     ELSE to("body")

More == rpCall # None /\ rpCall.seen < rpCall.total
Gets(n, kept) == [rpCall EXCEPT !.seen = @ + n, !.kept = @ + kept]

\* read_response_body, and an unlimited read of what is decoded.
BodyChunk(n) ==
  /\ More /\ rpCall.step = "body" /\ rpCall.use # "check" /\ n <= rpCall.total - rpCall.seen
  /\ IF Limited(rpCall.use) /\ n > BodyLimit - rpCall.kept
     THEN IF rpCall.use = "relay" THEN Fails(BodyTooLarge) ELSE InfoUnknown
     ELSE rpCall' = Gets(n, n) /\ UNCHANGED <<rpLimit, rpNative, rpBody, rpError>>

BodyFails(cause) ==
  /\ rpCall # None /\ rpCall.step = "body"
  /\ CASE rpCall.use = "exchange" -> Fails(DecodeJson)
       [] rpCall.use = "refresh"  -> Fails(RefreshFailed(rpCall.status))
       [] rpCall.use = "info"     -> InfoUnknown
       [] rpCall.use = "check"    -> FALSE
       [] OTHER                   -> Fails(TransportFailed(cause))

BodyEnds ==
  /\ rpCall # None /\ rpCall.step = "body"
  /\ IF rpCall.use = "check" THEN Returns(0) ELSE rpCall.seen = rpCall.total /\ Returns(rpCall.kept)

\* read_error_message: a prefix is kept, marked when something follows it.
ErrorText(kept, truncated) == ServerFailed(rpCall.status, [whole |-> ~truncated, kept |-> kept, truncated |-> truncated])

ExceedsErrorLimit(n) == n > rpLimit - rpCall.kept

ErrorChunk(n) ==
  /\ More /\ rpCall.step = "error" /\ n <= rpCall.total - rpCall.seen
  /\ IF ExceedsErrorLimit(n) THEN Fails(ErrorText(rpLimit, TRUE))
     ELSE rpCall' = Gets(n, n) /\ UNCHANGED <<rpLimit, rpNative, rpBody, rpError>>

\* The message of a body that cannot be read is the reason of the status.
ErrorBodyFails ==
  /\ rpCall # None /\ rpCall.step = "error" /\ Fails(ServerFailed(rpCall.status, Reason))

ErrorEnds ==
  /\ rpCall # None /\ rpCall.step = "error" /\ rpCall.seen = rpCall.total
  /\ Fails(ErrorText(rpCall.kept, FALSE))

RpNext ==
  \/ \E u \in RpUses : StartCall(u)
  \/ \E top \in {"Pkarr", "Parse", "Authentication"} : CannotPrepare(top)
  \/ \E c \in RpCauses : RequestFails(c) \/ BodyFails(c)
  \/ \E s \in RpStatuses, t \in 0..MaxRpBytes, d \in BOOLEAN : Answered(s, t, d)
  \/ \E n \in 1..MaxChunk : BodyChunk(n) \/ ErrorChunk(n)
  \/ BodyEnds \/ ErrorBodyFails \/ ErrorEnds

RpSpec == RpInit /\ [][RpNext]_rpVars

------------------------------------------------------------------------------
RpCalls == [use : RpUses, step : {"sent", "body", "error", "done"}, status : RpStatuses \cup {None},
            total : Nat, seen : Nat, kept : Nat]
RpTexts == [whole : BOOLEAN, kept : Nat, truncated : BOOLEAN]
RpErrors == [top : {"Request", "Unknown", "Authentication", "CredentialRefresh", "Pkarr", "Parse"},
             sub : {"Transport", "Server", "DecodeJson", "Validation", "Request", "Prepare"},
             cause : RpCauses \cup {{}}, status : RpStatuses \cup {None}, text : RpTexts \cup {None}]

ASSUME ResponsesAssumption ==
  /\ None \notin Nat \cup RpErrors \cup RpCalls /\ RpStatuses \subseteq Nat /\ ErrorLimits \subseteq Nat
  /\ {BodyLimit, MaxRpBytes, MaxChunk} \subseteq Nat

RpTypeOK ==
  rpCall # None =>
    /\ rpCall.kept <= rpCall.seen /\ rpCall.seen <= rpCall.total
    /\ rpCall.step = "done" <=> rpBody # None \/ rpError # None

\* A body is returned whole or not at all, and the client never keeps more of it,
\* or of the text of an error, than its limit; what fits exactly is not refused.
BodiesWholeAndBounded ==
  rpCall # None =>
    /\ Limited(rpCall.use) /\ rpCall.step # "error" /\ IsSuccess(rpCall.status) => rpCall.kept <= BodyLimit
    /\ rpBody # None /\ rpCall.use # "check" => rpBody = rpCall.total
    /\ rpError # None /\ rpError.sub = "Validation" => rpCall.total > BodyLimit
    /\ rpError # None /\ rpError.sub = "Server" /\ rpError.text # Reason =>
         rpError.text = [whole |-> rpCall.total <= rpLimit,
                         kept |-> IF rpCall.total > rpLimit THEN rpLimit ELSE rpCall.total,
                         truncated |-> rpCall.total > rpLimit]

\* An application sees the status that the homeserver answered with, whatever
\* happened to the body of that answer, and no status when there was no answer.
\* The request of a refresh, which the application did not make, never fails as one of
\* its own requests; what the homeserver or the network did to it has a name of its
\* own, and only what failed before it was sent keeps the name that it has.
\* The homeserver's features are asked for without telling why they are unknown.
StatusReachesApplication ==
  rpError # None /\ rpCall.use # "info" =>
    /\ rpCall.status = None => JsError(rpError).status = None
    /\ rpCall.status # None /\ ~IsSuccess(rpCall.status) => JsError(rpError).status = rpCall.status
    /\ rpCall.use = "refresh" =>
         \/ JsError(rpError).name = "CredentialRefreshError"
         \/ rpError.sub = "Prepare" /\ JsError(rpError).name # "RequestError"

\* Bodies are bounded and whole, and failures keep their status (util.rs,
\* errors.rs, js_error.rs).
ResponsesSound == RpTypeOK /\ BodiesWholeAndBounded /\ StatusReachesApplication
==============================================================================
