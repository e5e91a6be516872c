------------------------------- MODULE AuthFlow -------------------------------
(***************************************************************************)
(* An authorization request and its approval: the app's flow handle and its *)
(* background listener, the relay channel, and the signer.  Modelled from    *)
(* pubky-sdk/src/actors/auth/{grant,cookie,relay}, signer/auth.rs and the    *)
(* browser bindings of the flows.  A capability is a <<scope, action>>; a    *)
(* message is what its decryption and decoding yield.                        *)
(***************************************************************************)
EXTENDS Naturals, FiniteSets, Values

CONSTANTS
  Requests,    \* the requests an app may start
  Identities,  \* keys of users; each has a signer
  Approvals,   \* sets of capabilities a user may select
  Strays,      \* messages that signers of other versions may post
  Handles,     \* flow handles: the first one, and those resumed from its state
  First,
  MaxPosts     \* bound on the messages posted to the channel

VARIABLES
  afRequest,   \* the pending request, None before the flow starts
  afFlow,      \* per handle: the flow, its listener and the call in progress
  afBox,       \* the message the relay holds for the channel
  afPosts,     \* messages posted so far
  afExcused,   \* a message expired at the relay, went with a dropped handle, or was
               \* lost by a link channel
  afTaken,     \* messages a call of the app took
  afSaved,     \* the state saved to resume the flow, None or the key it holds
  afKey        \* the browser's key store still has the delegated key

afVars == <<afRequest, afFlow, afBox, afPosts, afExcused, afTaken, afSaved, afKey>>

MaxFailures == 3

NewFlow == [st |-> "open", lis |-> "poll", fails |-> 0, hand |-> None, rx |-> None,
            call |-> None, approval |-> None, session |-> None]

AFInit ==
  /\ afRequest = None /\ afFlow = [h \in Handles |-> None]
  /\ afBox = None /\ afPosts = 0 /\ afExcused = FALSE /\ afTaken = {}
  /\ afSaved = None /\ afKey = FALSE

------------------------------------------------------------------------------
(* Capabilities and messages.                                               *)

\* Fault: the scopes are not compared, only the actions.
AnyScope(requested, scope) == TRUE

ScopeCoversPath(requested, scope) == requested = "root" \/ requested = scope

\* select_capabilities: every approved action is covered by one request.
Covered(approved, requested) ==
  \A c \in approved : \E r \in requested : ScopeCoversPath(r[1], c[1]) /\ r[2] = c[2]

GrantsEncryptionKeys(caps) == {c[1] : c \in {x \in caps : x[2] = "e"}}

\* validate_capabilities: a bare grant cannot ask for keys.
ValidFormat(signed, caps) == signed \/ GrantsEncryptionKeys(caps) = {}

\* How the relay body is encrypted: to the app's temporary key for a signed
\* approval, with the secret in the link otherwise.
Channel(req) == IF req.signed THEN "hpke" ELSE "secret"

\* GrantClaims and, for af=v1, the envelope that signs them with the keys.
BuildGrant(req, k, caps, id) ==
  [id |-> id, kind |-> IF req.signed THEN "approval" ELSE "grant", sealed |-> Channel(req),
   iss |-> k, signer |-> k, client |-> "app", caps |-> caps, times |-> TRUE,
   keys |-> IF req.signed THEN GrantsEncryptionKeys(caps) ELSE {}]

\* The legacy token names neither the client nor the request.
BuildToken(k, caps, id) ==
  [id |-> id, kind |-> "token", sealed |-> "secret", iss |-> k, signer |-> k,
   client |-> None, caps |-> caps, times |-> TRUE, keys |-> {}]

\* GrantApproval::decode: a bare grant is taken unverified, the homeserver will
\* verify it; an envelope is verified and its keys are those the grant names.
DecodeGrant(req, m) ==
  IF req.signed
  THEN m.kind = "approval" /\ m.signer = m.iss /\ m.keys = GrantsEncryptionKeys(m.caps)
  ELSE m.kind = "grant"

\* decode_and_validate_approval: the approval answers this very request.
ValidApproval(req, m) ==
  /\ m.sealed = Channel(req)
  /\ DecodeGrant(req, m)
  /\ m.client = "app"
  /\ req.expected # None => m.iss = req.expected
  /\ m.times
  /\ Covered(m.caps, req.caps)

\* AuthToken::verify
ValidToken(m) == m.kind = "token" /\ m.signer = m.iss /\ m.times

Decodes(req, m) == IF req.grant THEN ValidApproval(req, m) ELSE ValidToken(m)

\* Everything that may be posted to the channel.
Messages ==
  {BuildGrant(req, k, caps, i) : req \in Requests, k \in Identities, caps \in Approvals, i \in 1..MaxPosts}
  \cup {BuildToken(k, caps, i) : k \in Identities, caps \in Approvals, i \in 1..MaxPosts}
  \cup {[m EXCEPT !.id = i] : m \in Strays, i \in 1..MaxPosts}

Flows ==
  [st : {"open", "taken", "dropped"}, lis : {"poll", "ack", "ended"}, fails : 0..MaxFailures,
   hand : Messages \cup {None}, rx : Messages \cup {None, Failed}, call : {None, "await", "try"},
   approval : Messages \cup {None}, session : Messages \cup {None}]

\* Whatever is posted has the fields of a message, and a bare grant has no keys.
ASSUME FlowAssumption ==
  /\ MaxPosts \in Nat /\ First \in Handles
  /\ None \notin Requests /\ None \notin Flows /\ {None, Failed} \cap Messages = {}
  /\ None \notin {Failed, "local", "delegated"}
  /\ \A req \in Requests : {req.grant, req.signed} \subseteq BOOLEAN
  /\ \A m \in Strays :
       /\ m = [id |-> m.id, kind |-> m.kind, sealed |-> m.sealed, iss |-> m.iss,
               signer |-> m.signer, client |-> m.client, caps |-> m.caps, times |-> m.times,
               keys |-> m.keys]
       /\ m.kind = "grant" => m.keys = {}

AFTypeOK ==
  /\ afRequest \in Requests \cup {None} /\ afFlow \in [Handles -> Flows \cup {None}]
  /\ afBox \in Messages \cup {None} /\ afPosts \in 0..MaxPosts
  /\ afExcused \in BOOLEAN /\ afTaken \subseteq 1..MaxPosts
  /\ afSaved \in {None, "local", "delegated"} /\ afKey \in BOOLEAN

------------------------------------------------------------------------------
(* The app: the flow and its listener.                                      *)

\* The listener starts with the flow, and all of it hangs on one request.
OpenFlow(req) ==
  /\ afRequest = None
  /\ afRequest' = req
  /\ afFlow' = [afFlow EXCEPT ![First] = NewFlow]
  /\ UNCHANGED <<afBox, afPosts, afExcused, afTaken, afSaved>>

\* GrantAuthFlowBuilder::start checks the request before anything is sent.
GrantRequestValid(req) ==
  /\ ValidFormat(req.signed, req.caps)
  /\ req.expected # None => ~req.signup

StartGrant(req) ==
  /\ req.grant /\ ~req.delegated /\ GrantRequestValid(req)
  /\ OpenFlow(req) /\ UNCHANGED afKey

\* ensure_key: the delegated key is in the browser's store before the link is out.
EnsureKey == afKey' = TRUE

StartDelegated(req) ==
  /\ req.grant /\ req.delegated /\ GrantRequestValid(req)
  /\ OpenFlow(req) /\ EnsureKey

StartCookie(req) == ~req.grant /\ OpenFlow(req) /\ UNCHANGED afKey

\* The browser key store loses its records.
ClearKeys ==
  /\ afKey /\ afKey' = FALSE
  /\ UNCHANGED <<afRequest, afFlow, afBox, afPosts, afExcused, afTaken, afSaved>>

Live(h) == afFlow[h] # None /\ afFlow[h].st # "dropped"
Set(h, f) == afFlow' = [afFlow EXCEPT ![h] = f]

\* The listener ends and hands its result over.
Deliver(f, result) == [f EXCEPT !.lis = "ended", !.hand = None, !.rx = result, !.fails = 0]

Polling(h) == Live(h) /\ afFlow[h].lis = "poll"

\* No message in time.  Only the inbox channel forgets earlier failures.
InboxTimeout(h) ==
  /\ Polling(h) /\ ~afRequest.link /\ afFlow[h].fails > 0
  /\ Set(h, [afFlow[h] EXCEPT !.fails = 0])
  /\ UNCHANGED <<afRequest, afBox, afPosts, afExcused, afTaken, afSaved, afKey>>

\* A failed poll is repeated, and the third failure in a row ends the flow.
Failing(f) ==
  IF f.fails + 1 >= MaxFailures THEN Deliver(f, Failed) ELSE [f EXCEPT !.fails = @ + 1]

PollFails(h) ==
  /\ Polling(h)
  /\ Set(h, Failing(afFlow[h]))
  /\ UNCHANGED <<afRequest, afBox, afPosts, afExcused, afTaken, afSaved, afKey>>

\* A link channel's answer fails or times out, which is no failure, after the relay
\* handed the message over: the next poll does not find it again.
LinkPollLost(h, timeout) ==
  /\ Polling(h) /\ afRequest.link /\ afBox # None
  /\ afBox' = None /\ afExcused' = TRUE
  /\ Set(h, IF timeout THEN afFlow[h] ELSE Failing(afFlow[h]))
  /\ UNCHANGED <<afRequest, afPosts, afTaken, afSaved, afKey>>

\* Encrypted channels open the body with the secret in the link; the body of a
\* signed approval is opened later, with the temporary key.
Opens(req, m) == req.signed \/ m.sealed = "secret"

\* From the inbox a message can be read again until it is acknowledged.  A body
\* that is cut off, too large or of another secret ends the poll without that.
ReceiveInbox(h, readable) ==
  /\ Polling(h) /\ ~afRequest.link /\ afBox # None
  /\ Set(h, IF readable /\ Opens(afRequest, afBox)
            THEN [afFlow[h] EXCEPT !.lis = "ack", !.hand = afBox]
            ELSE Deliver(afFlow[h], Failed))
  /\ UNCHANGED <<afRequest, afBox, afPosts, afExcused, afTaken, afSaved, afKey>>

\* A link channel hands its message over for good.
ReceiveLink(h, readable) ==
  LET opened == readable /\ Opens(afRequest, afBox) IN
  /\ Polling(h) /\ afRequest.link /\ afBox # None
  /\ afBox' = None
  /\ Set(h, Deliver(afFlow[h], IF opened THEN afBox ELSE Failed))
  /\ afExcused' = (afExcused \/ ~opened)
  /\ UNCHANGED <<afRequest, afPosts, afTaken, afSaved, afKey>>

\* DELETE at the relay, executed or not, answered or not: whatever happens to
\* it, the message in hand is delivered.
Acknowledge(h, executed) ==
  /\ Live(h) /\ afFlow[h].lis = "ack"
  /\ afBox' = IF executed THEN None ELSE afBox
  /\ Set(h, Deliver(afFlow[h], afFlow[h].hand))
  /\ UNCHANGED <<afRequest, afPosts, afExcused, afTaken, afSaved, afKey>>

\* borrow_inner: the flow is in its handle until awaitApproval takes it.
Borrowable(h) == Live(h) /\ afFlow[h].st = "open"

\* InFlightGuard: one call at a time, and none on a flow that was taken.
NotInFlight(h) == Borrowable(h) /\ afFlow[h].call = None
Call(h, f)     == Set(h, f) /\ UNCHANGED <<afRequest, afBox, afPosts, afExcused, afTaken,
                                          afSaved, afKey>>

\* awaitApproval takes the flow out of its handle, tryPollOnce borrows it.
AwaitCall(h) ==
  /\ NotInFlight(h) /\ afFlow[h].session = None
  /\ Call(h, [afFlow[h] EXCEPT !.call = "await", !.st = "taken"])

PollCall(h) ==
  /\ NotInFlight(h) /\ afFlow[h].session = None
  /\ Call(h, [afFlow[h] EXCEPT !.call = "try"])

AwaitApproval(h) == afRequest # None /\ afRequest.grant /\ AwaitCall(h)
TryPollOnce(h)   == afRequest # None /\ afRequest.grant /\ PollCall(h)

\* The cookie flow's awaitApproval, awaitToken and tryPollOnce.
CookieCall(h) == afRequest # None /\ ~afRequest.grant /\ (AwaitCall(h) \/ PollCall(h))

\* Nothing there: tryPollOnce returns none, awaitApproval goes on waiting or,
\* when the listener is gone, reports the request as expired.
NothingYet(h) ==
  LET f == afFlow[h] IN
  /\ Live(h) /\ f.call # None /\ f.approval = None /\ f.rx = None
  /\ f.call = "try" \/ f.lis = "ended"
  /\ Call(h, [f EXCEPT !.call = None])

\* The call takes the result, which no later call will see, and checks it
\* against the request.
TakeResult(h) ==
  LET f == afFlow[h] IN
  /\ Live(h) /\ f.call # None /\ f.approval = None /\ f.rx # None
  /\ Set(h, IF f.rx # Failed /\ Decodes(afRequest, f.rx)
            THEN [f EXCEPT !.rx = None, !.approval = f.rx]
            ELSE [f EXCEPT !.rx = None, !.call = None])
  /\ afTaken' = IF f.rx = Failed THEN afTaken ELSE afTaken \cup {f.rx.id}
  /\ UNCHANGED <<afRequest, afBox, afPosts, afExcused, afSaved, afKey>>

\* The approval becomes a session, or the call fails and the approval is spent.
EndCall(h, ok) ==
  LET f == afFlow[h] IN
  /\ Live(h) /\ f.approval # None
  /\ Call(h, [f EXCEPT !.call = None, !.approval = None,
                       !.session = IF ok THEN f.approval ELSE None])

\* exchange_for_credential: the issuer's homeserver is resolved and the grant is
\* exchanged with a proof of possession.
ExchangeGrant(h, ok) == afRequest # None /\ afRequest.grant /\ ~afRequest.delegated /\ EndCall(h, ok)

\* The proof is signed by the browser's key, which must be there.
ExchangeDelegated(h, ok) ==
  afRequest # None /\ afRequest.delegated /\ (ok => afKey) /\ EndCall(h, ok)

\* The token is posted for a session cookie.
ExchangeToken(h, ok) == afRequest # None /\ ~afRequest.grant /\ EndCall(h, ok)

\* The handle is dropped, or its page is closed: the listener is aborted.
DropFlow(h) ==
  LET f == afFlow[h]
      held == {f.hand, f.rx, f.approval} \ {None, Failed}
  IN /\ Live(h)
     /\ Set(h, [f EXCEPT !.st = "dropped", !.lis = "ended", !.fails = 0, !.hand = None,
                         !.rx = None, !.call = None, !.approval = None])
     /\ afExcused' = (afExcused \/ held # {})
     /\ UNCHANGED <<afRequest, afBox, afPosts, afTaken, afSaved, afKey>>

\* save_local, save_delegated: a flow that was taken cannot be saved.
SaveLocal(h) ==
  /\ Borrowable(h) /\ afRequest.grant /\ ~afRequest.delegated /\ afSaved = None
  /\ afSaved' = "local"
  /\ UNCHANGED <<afRequest, afFlow, afBox, afPosts, afExcused, afTaken, afKey>>

SaveDelegated(h) ==
  /\ Borrowable(h) /\ afRequest.delegated /\ afSaved = None
  /\ afSaved' = "delegated"
  /\ UNCHANGED <<afRequest, afFlow, afBox, afPosts, afExcused, afTaken, afKey>>

Resume(h) == afFlow[h] = None /\ Call(h, NewFlow)

\* restore: the saved keys are those of the request, and the listener starts over.
RestoreLocal(h) == afSaved = "local" /\ Resume(h)

\* restore_delegated: the key must still be in the store.
RestoreDelegated(h) == afSaved = "delegated" /\ afKey /\ Resume(h)

\* A cookie flow is resumed from its URL alone.
ResumeCookie(h) == afRequest # None /\ ~afRequest.grant /\ Resume(h)

------------------------------------------------------------------------------
(* The signer and the relay.                                                *)

\* A post replaces what the channel holds.
Post(m) == afPosts < MaxPosts /\ afPosts' = afPosts + 1 /\ afBox' = m

\* select_capabilities: capabilities beyond the request are refused before
\* anything is signed.
Selectable(caps) == afRequest # None /\ Covered(caps, afRequest.caps)

Send(m) == Post(m) /\ UNCHANGED <<afRequest, afFlow, afExcused, afTaken, afSaved, afKey>>

\* approve_auth: a grant request for another key is refused.
ApproveGrant(k, caps) ==
  /\ Selectable(caps) /\ afRequest.grant
  /\ afRequest.expected \in {None, k}
  /\ ValidFormat(afRequest.signed, caps)
  /\ Send(BuildGrant(afRequest, k, caps, afPosts + 1))

ApproveCookie(k, caps) ==
  /\ Selectable(caps) /\ ~afRequest.grant
  /\ Send(BuildToken(k, caps, afPosts + 1))

\* A signer of another version, or one that reads another link, posts here.
StrayPost(m) ==
  afRequest # None /\ Send([m EXCEPT !.id = afPosts + 1])

\* The relay keeps a message for a few minutes.
RelayExpires ==
  /\ afBox # None /\ afBox' = None /\ afExcused' = TRUE
  /\ UNCHANGED <<afRequest, afFlow, afPosts, afTaken, afSaved, afKey>>

AFNext ==
  \/ \E req \in Requests : StartGrant(req) \/ StartDelegated(req) \/ StartCookie(req)
  \/ \E h \in Handles :
       \/ InboxTimeout(h) \/ PollFails(h) \/ NothingYet(h) \/ TakeResult(h)
       \/ \E ok \in BOOLEAN : \/ ReceiveInbox(h, ok) \/ ReceiveLink(h, ok) \/ LinkPollLost(h, ok)
                              \/ Acknowledge(h, ok)
                              \/ ExchangeGrant(h, ok) \/ ExchangeDelegated(h, ok)
                              \/ ExchangeToken(h, ok)
       \/ AwaitApproval(h) \/ TryPollOnce(h) \/ CookieCall(h) \/ DropFlow(h)
       \/ SaveLocal(h) \/ SaveDelegated(h)
       \/ RestoreLocal(h) \/ RestoreDelegated(h) \/ ResumeCookie(h)
  \/ \E k \in Identities, caps \in Approvals : ApproveGrant(k, caps) \/ ApproveCookie(k, caps)
  \/ \E m \in Strays : StrayPost(m)
  \/ RelayExpires \/ ClearKeys

AFSpec == AFInit /\ [][AFNext]_afVars

------------------------------------------------------------------------------
(* Properties.                                                              *)

\* A session comes only from an approval of this request: for this client,
\* issued by the expected identity, within the requested scopes and actions, and, when
\* a signed approval was asked for, with a key for each scope of its grant that
\* carries e and for no other.  This holds whatever is posted to the channel.
ApprovalAnswersRequest ==
  \A h \in Handles : afFlow[h] # None /\ afFlow[h].session # None /\ afRequest.grant
    => LET m == afFlow[h].session IN
         /\ m.client = "app" /\ afRequest.expected \in {None, m.iss}
         /\ \A c \in m.caps : \E r \in afRequest.caps : r[2] = c[2] /\ r[1] \in {c[1], "root"}
         /\ afRequest.signed => /\ m.signer = m.iss
                                /\ m.keys = {c[1] : c \in {x \in m.caps : x[2] = "e"}}
         /\ ~afRequest.signed => m.keys = {}

\* An approval is not lost between the relay and the app: while none expired at
\* the relay, went with a dropped handle or was handed to a poll of a link channel
\* that failed, one of those posted is still at the relay, on its way through a
\* listener, or was taken by a call.  In particular nothing costs an approval on the
\* inbox channel: neither failed polls nor an acknowledgement that fails, or whose
\* answer is lost.
ApprovalSurvives ==
  afPosts > 0 /\ ~afExcused
    => \/ afBox # None \/ afTaken # {}
       \/ \E h \in Handles : afFlow[h] # None /\ {afFlow[h].hand, afFlow[h].rx} \ {None, Failed} # {}

\* The flow ends with an approval of its own request, and does not lose one
\* (grant/flow.rs, relay/http_relay_inbox_channel.rs).
FlowSound == AFTypeOK /\ ApprovalAnswersRequest /\ ApprovalSurvives
==============================================================================
