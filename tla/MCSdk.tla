-------------------------------- MODULE MCSdk --------------------------------
(***************************************************************************)
(* Instances of the components of the SDK for TLC, one of them at a time:   *)
(* `part` is chosen in the initial state, its component runs, and the others *)
(* stay in one of their initial states.                                      *)
(***************************************************************************)
EXTENDS SharedSession, AuthFlow, CookieSessions, EventReader, Transport,
        Responses, SdkStorage, GrantMaterial, DeepLinks, TLC

CONSTANTS
  t1, t2, j1, j2, j3,      \* tabs and calls
  u1, u2, h1, h2,          \* users, flow handles
  c1, c2, c3               \* holders of cookies

VARIABLE part

------------------------------------------------------------------------------
(* SharedSession: two calls in the tab that opened the session, one in another. *)

SdkTabOf  == j1 :> t1 @@ j2 :> t1 @@ j3 :> t2
SdkCallsOf == j1 :> {"save", "send"} @@ j2 :> {"send", "refresh", "signout"}
                @@ j3 :> {"restore", "remove"}

(* AuthFlow: bare and signed grants, by inbox and by link, and a cookie.      *)

Request0 == [grant |-> TRUE, signup |-> FALSE, signed |-> FALSE, link |-> FALSE,
             caps |-> {<<"app", "r">>}, expected |-> u1, delegated |-> FALSE]
SdkRequests ==
  {Request0,
   [Request0 EXCEPT !.signed = TRUE, !.expected = None, !.delegated = TRUE,
                    !.caps = {<<"root", "r">>, <<"app", "e">>}],
   [Request0 EXCEPT !.signup = TRUE, !.signed = TRUE, !.link = TRUE, !.expected = None],
   [Request0 EXCEPT !.grant = FALSE, !.expected = None]}

SdkApprovals == {{<<"app", "r">>, <<"app", "e">>}}

Stray(kind, sealed, signer, caps, keys) ==
  [id |-> 0, kind |-> kind, sealed |-> sealed, iss |-> u2, signer |-> signer,
   client |-> "app", caps |-> caps, times |-> TRUE, keys |-> keys]
SdkStrays ==
  {Stray("grant", "secret", u2, {<<"app", "r">>}, {}),
   Stray("approval", "hpke", u1, {<<"app", "e">>}, {"app"}),
   Stray("approval", "hpke", u2, {<<"root", "e">>}, {"root"})}

(* CookieSessions: a token of a user and one of a stranger.                  *)

SdkTokens == {[ts |-> 0, user |-> u1, caps |-> "rw"], [ts |-> 1, user |-> u2, caps |-> "r"]}

(* EventReader                                                               *)

Query(users, server, limit) ==
  [users |-> users, server |-> server, limit |-> limit, live |-> TRUE, reverse |-> FALSE,
   paths |-> {}, session |-> None, max |-> None, js |-> FALSE]
SdkQueries ==
  {Query(<<"u1", "u2">>, "a", None),
   [Query(<<"u1">>, None, 1) EXCEPT !.live = FALSE, !.paths = {"pub", "priv"}, !.session = "u1",
                                    !.max = 2, !.js = TRUE],
   [Query(<<"u1">>, None, 1) EXCEPT !.reverse = TRUE],
   [Query(<<"u1">>, None, 1) EXCEPT !.max = 0]}

(* Transport: one owner, a homeserver that serves by path and an older one.   *)

SdkWorlds == {[home |-> ("o" :> "a"), offers |-> ("a" :> "path" @@ "b" :> "legacy")]}

(* Responses: failures with one sign or two.                                  *)

SdkCauses == {{"timeout"}, {"timeout", "decode"}, {"certificate", "connect"}, {"connect"},
              {"body"}, {"decode"}, {"builder"}, {}}

(* GrantMaterial: overlapping scopes, a key that does not belong, a key that is *)
(* kept by the browser; clocks within and beyond the allowance.                *)

Approval(scopes, format, signer, odd) ==
  [user |-> "u", scopes |-> scopes, format |-> format, signer |-> signer, odd |-> odd]
Nested == << <<"a", "b", "">>, <<"a", "">> >>
SdkMaterial ==
  {Approval(<<>>, "bare", "local", {}), Approval(Nested, "signed", "local", {}),
   Approval(Nested, "signed", "local", {1}),
   Approval(<< <<"a", "b", "f">> >>, "signed", "delegated", {})}
SdkMaterialFiles == {<<"a", "b", "f">>, <<"a", "g">>}
Clocks(w, a) == [wallet |-> w, app |-> a, verifier |-> 0]
SdkClocks == {Clocks(0, 0), Clocks(1, 0), Clocks(0, 2)}
NothingEncoded == <<>>

(* DeepLinks: the links an app can build, with and without the optional parts, *)
(* and what can be appended to them.                                           *)

LinkValue(i, full, v1, hpke, key) ==
  CASE key = "caps" -> IF v1 THEN "keys" ELSE "rw"
    [] key = "af" -> IF v1 THEN "v1" ELSE None
    [] key = "epk" -> IF hpke THEN "e" ELSE None
    [] key = "secret" -> IF IsGrant(i) /\ hpke THEN None ELSE "s"
    [] key \in {"st", "spk", "x-success"} -> IF full THEN "first" ELSE None
    [] key \in Callbacks -> None
    [] OTHER -> "first"
SdkLinks ==
  {[scheme |-> "pubkyauth", intent |-> i,
    params |-> [key \in Fields(i) |-> LinkValue(i, f, v[1], v[2], key)]] :
     i \in {"signin", "signup", "direct_signup", "secret_export", "signin_grant", "signup_grant"},
     f \in BOOLEAN, v \in {<<FALSE, FALSE>>, <<FALSE, TRUE>>, <<TRUE, TRUE>>}}
SdkPairs == ({"caps", "secret", "hs", "st", "epk", "spk", "callback", "x-success"} \X {"other"})
              \cup {<<"af", "v1">>, <<"af", "v2">>, <<"epk", "bad">>}
SdkCallbacks == {[key \in Callbacks |-> IF key \in given THEN "signer" ELSE None] :
                   given \in {{}, {"x-cancel"}, {"x-source", "x-success"}, Callbacks}}

------------------------------------------------------------------------------
SdkParts == {"sharedSession", "authFlow", "cookies", "reader", "transport",
             "responses", "storage", "material", "links"}

\* A component that does not run starts in one state only.
SdkInit ==
  /\ part \in SdkParts
  /\ SSInit /\ AFInit /\ CkInit /\ EsInit /\ TrInit /\ RpInit /\ StInit /\ GmInit
  /\ DlInit
  /\ part # "reader" => esHome = [u \in EsUsers |-> "a"]
  /\ part # "transport" => trWasm /\ trHome = ("o" :> "a")
  /\ part # "responses" => rpNative /\ rpLimit = 0
  /\ part # "material" => gmOffset = Clocks(0, 0)
  /\ part # "links" => dlLink = CHOOSE l \in DlLinks : TRUE

\* All components but p stay as they are.
Only(p) ==
  /\ part = p /\ UNCHANGED part
  /\ IF p = "sharedSession" THEN TRUE ELSE UNCHANGED ssVars
  /\ IF p = "authFlow" THEN TRUE ELSE UNCHANGED afVars
  /\ IF p = "cookies" THEN TRUE ELSE UNCHANGED ckVars
  /\ IF p = "reader" THEN TRUE ELSE UNCHANGED esVars
  /\ IF p = "transport" THEN TRUE ELSE UNCHANGED trVars
  /\ IF p = "responses" THEN TRUE ELSE UNCHANGED rpVars
  /\ IF p = "storage" THEN TRUE ELSE UNCHANGED stVars
  /\ IF p = "material" THEN TRUE ELSE UNCHANGED gmVars
  /\ IF p = "links" THEN TRUE ELSE UNCHANGED dlVars

SdkNext ==
  \/ Only("sharedSession") /\ SSNext
  \/ Only("authFlow") /\ AFNext
  \/ Only("cookies") /\ CkNext
  \/ Only("reader") /\ EsNext
  \/ Only("transport") /\ TrNext
  \/ Only("responses") /\ RpNext
  \/ Only("storage") /\ StNext
  \/ Only("material") /\ GmNext
  \/ Only("links") /\ DlNext

SdkSpec == SdkInit /\ [][SdkNext]_<<part, ssVars, afVars, ckVars, esVars, trVars, rpVars,
                                    stVars, gmVars, dlVars>>

\* The requests of a client are alike: the first to begin is number one.  Time passes
\* over one of them.  One homeserver is also addressed by its key.
FirstRequestFirst ==
  /\ trReq[2] # None => trBegun = 2
  /\ \E r \in TrRequests : trReq[r] = None \/ trReq[r].since = trClock
  /\ \A r \in TrRequests : trReq[r] # None => trReq[r].name # "b"

\* Two requests of any kind, or three about a lock.
TwoRequestsOrLocks == stAsked = 3 => stGranted > 0 /\ stListed = {}

\* Three bearers, or two and an exchange that lost its sender.
ThreeBearersOrStray == ssLostMade = 0 \/ ssMinted <= 2

\* Two messages to one open flow, or one while two handles are open.
TwoMessagesOrFlows ==
  afPosts <= 1 \/ Cardinality({h \in Handles : afFlow[h] # None /\ afFlow[h].st = "open"}) <= 1

\* Two sessions of the SDK make calls at once.
TwoCallers == Cardinality({h \in CkHandles : ckCall[h].pc # "idle"}) <= 2

\* An event of a type the reader does not know or under a path not all queries ask
\* for, with or without events that a stream skipped; or a user that moved.
OneOddity ==
  LET places == {x \in EsServers \X (1..MaxEsEvents) : x[2] \in DOMAIN esLog[x[1]]}
      odd == {x \in places : esLog[x[1]][x[2]].kind = "MOV" \/ esLog[x[1]][x[2]].path = "priv"}
  IN /\ \A x \in odd : esLog[x[1]][x[2]].kind # "MOV" \/ esLog[x[1]][x[2]].path # "priv"
     /\ Cardinality(odd) + esMoves <= 1 /\ (esMoves = 0 \/ esSkipped = {})
==============================================================================
