------------------------------- MODULE DeepLinks -------------------------------
(***************************************************************************)
(* Deep links (pubky-sdk/src/actors/auth/deep_links): an app builds a link,   *)
(* whatever carries it may append query parameters, and the signer parses it, *)
(* perhaps to add callbacks and hand it on.  A URL is a scheme, an intent and *)
(* the sequence of its query pairs; one without a value is not written.       *)
(***************************************************************************)
EXTENDS Naturals, Sequences, FiniteSets, Values

CONSTANTS
  DlSchemes,     \* schemes a URL may have, with ones that are not ours
  DlPairs,       \* <<key, value>> that may be appended on the way
  DlMalformed,   \* values that do not decode
  KeyCaps,       \* capabilities that ask for encryption keys
  DlLinks,       \* links an app builds
  DlCallbacks,   \* callbacks that a signer attaches when it hands a link on
  MaxAppended, MaxHandovers

VARIABLES
  dlLink,      \* the link that the app built
  dlAttached,  \* history: the callbacks that were last attached to it, the app's at first
  dlUrl,       \* the URL under way
  dlGot,       \* the link that was read from it, None before, Failed when it is refused
  dlAppended, dlHandovers

dlVars == <<dlLink, dlAttached, dlUrl, dlGot, dlAppended, dlHandovers>>

------------------------------------------------------------------------------
(* Intents and their parameters.                                               *)

DEEP_LINK_SCHEMES == {"pubkyauth", "pubkyring"}

SeedExportParams   == {"secret"}
SigninParams       == {"caps", "relay", "secret"}
SignupParams       == SigninParams \cup {"hs"}
DirectSignupParams == {"hs"}
SigninGrantParams  == {"caps", "relay", "cid", "cpk"}
SignupGrantParams  == SigninGrantParams \cup {"hs"}

DlIntents == {"signin", "signup", "direct_signup", "secret_export", "signin_grant", "signup_grant"}

Required(intent) ==
  CASE intent = "signin"        -> SigninParams
    [] intent = "signup"        -> SignupParams
    [] intent = "direct_signup" -> DirectSignupParams
    [] intent = "secret_export" -> SeedExportParams
    [] intent = "signin_grant"  -> SigninGrantParams
    [] intent = "signup_grant"  -> SignupGrantParams

\* optional_query of the signup token: taken as it comes.
Optional(intent) == IF intent \in {"signup", "direct_signup", "signup_grant"} THEN {"st"} ELSE {}

IsGrant(intent) == intent \in {"signin_grant", "signup_grant"}
Callbacks == {"x-source", "x-success", "x-error", "x-cancel"}

Fields(intent) ==
  Required(intent) \cup Optional(intent) \cup Callbacks
    \cup (IF IsGrant(intent) THEN {"af", "epk", "secret"} ELSE {})
    \cup (IF intent = "signin_grant" THEN {"spk"} ELSE {})

\* What an app builds: what is required is there, and a grant has one channel.
ASSUME LinksAssumption ==
  /\ MaxAppended \in Nat /\ MaxHandovers \in Nat
  /\ \A l \in DlLinks :
       /\ l.intent \in DlIntents /\ DOMAIN l.params = Fields(l.intent)
       /\ \A key \in Required(l.intent) : l.params[key] # None
       /\ IsGrant(l.intent) => /\ l.params["af"] \in {None, "v1"}
                               /\ l.params["epk"] = None <=> l.params["secret"] # None

------------------------------------------------------------------------------
(* Parsing.                                                                    *)

ValuesOf(url, key) == {i \in DOMAIN url.query : url.query[i][1] = key /\ url.query[i][2] # None}

\* Fault: the last of several values counts.
LastQuery(url, key) ==
  LET at == ValuesOf(url, key) IN
  IF at = {} THEN None ELSE url.query[CHOOSE i \in at : \A j \in at : j <= i][2]

\* optional_query: the first value of the key.
OptionalQuery(url, key) ==
  LET at == ValuesOf(url, key) IN
  IF at = {} THEN None ELSE url.query[CHOOSE i \in at : \A j \in at : i <= j][2]

\* parse_capabilities, parse_relay, parse_secret, parse_homeserver, parse_client_id
\* and parse_client_pk
RequiredQuery(url, key) ==
  IF OptionalQuery(url, key) \in {None} \cup DlMalformed THEN Failed ELSE OptionalQuery(url, key)

\* parse_grant_approval_format: one af=v1, or none.
ApprovalFormat(url) ==
  CASE ValuesOf(url, "af") = {} -> None
    [] Cardinality(ValuesOf(url, "af")) = 1 /\ OptionalQuery(url, "af") = "v1" -> "v1"
    [] OTHER -> Failed

\* parse_expected_signer: at most one key, written in its canonical form.
ExpectedSigner(url) ==
  CASE ValuesOf(url, "spk") = {} -> None
    [] Cardinality(ValuesOf(url, "spk")) = 1 -> RequiredQuery(url, "spk")
    [] OTHER -> Failed

\* parse_grant_relay_channel: an ephemeral key or a shared secret, never both; a
\* signed approval needs the key.
RelayChannel(url, format) ==
  LET epk == OptionalQuery(url, "epk")  secret == OptionalQuery(url, "secret") IN
  IF epk \in DlMalformed \/ secret \in DlMalformed THEN Failed
  ELSE CASE epk # None /\ secret = None -> [epk |-> epk, secret |-> None]
         [] epk = None /\ secret # None /\ format = None -> [epk |-> None, secret |-> secret]
         [] OTHER -> Failed

\* XCallbackParams::from_url: callback is an old name of x-success.
Callback(url, key) ==
  IF key = "x-success" /\ OptionalQuery(url, key) = None THEN OptionalQuery(url, "callback")
  ELSE OptionalQuery(url, key)

\* DeepLinkParams::parse, with GrantApprovalFormat::validate_capabilities
ParseParams(url, intent) ==
  LET format  == ApprovalFormat(url)
      channel == RelayChannel(url, format)
      value(key) == CASE key = "spk" -> ExpectedSigner(url)
                      [] key = "af" -> format
                      [] key \in Callbacks -> Callback(url, key)
                      [] key \in Optional(intent) -> OptionalQuery(url, key)
                      [] IsGrant(intent) /\ key \in {"epk", "secret"} -> channel[key]
                      [] OTHER -> RequiredQuery(url, key)
      keys == Fields(intent)
  IN IF IsGrant(intent)
          /\ (format = Failed \/ channel = Failed
              \/ (format = None /\ OptionalQuery(url, "caps") \in KeyCaps))
     THEN Failed
     ELSE IF \E key \in keys : value(key) = Failed THEN Failed
     ELSE [key \in keys |-> value(key)]

\* DeepLink::from_str: no intent stands for a sign-in.
ParseLink(url) ==
  LET intent == IF url.intent = "" THEN "signin" ELSE url.intent IN
  IF url.scheme \notin DEEP_LINK_SCHEMES \/ ParseParams(url, intent) = Failed THEN Failed
  ELSE [scheme |-> url.scheme, intent |-> intent, params |-> ParseParams(url, intent)]

\* TypedDeepLink::to_url writes what there is; the callbacks come last.
ParamOrder == <<"caps", "relay", "secret", "hs", "st", "cid", "cpk", "af", "epk", "spk",
                "x-source", "x-success", "x-error", "x-cancel">>
Present(link, key) == key \in DOMAIN link.params /\ link.params[key] # None
ToUrl(link) ==
  [scheme |-> link.scheme, intent |-> link.intent,
   query |-> [i \in 1..14 |-> <<ParamOrder[i], IF Present(link, ParamOrder[i])
                                               THEN link.params[ParamOrder[i]] ELSE None>>]]

DlTypeOK ==
  /\ DOMAIN dlLink.params = Fields(dlLink.intent)
  /\ dlAppended <= MaxAppended /\ dlHandovers <= MaxHandovers
  /\ dlGot \notin {None, Failed} => DOMAIN dlGot.params = Fields(dlGot.intent)

DlInit ==
  /\ dlLink \in DlLinks /\ dlUrl = ToUrl(dlLink)
  /\ dlAttached = [key \in Callbacks |-> dlLink.params[key]]
  /\ dlGot = None /\ dlAppended = 0 /\ dlHandovers = 0

------------------------------------------------------------------------------
AppendPair(pair) ==
  /\ dlAppended < MaxAppended /\ dlAppended' = dlAppended + 1
  /\ dlUrl' = [dlUrl EXCEPT !.query = Append(@, pair)] /\ dlGot' = None
  /\ UNCHANGED <<dlLink, dlAttached, dlHandovers>>

\* Another app claims the scheme, or a sign-in loses its intent.
Rename(scheme) ==
  /\ dlGot = None /\ scheme # dlUrl.scheme /\ dlAppended = 0
  /\ dlUrl' = [dlUrl EXCEPT !.scheme = scheme, !.intent = IF @ = "signin" THEN "" ELSE @]
  /\ UNCHANGED <<dlLink, dlAttached, dlGot, dlAppended, dlHandovers>>

ReadLink ==
  /\ dlGot = None /\ dlGot' = ParseLink(dlUrl)
  /\ UNCHANGED <<dlLink, dlAttached, dlUrl, dlAppended, dlHandovers>>

\* TypedDeepLink::with_x_callback: all callbacks are replaced, by none where the
\* new ones have none.
WithXCallback(link, callbacks) ==
  [link EXCEPT !.params = [key \in DOMAIN @ |-> IF key \in Callbacks THEN callbacks[key] ELSE @[key]]]

\* A signer hands a link on, as it was read or with callbacks of its own.
Forward(link) ==
  /\ dlGot \notin {None, Failed} /\ dlHandovers < MaxHandovers /\ dlHandovers' = dlHandovers + 1
  /\ dlUrl' = ToUrl(link) /\ dlGot' = None /\ UNCHANGED <<dlLink, dlAppended>>
HandOn == Forward(dlGot) /\ UNCHANGED dlAttached
AttachCallbacks(callbacks) == Forward(WithXCallback(dlGot, callbacks)) /\ dlAttached' = callbacks

DlNext ==
  \/ ReadLink
  \/ \E pair \in DlPairs : AppendPair(pair)
  \/ \E scheme \in DlSchemes : Rename(scheme)
  \/ HandOn
  \/ \E callbacks \in DlCallbacks : AttachCallbacks(callbacks)

DlSpec == DlInit /\ [][DlNext]_dlVars

------------------------------------------------------------------------------
\* What the link should say of a key: what the app wrote, and of a callback what was
\* last attached.
Meant(key) == IF key \in Callbacks THEN dlAttached[key] ELSE dlLink.params[key]

\* However often a link is handed on and whatever is appended on the way, the
\* signer refuses it or reads what the app wrote, with the callbacks that were last
\* attached: only what was left out (a token, an approval format, an expected signer,
\* a callback) can be added, and the channel of the answer is the app's.  Where
\* nothing is appended nothing is added, and no callback outlives its replacement.
LinkKeepsItsMeaning ==
  dlGot \notin {None, Failed} =>
    /\ dlGot.intent = dlLink.intent
    /\ \A key \in DOMAIN dlLink.params :
         Meant(key) # None \/ key \in {"epk", "secret"} \/ dlAppended = 0 => dlGot.params[key] = Meant(key)

\* Links are read as they were written (deep_links/).
LinkSound == DlTypeOK /\ LinkKeepsItsMeaning
===============================================================================
