------------------------------- MODULE MCServer -------------------------------
(***************************************************************************)
(* Instances of components of the homeserver for TLC, one of them at a      *)
(* time: `part` is chosen in the initial state, its component runs, and the *)
(* others stay in one of their initial states.                              *)
(***************************************************************************)
EXTENDS Access, TenantFiles, Listing, RateLimits, Accounts, NameRepair,
        Startup, EventRequests, GrantChecks, TLC

CONSTANTS u1, u2, hs  \* keys of two users and of the homeserver

VARIABLE part

------------------------------------------------------------------------------
(* Access: paths with dot segments, encoded segments and a tenant in them.    *)

\* e_sub is the text "..%2Fpriv"
SrvDecoded == [e_priv |-> <<"priv">>, e_up |-> <<"..">>, e_sub |-> <<"..", "priv">>, e_bad |-> Failed]
Segs == {"pub", "priv", "a", "", "..", "e_priv", "e_sub"}
ShortPaths == UNION {[1..n -> Segs] : n \in 1..2}
SrvRawPaths ==
  ShortPaths \cup [1..3 -> Segs]
    \cup {<<"storage", u>> \o s : u \in {u1, u2, "a"}, s \in ShortPaths}
    \cup {<<"pub", "e_up", "priv", "a">>, <<"e_bad">>, <<"storage", "">>, <<"pub", "ctl">>,
          <<"x", "y", "..", "a">>}

Unnamed == [host |-> None, header |-> None, query |-> None]
HostOf(k, l) == [key |-> k, label |-> l]
SrvNamings ==
  {Unnamed, [Unnamed EXCEPT !.host = HostOf(u1, None)], [Unnamed EXCEPT !.host = HostOf(u1, "blog")],
   [Unnamed EXCEPT !.host = HostOf(hs, None)], [Unnamed EXCEPT !.host = HostOf(u1, None), !.header = u2],
   [Unnamed EXCEPT !.header = u1], [Unnamed EXCEPT !.query = u1, !.host = HostOf(u2, "blog")]}

CapOf(scope, acts) == [scope |-> scope, acts |-> acts]
SrvSessions ==
  {[user |-> u1, caps |-> <<CapOf(<<"priv", "a">>, {"r"}), CapOf(<<"pub", "">>, {"w"})>>],
   [user |-> u1, caps |-> <<CapOf(<<"priv", "a", "">>, {"r", "w"})>>],
   [user |-> u2, caps |-> <<RootCap>>]}
SrvStreamPaths ==
  {<<"pub", "">>, <<"priv", "">>, <<"priv", "a">>, <<"priv", "a", "">>,
   <<"pub", "..", "priv", "a">>, <<"pub", "e_sub", "a">>, <<"e_bad">>}
SrvFiles ==
  {<<"pub", "a">>, <<"priv", "a">>, <<"priv", "a", "b">>, <<"priv", "ab">>, <<"pub", "a", "b">>}
SrvCapTexts ==
  [scope : {<<"">>, <<"pub", "">>, <<"priv", "a">>, <<"priv", "a", "">>}, colons : {1},
   acts : {{"r"}, {"w"}, {"r", "w"}, {"e", "r"}}]
    \cup [scope : {<<"pub", "", "a">>, <<"">>}, colons : {1, 2}, acts : {{}, {"x"}, {"r"}}]

(* TenantFiles: a content that fits the storage left, and one that does not.  *)

SrvSize == [c1 |-> 1, c2 |-> 2]

(* Listing: a name whose encoding sorts elsewhere, directories whose order    *)
(* differs from that of their names, a name special in regular expressions.   *)

SrvLsFiles ==
  {<<"pub", "a b">>, <<"pub", "a!c">>, <<"pub", "c+", "d", "x">>, <<"pub", "d.e">>,
   <<"pub", "d", "x">>}
SrvLsOrder ==
  << <<"pub", "a b">>, <<"pub", "a!c">>, <<"pub", "a%20b">>, <<"pub", "c+", "">>,
     <<"pub", "c+", "d", "">>, <<"pub", "c+", "d", "x">>, <<"pub", "d.e">>, <<"pub", "d", "">>,
     <<"pub", "d", "x">> >>
SrvLsDirs == {<<"pub", "">>, <<"pub", "none", "">>, <<"pub", "c+", "">>}
SrvLsEncoded == <<"pub", "a b">> :> <<"pub", "a%20b">>

(* RateLimits: flags of quota-set; one limit by IP, one by user.             *)

QuotaFlags(s, r, b) == [storage |-> s, rate |-> r, burst |-> b]
SrvRlArgs ==
  {QuotaFlags(None, 1, Reset), QuotaFlags(9, None, 2), QuotaFlags(Unlimited, Unlimited, None),
   QuotaFlags(Reset, Reset, Reset), QuotaFlags(None, None, None), QuotaFlags(None, 0, None)}

LimitOf(w, q, k, kinds, white) ==
  [window |-> w, quota |-> q, key |-> k, kinds |-> kinds, whitelist |-> white]
SrvPathLimits ==
  << LimitOf(60, 2, "ip", {"get"}, {"i2"}), LimitOf(1, 1, "user", {"get", "put"}, {}) >>

(* Accounts: listings by three orders, with a limit and with the default.     *)

ListQuery(b, s, r, l) == [by |-> b, state |-> s, reverse |-> r, limit |-> l]
SrvAdQueries ==
  {ListQuery("used", "all", FALSE, 1), ListQuery("created", "on", TRUE, None),
   ListQuery("code", "off", FALSE, 1)}

(* EventRequests                                                              *)

Param(key, word, num, on) == [key |-> key, word |-> word, num |-> num, on |-> on]
SrvFqParams ==
  {Param("user", "alice", None, FALSE), Param("user", "alice", 7, FALSE),
   Param("user", "bob", 3, FALSE), Param("user", "carol", None, FALSE),
   Param("user", "bob", Failed, FALSE), Param("cursor", None, 5, FALSE),
   Param("limit", None, 0, FALSE), Param("limit", None, 3, FALSE),
   Param("live", None, None, TRUE), Param("reverse", None, None, TRUE),
   Param("path", "/priv/", None, FALSE), Param("path", Failed, None, FALSE)}

(* GrantChecks: a good grant and a good proof, and what can be wrong of each. *)

GoodGrant ==
  [iss |-> "alice", signer |-> "alice", typ |-> "pubky-grant", client |-> "app", root |-> FALSE,
   cnf |-> "c1", id |-> "g1", iat |-> 0, exp |-> 3]
SignupGrant == [GoodGrant EXCEPT !.client = "pubky.signup", !.root = TRUE, !.id = "g3", !.exp = 2]
SrvGrants ==
  {GoodGrant, [GoodGrant EXCEPT !.signer = "bob"], [GoodGrant EXCEPT !.iss = "bob", !.signer = "bob"],
   [GoodGrant EXCEPT !.exp = 15, !.id = "g2"], [GoodGrant EXCEPT !.typ = "pubky-pop"],
   [GoodGrant EXCEPT !.exp = 2, !.root = TRUE], [GoodGrant EXCEPT !.client = ""],
   [GoodGrant EXCEPT !.id = "too-long"], SignupGrant, [SignupGrant EXCEPT !.exp = 3],
   [SignupGrant EXCEPT !.iss = "bob", !.signer = "bob"]}
GoodProof ==
  [signer |-> "c1", typ |-> "pubky-pop", aud |-> "hs", gid |-> "g1", nonce |-> "n1", iat |-> 1]
SrvProofs ==
  {GoodProof, [GoodProof EXCEPT !.nonce = "n2", !.iat = 2], [GoodProof EXCEPT !.nonce = "n3", !.gid = "g3"],
   [GoodProof EXCEPT !.nonce = "n4", !.gid = "g2"], [GoodProof EXCEPT !.aud = "other"],
   [GoodProof EXCEPT !.signer = "c2"], [GoodProof EXCEPT !.typ = "jwt"], [GoodProof EXCEPT !.nonce = ""]}

------------------------------------------------------------------------------
SrvParts == {"access", "files", "listing", "rates", "limits", "accounts", "repair", "startup",
             "events", "checks"}

\* A component that does not run starts in one state only; of the repair's contents,
\* which are alike, the first entry has the first.
SrvInit ==
  /\ part \in SrvParts
  /\ AcInit /\ RlInit /\ PlInit /\ AdInit /\ GcInit
  /\ TfInit /\ (part # "files" => tfEtag)
  /\ LsInit /\ (part # "listing" => lsRows = {})
  /\ SuInit /\ (part # "startup" => suOld = 0 /\ suServer = [s \in SuServers |-> Off])
  /\ FqInit /\ (part # "events" => fqRoute = "feed")
  /\ NrInit
  /\ IF part = "repair" THEN nrRows[0] # None => nrRows[0].content = "x"
     ELSE \A n \in NrNames : nrRows[n] = None /\ nrObjects = [o \in Objects |-> None]

\* All components but p stay as they are.
Only(p) ==
  /\ part = p /\ UNCHANGED part
  /\ IF p = "access" THEN TRUE ELSE UNCHANGED acVars
  /\ IF p = "files" THEN TRUE ELSE UNCHANGED tfVars
  /\ IF p = "listing" THEN TRUE ELSE UNCHANGED lsVars
  /\ IF p = "rates" THEN TRUE ELSE UNCHANGED rlVars
  /\ IF p = "limits" THEN TRUE ELSE UNCHANGED plVars
  /\ IF p = "accounts" THEN TRUE ELSE UNCHANGED adVars
  /\ IF p = "repair" THEN TRUE ELSE UNCHANGED nrVars
  /\ IF p = "startup" THEN TRUE ELSE UNCHANGED suVars
  /\ IF p = "events" THEN TRUE ELSE UNCHANGED fqVars
  /\ IF p = "checks" THEN TRUE ELSE UNCHANGED gcVars

SrvNext ==
  \/ Only("access") /\ AcNext
  \/ Only("files") /\ TfNext
  \/ Only("listing") /\ LsNext
  \/ Only("rates") /\ RlNext
  \/ Only("limits") /\ PlNext
  \/ Only("accounts") /\ AdNext
  \/ Only("repair") /\ NrNext
  \/ Only("startup") /\ SuNext
  \/ Only("events") /\ FqNext
  \/ Only("checks") /\ GcNext

SrvSpec == SrvInit /\ [][SrvNext]_<<part, acVars, tfVars, lsVars, rlVars, plVars, adVars, nrVars,
                                    suVars, fqVars, gcVars>>

\* Two homeservers repair, or one while a user writes; and of runs and writes there
\* are three.
TwoRepairersOrWriter ==
  /\ nrWrites = 0 \/ Cardinality({r \in NrRepairers : nrRun[r] # None}) <= 1
  /\ nrRuns + nrWrites <= 3

\* Two requests change rows at once, or one while the users are listed; codes, which
\* no request for a user reads, change while the users stay.
TwoChangesOrListing ==
  /\ adList = None \/ Cardinality({s \in AdSlots : adOp[s] # None}) <= 1
  /\ adCode = <<>> \/ (adClock = 0 /\ adChanges = 0)
===============================================================================
