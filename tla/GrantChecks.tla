----------------------------- MODULE GrantChecks -----------------------------
(***************************************************************************)
(* What the homeserver verifies of a grant and of the proof that comes with *)
(* it (pubky-homeserver/src/client_server/auth/grant/{routes,service}.rs,   *)
(* crypto/ and persistence/grant.rs), at its three endpoints: exchange,     *)
(* signup and signout.  Module GrantAuth interleaves the statements of      *)
(* valid requests; here a request is one step, and its tokens are anybody's: *)
(* signed by another key, of another type, for another homeserver, or with  *)
(* times at the ends of the clock and of the columns that hold them.        *)
(***************************************************************************)
EXTENDS Integers, Sequences, FiniteSets, Values

CONSTANTS
  GcGrants,   \* [iss, signer, typ, client, root, cnf, id, iat, exp]
  GcProofs,   \* [signer, typ, aud, gid, nonce, iat]
  GcUsers, ThisHomeserver,
  RandomIds,  \* the strings of 1 to 22 base64url characters
  ClientIds,  \* the strings of 1 to 253 characters
  GcTimes, MaxI64,
  PopMaxAge, MaxSignupLifetime, TokenLifetime

VARIABLES
  gcNow,
  gcUsers,      \* accounts
  gcNonces,     \* pop_nonces: [nonce, at], at: the second of created_at
  gcRows,       \* grants: [id, user, client, cnf, root, iat, exp, revoked]
  gcSessions,   \* grant_sessions: [gid, expires, made], made: the grant of the exchange
  gcSpent       \* history: when each proof was let through

ASSUME ChecksAssumption ==
  /\ 0 \in GcTimes /\ GcTimes \subseteq Nat /\ PopMaxAge \in Nat
  /\ \A g \in GcGrants : g.iss \in GcUsers
  /\ \A p \in GcProofs : p.iat \in Nat
  /\ None \notin {"InvalidFormat", "InvalidSignature", "InvalidHeaderType",
                  "AudienceMismatch", "GrantIdMismatch", "TimestampOutOfRange"}

gcVars == <<gcNow, gcUsers, gcNonces, gcRows, gcSessions, gcSpent>>

------------------------------------------------------------------------------
(* crypto/                                                                   *)

\* RandomId::parse and ClientId::new, as the claims are read from JSON
GrantDecodes(g) == g.id \in RandomIds /\ g.client \in ClientIds
PopDecodes(p)   == p.gid \in RandomIds /\ p.nonce \in RandomIds

SignedBy(token, key) == token.signer = key

GrantTokenError(g) ==
  CASE ~GrantDecodes(g)          -> "InvalidFormat"
    [] ~SignedBy(g, g.iss)       -> "InvalidSignature"
    [] g.typ # "pubky-grant"     -> "InvalidHeaderType"
    [] OTHER                     -> None

GrantExpired(g) == g.exp <= gcNow

AbsDiff(a, b) == IF a > b THEN a - b ELSE b - a

PopError(g, p) ==
  CASE ~SignedBy(p, g.cnf) \/ ~PopDecodes(p) -> "InvalidSignature"
    [] p.typ # "pubky-pop"                -> "InvalidHeaderType"
    [] p.aud # ThisHomeserver             -> "AudienceMismatch"
    [] p.gid # g.id                       -> "GrantIdMismatch"
    [] AbsDiff(gcNow, p.iat) > PopMaxAge  -> "TimestampOutOfRange"
    [] OTHER                              -> None

\* as i64
AsI64(n) == IF n > MaxI64 THEN n - 2 * (MaxI64 + 1) ELSE n

------------------------------------------------------------------------------
(* persistence/grant.rs                                                      *)

GrantRow(g) == [id |-> g.id, user |-> g.iss, client |-> g.client, cnf |-> g.cnf, root |-> g.root,
                iat |-> AsI64(g.iat), exp |-> AsI64(g.exp), revoked |-> FALSE]

RowsWith(id) == {row \in gcRows : row.id = id}

IsRevoked(id) == \E row \in RowsWith(id) : row.revoked

RequireActive(row) == ~row.revoked /\ row.exp > gcNow

ListActiveForUser(u) == {row \in gcRows : row.user = u /\ ~row.revoked /\ row.exp > gcNow}

------------------------------------------------------------------------------
GcTypeOK ==
  /\ gcUsers \subseteq GcUsers /\ gcNow \in GcTimes
  /\ \A row, other \in gcRows : row.id = other.id => row = other

GcInit ==
  /\ gcNow = 0 /\ gcUsers = {} /\ gcNonces = {} /\ gcRows = {} /\ gcSessions = {}
  /\ gcSpent = [p \in GcProofs |-> <<>>]

\* Fault: nonces are kept for the age of a proof, not for its whole window.
HalfWindow == PopMaxAge

\* POP_NONCE_GC_THRESHOLD_SECS
NonceGcThreshold == 2 * PopMaxAge

\* What garbage_collect may leave of the nonces: all when it fails, else the younger
\* ones; of those as old as the threshold a fraction of a second decides.
LeftByCollection ==
  {gcNonces} \cup
  {{row \in gcNonces : row.at > gcNow - NonceGcThreshold} \cup edge :
     edge \in SUBSET {row \in gcNonces : row.at = gcNow - NonceGcThreshold}}

\* check_nonce_replay: the nonce is spent, whatever becomes of the request.
SpendNonce(p) ==
  \E left \in LeftByCollection :
    /\ \A row \in left : row.nonce # p.nonce
    /\ gcNonces' = left \cup {[nonce |-> p.nonce, at |-> gcNow]}

LetThrough(p) == gcSpent' = [gcSpent EXCEPT ![p] = Append(@, gcNow)]

\* require_stored_grant_matches
SameGrant(g, row) == row = [GrantRow(g) EXCEPT !.revoked = row.revoked]

\* mint_session: SessionBearer::generate, until the grant ends at the latest.
NewGrantSession(g) ==
  [gid |-> g.id, made |-> g,
   expires |-> AsI64(IF g.exp < gcNow + TokenLifetime THEN g.exp ELSE gcNow + TokenLifetime)]

\* verify_grant_and_pop, up to the nonce
ExchangeVerifies(g, p) ==
  GrantTokenError(g) = None /\ ~GrantExpired(g) /\ ~IsRevoked(g.id) /\ PopError(g, p) = None

\* POST /auth/grant/session: the grant is stored if its user exists and its id is new;
\* the session replaces the grant's old one if the stored grant is the same and active.
ExchangeGrant(g, p) ==
  /\ ExchangeVerifies(g, p) /\ SpendNonce(p) /\ LetThrough(p)
  /\ \E rows \in {IF g.iss \notin gcUsers \/ RowsWith(g.id) # {} THEN gcRows ELSE gcRows \cup {GrantRow(g)}} :
       /\ gcRows' = rows
       /\ gcSessions' = IF g.iss \in gcUsers /\ \E row \in rows : SameGrant(g, row) /\ RequireActive(row)
                        THEN {s \in gcSessions : s.gid # g.id} \cup {NewGrantSession(g)}
                        ELSE gcSessions
  /\ UNCHANGED <<gcNow, gcUsers>>

SaturatingMinus(a, b) == IF a > b THEN a - b ELSE 0

\* require_signup_client_id, require_root_capability_claim, require_short_signup_lifetime
SignupGrantError(g) ==
  CASE g.client # "pubky.signup"                            -> "InvalidSignupGrant"
    [] ~g.root                                              -> "RootCapabilityRequired"
    [] g.iat > gcNow + PopMaxAge                            -> "InvalidSignupGrant"
    [] SaturatingMinus(g.exp, g.iat) > MaxSignupLifetime    -> "InvalidSignupGrant"
    [] OTHER                                                -> None

\* verify_signup_grant_and_pop, up to the nonce
SignupVerifies(g, p) ==
  /\ GrantTokenError(g) = None /\ ~GrantExpired(g)
  /\ SignupGrantError(g) = None /\ PopError(g, p) = None

\* POST /auth/grant/signup: no grant is stored and no session opened.
SignUpWithGrant(g, p) ==
  /\ SignupVerifies(g, p) /\ SpendNonce(p) /\ LetThrough(p)
  /\ gcUsers' = gcUsers \cup {g.iss}
  /\ UNCHANGED <<gcNow, gcRows, gcSessions>>

\* signout_with_proof: also for a grant that has expired or is revoked.
SignOutWithProof(g, p) ==
  /\ GrantTokenError(g) = None /\ PopError(g, p) = None /\ SpendNonce(p) /\ LetThrough(p)
  /\ LET mine == {row \in RowsWith(g.id) : row.user = g.iss /\ row.cnf = g.cnf}
     IN /\ gcRows' = (gcRows \ mine) \cup {[row EXCEPT !.revoked = TRUE] : row \in mine}
        /\ gcSessions' = {s \in gcSessions : \A row \in mine : row.id # s.gid}
  /\ UNCHANGED <<gcNow, gcUsers>>

\* A request whose nonce is found has collected the old ones all the same.
RefuseReplay(g, p) ==
  /\ ExchangeVerifies(g, p) \/ SignupVerifies(g, p)
     \/ (GrantTokenError(g) = None /\ PopError(g, p) = None)
  /\ \E left \in LeftByCollection :
       (\E row \in left : row.nonce = p.nonce) /\ gcNonces' = left
  /\ UNCHANGED <<gcNow, gcUsers, gcRows, gcSessions, gcSpent>>

GcTick == gcNow + 1 \in GcTimes /\ gcNow' = gcNow + 1
          /\ UNCHANGED <<gcUsers, gcNonces, gcRows, gcSessions, gcSpent>>

GcNext ==
  \/ \E g \in GcGrants, p \in GcProofs :
       \/ ExchangeGrant(g, p) \/ SignUpWithGrant(g, p) \/ SignOutWithProof(g, p)
       \/ RefuseReplay(g, p)
  \/ GcTick

GcSpec == GcInit /\ [][GcNext]_gcVars

------------------------------------------------------------------------------
\* validate_active_grant_session_entity
BearerAccepted(s) == s.expires > gcNow /\ \E row \in RowsWith(s.gid) : RequireActive(row)

\* A bearer that the homeserver accepts acts for the user who signed the grant it was
\* exchanged for, with that grant's rights, and the grant is in the list from which this
\* user revokes grants: also when two users' grants have one id, at the second a grant
\* expires, and for times that do not fit the column (service.rs, persistence/grant.rs).
AcceptedIsListed ==
  \A s \in gcSessions : BearerAccepted(s) =>
    /\ s.made.signer = s.made.iss
    /\ \E row \in ListActiveForUser(s.made.iss) :
         row.id = s.gid /\ row.root = s.made.root /\ row.cnf = s.made.cnf

\* One proof is let through once, whichever of the three endpoints it is shown to and
\* whatever was collected in between; but for one let through in the very first second
\* of its window, whose nonce may be collected within the last.
ProofServesOnce ==
  \A p \in GcProofs : \A i, j \in DOMAIN gcSpent[p] : i < j =>
    gcSpent[p][i] = p.iat - PopMaxAge /\ gcSpent[p][j] = p.iat + PopMaxAge

\* Grants and proofs are accepted as the homeserver lists them (service.rs,
\* crypto/).
GrantChecksSound == GcTypeOK /\ AcceptedIsListed /\ ProofServesOnce
===============================================================================
