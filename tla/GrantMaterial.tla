---------------------------- MODULE GrantMaterial ----------------------------
(***************************************************************************)
(* What an application keeps of a grant (pubky-sdk/src/actors/auth/grant/    *)
(* {credential,approval,approval_envelope,pop_signer,custom_pop}.rs,         *)
(* pubky-sdk/src/custom_pop/, pubky-common/src/encryption_keys.rs): the key  *)
(* that the grant is bound to, the encryption keys that came with the        *)
(* approval, the saved forms of both, and the proofs of possession that it   *)
(* signs for third parties, whose clocks are their own.  Signatures and key  *)
(* derivation are symbolic: a secret is its identity and the steps from it.  *)
(***************************************************************************)
EXTENDS Naturals, Sequences, FiniteSets, StoragePaths

CONSTANTS
  GmApprovals,   \* what wallets approve: user, scopes with the action "e", format,
                 \* the kind of client key, and the entries with odd secrets
  GmFiles,       \* files whose keys are derived
  GmClocks,      \* settings of the three clocks, each as its lead over the slowest
  ClockSkew,     \* DEFAULT_CUSTOM_POP_CLOCK_SKEW
  GrantLife,
  MaxGmGrants, MaxGmTime, MaxGmProofs

VARIABLES
  gmTime,
  gmOffset,    \* "wallet", "app", "verifier" -> offset of its clock
  gmGrants,    \* the approvals received, in order
  gmSession,   \* the session, None when there is none
  gmSaved,     \* saved credentials
  gmKeys,      \* client keys that still can sign
  gmHeld,      \* key bundles the application was given
  gmProof,     \* a proof being signed, or None
  gmHanded,    \* proofs that were handed out
  gmVerdict    \* the last verification, or None

gmVars == <<gmTime, gmOffset, gmGrants, gmSession, gmSaved, gmKeys, gmHeld, gmProof, gmHanded, gmVerdict>>

\* Scopes and files are paths with a segment at least.
GmNames == {""} \cup UNION {Range(p) : p \in GmFiles \cup UNION {Range(a.scopes) : a \in GmApprovals}}
GmPaths == Seq(GmNames) \ {<<>>}

ASSUME MaterialAssumption ==
  /\ {ClockSkew, GrantLife, MaxGmGrants, MaxGmTime, MaxGmProofs} \subseteq Nat
  /\ \A o \in GmClocks : o \in [{"wallet", "app", "verifier"} -> Nat]
  /\ \A f \in GmFiles : f \in GmPaths /\ IsFile(f)
  /\ \A a \in GmApprovals : a.scopes \in Seq(GmPaths)

Clock(who) == gmTime + gmOffset[who]

------------------------------------------------------------------------------
(* Key derivation.                                                           *)

\* The segments of a path: the slash at the end of a directory begins none.
Segments(p) == IF IsDirectory(p) THEN Len(p) - 1 ELSE Len(p)

\* derive_path: one step for every segment below the scope, the last one of a
\* file being of another kind.
StepsBelow(scope, p) ==
  [i \in 1..(Segments(p) - Segments(scope)) |->
     LET k == Segments(scope) + i IN <<IF k < Len(p) THEN "directory" ELSE "file", p[k]>>]

DerivePath(scope, secret, p) == [of |-> secret.of, path |-> secret.path \o StepsBelow(scope, p)]

RootSecret(user) == [of |-> user, path |-> <<>>]

FromIdentity(user, scopes) ==
  [i \in 1..Len(scopes) |-> [scope |-> scopes[i], secret |-> DerivePath(Root, RootSecret(user), scopes[i])]]

KeyOf(entry, p) == DerivePath(entry.scope, entry.secret, p)

\* derive_for_path takes the first entry that covers the path.
DeriveForPath(bundle, p) ==
  LET covering == {i \in 1..Len(bundle) : CoversPath(bundle[i].scope, p)} IN
  IF IsDirectory(p) \/ covering = {} THEN Failed
  ELSE KeyOf(bundle[CHOOSE i \in covering : \A j \in covering : i <= j], p)

\* validate_overlap_consistency
Consistent(bundle) ==
  \A i, j \in 1..Len(bundle) :
    CoversPath(bundle[i].scope, bundle[j].scope) => KeyOf(bundle[i], bundle[j].scope) = bundle[j].secret

\* The signed approval that comes with a grant: None for a bare grant, Failed when
\* its keys are not those of the grant's scopes or contradict each other.
VerifiedApproval(g) ==
  IF g.format = "bare" THEN None
  ELSE IF Range(g.scopes) = {g.bundle[i].scope : i \in 1..Len(g.bundle)} /\ Consistent(g.bundle)
  THEN g.bundle ELSE Failed

\* restore_verified_approval: the approval must hold the very grant.
RestoredApproval(approval, grant) ==
  IF approval = 0 THEN None
  ELSE IF approval = grant THEN VerifiedApproval(gmGrants[approval]) ELSE Failed

------------------------------------------------------------------------------
GmTypeOK ==
  /\ gmTime \in 0..MaxGmTime /\ Len(gmGrants) <= MaxGmGrants
  /\ gmSession # None => gmSession.grant \in 1..Len(gmGrants) /\ gmSession.keys # Failed
  /\ gmProof # None => gmProof.grant \in 1..Len(gmGrants)

GmInit ==
  /\ gmTime = 0 /\ gmOffset \in GmClocks
  /\ gmGrants = <<>> /\ gmSession = None /\ gmSaved = {} /\ gmKeys = {}
  /\ gmHeld = {} /\ gmProof = None /\ gmHanded = {} /\ gmVerdict = None

NewSession(g, keys, shared) == [grant |-> g, keys |-> keys, shared |-> shared]
GotKeys(g, keys) ==
  gmHeld' = IF keys = None THEN gmHeld ELSE gmHeld \cup {[grant |-> g, bundle |-> keys]}

\* A wallet approves: GrantApprovalEnvelope::sign, or another implementation that
\* derives some of the secrets in its own way.
Approve(a) ==
  /\ Len(gmGrants) < MaxGmGrants /\ gmProof = None
  /\ LET honest == FromIdentity(a.user, a.scopes)
         bundle == [i \in 1..Len(a.scopes) |->
                      IF i \in a.odd THEN [honest[i] EXCEPT !.secret.of = "odd"] ELSE honest[i]]
     IN gmGrants' = Append(gmGrants, [user |-> a.user, scopes |-> a.scopes, format |-> a.format,
                                      signer |-> a.signer, bundle |-> bundle, odd |-> a.odd # {},
                                      iat |-> Clock("wallet"), exp |-> Clock("wallet") + GrantLife])
  /\ gmKeys' = gmKeys \cup {Len(gmGrants) + 1}
  /\ UNCHANGED <<gmTime, gmOffset, gmSession, gmSaved, gmHeld, gmProof, gmHanded>>
  /\ gmVerdict' = None

\* The session that the approval opens (decode_text, retain_verified_approval).
OpenSession(g) ==
  /\ g \in 1..Len(gmGrants) /\ gmSession = None
  /\ LET keys == VerifiedApproval(gmGrants[g]) IN
     /\ keys # Failed
     /\ gmSession' = NewSession(g, keys, FALSE) /\ GotKeys(g, keys)
  /\ UNCHANGED <<gmTime, gmOffset, gmGrants, gmSaved, gmKeys, gmProof, gmHanded>>
  /\ gmVerdict' = None

\* StoredGrantCredential: the grant, and the approval when there is one (version 2).
StoredCredential(session) ==
  [grant |-> session.grant, approval |-> IF session.keys = None THEN 0 ELSE session.grant]

\* export_local_secret carries the approval; the state of a delegated key does not,
\* signed_approval gives it.
Save ==
  /\ gmSession # None /\ gmSaved' = gmSaved \cup {StoredCredential(gmSession)}
  /\ UNCHANGED <<gmTime, gmOffset, gmGrants, gmSession, gmKeys, gmHeld, gmProof, gmHanded>>
  /\ gmVerdict' = None

\* restore_material, and of a delegated key restore_delegated_material, to which the
\* approval is handed apart: the keys of the credential, or Failed.
RestoreMaterial(saved, approval, allowExpired) ==
  IF /\ approval = saved.approval \/ gmGrants[saved.grant].signer = "delegated"
     /\ allowExpired \/ gmGrants[saved.grant].exp > Clock("app")
  THEN RestoredApproval(approval, saved.grant) ELSE Failed

\* import_secret and import_delegated_state exchange the grant again; the shared
\* forms only rebuild the credential.
Restore(saved, approval, shared) ==
  /\ gmSession = None
  /\ LET keys == RestoreMaterial(saved, approval, shared) IN
     /\ keys # Failed
     /\ gmSession' = NewSession(saved.grant, keys, shared) /\ GotKeys(saved.grant, keys)
  /\ UNCHANGED <<gmTime, gmOffset, gmGrants, gmSaved, gmKeys, gmProof, gmHanded>>
  /\ gmVerdict' = None

\* restore_encryption_keys: offline, also after expiry.
RecoverKeys(saved) ==
  /\ \E keys \in {RestoredApproval(saved.approval, saved.grant)} :
       keys # Failed /\ GotKeys(saved.grant, keys)
  /\ UNCHANGED <<gmTime, gmOffset, gmGrants, gmSession, gmSaved, gmKeys, gmProof, gmHanded>>
  /\ gmVerdict' = None

\* The session ends, or the tab does; a shared session waits for the lease of a proof.
EndSession ==
  /\ gmSession # None /\ (gmSession.shared => gmProof = None) /\ gmSession' = None
  /\ UNCHANGED <<gmTime, gmOffset, gmGrants, gmSaved, gmKeys, gmHeld, gmProof, gmHanded>>
  /\ gmVerdict' = None

\* A delegated key leaves the browser's key store.
LoseKey(g) ==
  /\ g \in gmKeys /\ gmGrants[g].signer = "delegated" /\ gmKeys' = gmKeys \ {g}
  /\ UNCHANGED <<gmTime, gmOffset, gmGrants, gmSession, gmSaved, gmHeld, gmProof, gmHanded>>
  /\ gmVerdict' = None

------------------------------------------------------------------------------
(* Proofs.                                                                   *)

\* create_custom_pop: the grant as it is now, then the signature.
BeginProof ==
  /\ gmSession # None /\ gmProof = None /\ Cardinality(gmHanded) < MaxGmProofs
  /\ LET g == gmGrants[gmSession.grant] IN g.exp > Clock("app") /\ g.iat < g.exp
  /\ gmProof' = [grant |-> gmSession.grant, iat |-> Clock("app")]
  /\ UNCHANGED <<gmTime, gmOffset, gmGrants, gmSession, gmSaved, gmKeys, gmHeld, gmHanded>>
  /\ gmVerdict' = None

StillValid(proof) == gmGrants[proof.grant].exp > Clock("app")

\* The signature comes back: the key may be gone, and the grant expired meanwhile.
SignProof ==
  /\ gmProof # None /\ gmProof' = None
  /\ gmHanded' = IF gmProof.grant \in gmKeys /\ StillValid(gmProof)
                 THEN gmHanded \cup {gmProof} ELSE gmHanded
  /\ UNCHANGED <<gmTime, gmOffset, gmGrants, gmSession, gmSaved, gmKeys, gmHeld>>
  /\ gmVerdict' = None

\* Fault: a proof of a clock ahead is refused whatever the allowance.
NoAllowance(now, iat) == iat <= now

NotInFuture(now, iat) == iat <= now + ClockSkew

\* The signatures and the grant id of a proof that comes with grant g.
SignedFor(proof, g) == proof.grant = g

\* verify_at, for the proof of one grant presented with grant g.
Verdict(proof, g, now) ==
  CASE ~SignedFor(proof, g) -> "InvalidProofSignature"
    [] now >= gmGrants[g].exp -> "GrantExpired"
    [] ~NotInFuture(now, gmGrants[g].iat) -> "GrantNotYetValid"
    [] ~NotInFuture(now, proof.iat) -> "ProofNotYetValid"
    [] ~NotInFuture(proof.iat, gmGrants[g].iat) \/ proof.iat >= gmGrants[g].exp
         -> "ProofOutsideGrantValidity"
    [] OTHER -> "Verified"

Verify(proof, g) ==
  /\ gmVerdict' = [proof |-> proof, grant |-> g, now |-> Clock("verifier"),
                   result |-> Verdict(proof, g, Clock("verifier"))]
  /\ UNCHANGED <<gmTime, gmOffset, gmGrants, gmSession, gmSaved, gmKeys, gmHeld, gmProof, gmHanded>>

GmTick ==
  /\ gmTime < MaxGmTime /\ gmTime' = gmTime + 1
  /\ UNCHANGED <<gmOffset, gmGrants, gmSession, gmSaved, gmKeys, gmHeld, gmProof, gmHanded>>
  /\ gmVerdict' = None

GmNext ==
  \/ \E a \in GmApprovals : Approve(a)
  \/ \E g \in 1..Len(gmGrants) : OpenSession(g) \/ LoseKey(g)
  \/ Save \/ EndSession \/ BeginProof \/ SignProof \/ GmTick
  \/ \E r \in gmSaved : RecoverKeys(r)
  \/ \E r \in gmSaved, a \in 0..Len(gmGrants), shared \in BOOLEAN : Restore(r, a, shared)
  \/ \E p \in gmHanded, g \in 1..Len(gmGrants) : Verify(p, g)

GmSpec == GmInit /\ [][GmNext]_gmVars

------------------------------------------------------------------------------
\* A file has one key: every entry of a bundle that covers it derives the same one,
\* and all bundles of one user's wallet agree, whatever their scopes and however
\* they came back from storage.
FileHasOneKey ==
  \A h, k \in gmHeld, f \in GmFiles :
    /\ \A i \in 1..Len(h.bundle) :
         CoversPath(h.bundle[i].scope, f) => KeyOf(h.bundle[i], f) = DeriveForPath(h.bundle, f)
    /\ LET a == DeriveForPath(h.bundle, f)  b == DeriveForPath(k.bundle, f) IN
       /\ a # Failed /\ b # Failed /\ ~gmGrants[h.grant].odd /\ ~gmGrants[k.grant].odd
       /\ gmGrants[h.grant].user = gmGrants[k.grant].user
       => a = b

Within(a, b) == gmOffset[a] <= gmOffset[b] + ClockSkew

\* A proof that was handed out convinces every verifier until the grant expires, as
\* long as no two clocks differ by more than the allowance; presented with another
\* grant it convinces none.
ProofConvinces ==
  gmVerdict # None =>
    LET v == gmVerdict IN
    /\ v.proof.grant = v.grant /\ v.now < gmGrants[v.grant].exp
       /\ (\A a, b \in DOMAIN gmOffset : Within(a, b)) => v.result = "Verified"
    /\ v.proof.grant # v.grant => v.result # "Verified"

\* What a wallet holds for its grants (encryption_keys.rs, custom_pop.rs).
MaterialSound == GmTypeOK /\ FileHasOneKey /\ ProofConvinces
===============================================================================
