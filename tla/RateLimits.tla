------------------------------ MODULE RateLimits ------------------------------
(***************************************************************************)
(* Who may send how much (pubky-homeserver/src/shared/quota,                 *)
(* client_server/middleware/rate_limiter).  A user's quota row is patched by *)
(* the administrator; bandwidth is taken one cell at a time from the limiter *)
(* of the user's (rate, burst), which the pool creates and drops while       *)
(* requests hold it.  One direction, reads or writes: the other is the same  *)
(* with columns and a pool of its own.  A limiter is a bucket of cells per   *)
(* key; a full bucket and none are the same (governor's GCRA).               *)
(***************************************************************************)
EXTENDS Integers, Sequences, FiniteSets, Values

CONSTANTS
  Inherit, Unlimited, AbsentField,  \* QuotaOverride, and an absent field of a patch
  RlUsers, RlIps,
  RlArgs,         \* flags of homeservercli users quota-set: None when not given
  Reset,          \* the flag's value "default"
  DefaultRate,    \* default_quotas.rate_read, None for no throttling
  DefaultBurst,   \* default_quotas.rate_read_burst
  IpRate,         \* unauthenticated_ip_rate_read
  RlRequests,     \* request slots
  IntMax,         \* i32::MAX
  RateUnit,       \* cells (kilobytes) per unit of the rate
  CellModulus,    \* 2^32: cells are counted in a u32
  PeriodNanos,    \* nanoseconds of the rate's time unit
  MaxTicks, MaxLimiters, MaxPatches

VARIABLES
  rlRow,      \* user -> quota columns
  rlPool,     \* (rate, burst) -> limiter the pool holds
  rlBucket,   \* limiter -> its rate and burst, and key -> cells left
  rlReq,      \* request -> the key and limiter it was given, None when idle
  rlTicks, rlPatched,
  rlIdeal,    \* history: (key, rate and burst) -> cells one limiter would have left
  rlTwice     \* history: keys with a request that held a limiter the pool dropped

\* Flags are words and numbers; a configured rate is not zero.
ASSUME RateAssumption ==
  /\ IntMax \in Nat \ {0}
  /\ \A v \in {Inherit, Unlimited, AbsentField, Reset, None} : v \notin Int
  /\ {Inherit, AbsentField} \cap {Unlimited, Reset, None} = {} /\ Inherit # AbsentField
  /\ Unlimited \notin {Reset, None} /\ Reset # None
  /\ RlArgs \subseteq [storage : Nat \cup {None, Reset, Unlimited},
                      rate : Nat \cup {None, Reset, Unlimited}, burst : Nat \cup {None, Reset}]
  /\ {DefaultRate, DefaultBurst, IpRate} \subseteq (Nat \ {0}) \cup {None}

rlVars == <<rlRow, rlPool, rlBucket, rlReq, rlTicks, rlPatched, rlIdeal, rlTwice>>

------------------------------------------------------------------------------
(* Quotas: an override is Inherit (the default), Unlimited or a number.       *)

NullQuota == [storage |-> None, rate |-> None, burst |-> None]

ToDbInt(o)   == CASE o = Inherit -> None [] o = Unlimited -> -1
                  [] OTHER -> IF o > IntMax THEN IntMax ELSE o
FromDbInt(v) == CASE v = None -> Inherit [] v = -1 -> Unlimited
                  [] OTHER -> IF v >= 0 THEN v ELSE Inherit
ToDbRate(o)   == IF o = Inherit THEN None ELSE o
FromDbRate(v) == IF v = None THEN Inherit ELSE v

FromRow(row) == [storage |-> FromDbInt(row.storage), rate |-> FromDbRate(row.rate),
                 burst |-> row.burst]
ToRow(q) == [storage |-> ToDbInt(q.storage), rate |-> ToDbRate(q.rate), burst |-> q.burst]

\* RateLimit::from_str refuses a rate of zero; one flag at least is required.
ParsedArgs(a) == (\E f \in DOMAIN a : a[f] # None) /\ a.rate # 0

\* QuotaUpdate: a flag that is not given is left out of the body, "default" is
\* null, which the patch reads as the default of the field.
FieldUpdate(arg, default) == CASE arg = None -> AbsentField [] arg = Reset -> default [] OTHER -> arg
PatchOf(a) == [storage |-> FieldUpdate(a.storage, Inherit), rate |-> FieldUpdate(a.rate, Inherit),
               burst |-> FieldUpdate(a.burst, None)]
RlPatches == {PatchOf(a) : a \in {x \in RlArgs : ParsedArgs(x)}}

\* merge: an absent field (Keep) keeps what there is.
Merge(q, patch) ==
  [f \in DOMAIN q |-> IF patch[f] = AbsentField THEN q[f] ELSE patch[f]]

\* validate: a burst needs a rate of the user's own.
ValidBurst(burst)  == burst = None \/ burst \in 1..IntMax
ValidQuota(q) == ValidBurst(q.burst) /\ (q.burst # None => q.rate \notin {Inherit, Unlimited})
ValidPatch(patch)  == patch.burst = AbsentField \/ ValidBurst(patch.burst)

Resolve(o, default) == CASE o = Inherit -> default [] o = Unlimited -> None [] OTHER -> o

\* resolve_with_defaults: what the admin API reports as effective.
EffectiveBurst(q) ==
  IF q.burst # None THEN q.burst ELSE IF q.rate = Inherit THEN DefaultBurst ELSE None

\* resolve_bandwidth_throttler: what is enforced.
EnforcedRate(q)  == Resolve(q.rate, DefaultRate)
EnforcedBurst(q) == IF q.burst # None THEN q.burst ELSE DefaultBurst

------------------------------------------------------------------------------
(* Limiters.  A burst that is not set is the rate.                           *)

\* to_governor_quota: the product wraps, the period is divided in nanoseconds,
\* and neither may be zero: expect() panics.
RateCells(r) == (r * RateUnit) % CellModulus
Panics(r) == RateCells(r) = 0 \/ PeriodNanos \div RateCells(r) = 0

Capacity(rb) == IF rb[2] = None THEN rb[1] ELSE rb[2]
RateBursts == (Nat \ {0}) \X ((Nat \ {0}) \cup {None})
RlKeys == RlUsers \cup RlIps

NewLimiter(rb) == [rb |-> rb, left |-> [k \in RlKeys |-> Capacity(rb)]]

\* user_quotas: NULL inherits, -1 is unlimited.
QuotaRow == [storage : {None, -1} \cup (0..IntMax), rate : {None, Unlimited} \cup (Nat \ {0}),
             burst : {None} \cup (1..IntMax)]

Limiter == [rb : RateBursts, left : [RlKeys -> Nat]]

RlTypeOK ==
  /\ rlRow \in [RlUsers -> QuotaRow]
  /\ rlBucket \in Seq(Limiter)
  /\ \A l \in DOMAIN rlBucket, k \in RlKeys : rlBucket[l].left[k] <= Capacity(rlBucket[l].rb)
  /\ rlPool \in [DOMAIN rlPool -> DOMAIN rlBucket]
  /\ \A rb \in DOMAIN rlPool : rlBucket[rlPool[rb]].rb = rb
  /\ rlReq \in [RlRequests -> [key : RlKeys, limiter : DOMAIN rlBucket] \cup {None}]
  /\ rlIdeal \in [DOMAIN rlIdeal -> Int]
  /\ DOMAIN rlIdeal \cup rlTwice \subseteq RlKeys \X RateBursts

RlInit ==
  /\ rlRow = [u \in RlUsers |-> NullQuota] /\ rlPool = <<>> /\ rlBucket = <<>>
  /\ rlReq = [r \in RlRequests |-> None] /\ rlTicks = 0 /\ rlPatched = 0
  /\ rlIdeal = <<>> /\ rlTwice = {}

\* PATCH /users/{pubkey}/quota: the merged quota is validated as a whole.
PatchQuotaRow(u, patch) ==
  /\ rlPatched < MaxPatches /\ rlPatched' = rlPatched + 1
  /\ ValidPatch(patch)
  /\ LET q == Merge(FromRow(rlRow[u]), patch)
     IN ValidQuota(q) /\ rlRow' = [rlRow EXCEPT ![u] = ToRow(q)]
  /\ UNCHANGED <<rlPool, rlBucket, rlReq, rlTicks, rlIdeal, rlTwice>>

Held(k, rb) == {r \in RlRequests : /\ rlReq[r] # None /\ rlReq[r].key = k
                                   /\ rlBucket[rlReq[r].limiter].rb = rb}

\* LimiterPool::get_or_create, under the shard lock of the map.
Throttle(r, k, rb) ==
  LET id == Len(rlBucket) + 1 IN
  /\ rlReq[r] = None
  /\ IF rb \in DOMAIN rlPool
     THEN rlReq' = [rlReq EXCEPT ![r] = [key |-> k, limiter |-> rlPool[rb]]]
          /\ UNCHANGED <<rlPool, rlBucket>>
     ELSE /\ id <= MaxLimiters /\ ~Panics(rb[1])
          /\ rlBucket' = Append(rlBucket, NewLimiter(rb))
          /\ rlPool' = [x \in DOMAIN rlPool \cup {rb} |-> IF x = rb THEN id ELSE rlPool[x]]
          /\ rlReq' = [rlReq EXCEPT ![r] = [key |-> k, limiter |-> id]]
  /\ rlIdeal' = IF <<k, rb>> \in DOMAIN rlIdeal THEN rlIdeal
                ELSE [x \in DOMAIN rlIdeal \cup {<<k, rb>>} |->
                        IF x = <<k, rb>> THEN Capacity(rb) ELSE rlIdeal[x]]
  /\ UNCHANGED <<rlRow, rlTicks, rlPatched, rlTwice>>

\* An authenticated request; with neither rate nor default nothing is throttled.
UserRequest(r, u) ==
  LET q == FromRow(rlRow[u]) IN
  EnforcedRate(q) # None /\ Throttle(r, u, <<EnforcedRate(q), EnforcedBurst(q)>>)

\* ip_throttler: an anonymous request, or one of a user there is no row for.
\* Its limiter is not one of the pool; it is never dropped.
IpRequest(r, ip) == IpRate # None /\ Throttle(r, ip, <<IpRate, None>>)

\* throttle_body: one cell per kilobyte; without one the stream waits.
TakeCell(r) ==
  /\ rlReq[r] # None
  /\ LET l == rlReq[r].limiter  k == rlReq[r].key IN
     /\ rlBucket[l].left[k] > 0
     /\ rlBucket' = [rlBucket EXCEPT ![l].left[k] = @ - 1]
     /\ rlIdeal' = [rlIdeal EXCEPT ![<<k, rlBucket[l].rb>>] = @ - 1]
  /\ UNCHANGED <<rlRow, rlPool, rlReq, rlTicks, rlPatched, rlTwice>>

EndRequest(r) ==
  /\ rlReq[r] # None /\ rlReq' = [rlReq EXCEPT ![r] = None]
  /\ UNCHANGED <<rlRow, rlPool, rlBucket, rlTicks, rlPatched, rlIdeal, rlTwice>>

Refilled(left, rb) == IF left + rb[1] < Capacity(rb) THEN left + rb[1] ELSE Capacity(rb)

PeriodPasses ==
  /\ rlTicks < MaxTicks /\ rlTicks' = rlTicks + 1
  /\ rlBucket' = [l \in DOMAIN rlBucket |->
       [rlBucket[l] EXCEPT !.left =
          [k \in RlKeys |-> Refilled(rlBucket[l].left[k], rlBucket[l].rb)]]]
  /\ rlIdeal' = [x \in DOMAIN rlIdeal |-> Refilled(rlIdeal[x], x[2])]
  /\ UNCHANGED <<rlRow, rlPool, rlReq, rlPatched, rlTwice>>

\* Fault: a limiter is dropped although some key has used cells.
StillUsedByAll(l) == \A k \in RlKeys : rlBucket[l].left[k] < Capacity(rlBucket[l].rb)

\* retain_recent forgets the keys with full buckets; is_empty then means all are.
StillUsed(l) == \E k \in RlKeys : rlBucket[l].left[k] < Capacity(rlBucket[l].rb)

\* The pool's task, every minute: the limiter of the addresses is kept.
Cleanup ==
  /\ rlPool' = [rb \in {x \in DOMAIN rlPool : StillUsed(rlPool[x]) \/ x = <<IpRate, None>>} |->
                  rlPool[rb]]
  /\ rlPool' # rlPool
  /\ rlTwice' = rlTwice \cup {x \in RlKeys \X (DOMAIN rlPool \ DOMAIN rlPool') :
                               Held(x[1], x[2]) # {}}
  /\ UNCHANGED <<rlRow, rlBucket, rlReq, rlTicks, rlPatched, rlIdeal>>

RlNext ==
  \/ \E u \in RlUsers, p \in RlPatches : PatchQuotaRow(u, p)
  \/ \E r \in RlRequests :
       \/ TakeCell(r) \/ EndRequest(r)
       \/ \E u \in RlUsers : UserRequest(r, u)
       \/ \E i \in RlIps : IpRequest(r, i)
  \/ PeriodPasses \/ Cleanup

RlSpec == RlInit /\ [][RlNext]_rlVars

------------------------------------------------------------------------------
\* A key sends no more than one limiter of its rate and burst admits, although
\* the pool drops and recreates limiters, unless a request held its limiter when
\* the pool dropped it: that one and the next then admit twice the rate.
OverspendNeedsTwoLimiters ==
  \A x \in DOMAIN rlIdeal : rlIdeal[x] < 0 => x \in rlTwice

\* The burst that the admin API reports as effective is the one enforced, except
\* for a user with a rate of its own and no burst.
EffectiveIsEnforced ==
  \A u \in RlUsers : LET q == FromRow(rlRow[u]) IN
    EnforcedRate(q) # None /\ EffectiveBurst(q) # EnforcedBurst(q) => q.rate # Inherit /\ q.burst = None

------------------------------------------------------------------------------
(* Counting requests against the configured path limits (client_identity.rs,  *)
(* middleware/rate_limiter/{request_rate_limit,limiter_pool,extract_ip}.rs,   *)
(* shared/quota/{path_limit,limit_key,request_count_quota,glob_pattern}.rs).  *)

CONSTANTS
  PlUsers, PlIps,
  PathLimits,   \* [[drive.rate_limits]]: key type, kinds matched, quota, window, whitelist
  Kinds,        \* what a request asks for: its method and path
  Proxies       \* trusted header proxies, None unless identity is by header

VARIABLES
  plLeft,   \* path limit -> key -> requests left
  plLast    \* the last request: the limits that counted it, the one that refused it

plVars == <<plLeft, plLast>>

PlKeys == PlUsers \cup PlIps

PathLimit == [window : Nat, quota : Nat, key : {"ip", "user"}, kinds : SUBSET Kinds,
              whitelist : SUBSET PlKeys]
ASSUME PathLimitAssumption == PathLimits \in Seq(PathLimit) /\ None \notin PlKeys

\* The limits are sorted by window, the shortest first; sort_by_key is stable.
NoLater(i) ==
  {j \in 1..Len(PathLimits) :
     \/ PathLimits[j].window < PathLimits[i].window
     \/ PathLimits[j].window = PathLimits[i].window /\ j <= i}
Place(i) == Cardinality(NoLater(i))
EvaluationOrder ==
  [n \in 1..Len(PathLimits) |-> PathLimits[CHOOSE i \in 1..Len(PathLimits) : Place(i) = n]]

PlTypeOK ==
  /\ plLeft \in [DOMAIN EvaluationOrder -> [PlKeys -> Nat]]
  /\ \A i \in DOMAIN plLeft, k \in PlKeys : plLeft[i][k] <= EvaluationOrder[i].quota

\* A whitelist with a key of another type is refused when the limits are read.
PlInit ==
  /\ \A i \in 1..Len(PathLimits) : \A k \in PathLimits[i].whitelist :
       k \in (IF PathLimits[i].key = "ip" THEN PlIps ELSE PlUsers)
  /\ plLeft = [i \in 1..Len(PathLimits) |-> [k \in PlKeys |-> EvaluationOrder[i].quota]]
  /\ plLast = None

\* ClientIdentityAcceptor and resolve_http_header: the peer, or the one address
\* in the header that a trusted proxy sets.
Identify(peer, header) ==
  IF Proxies = None THEN peer
  ELSE IF peer \notin Proxies \/ Len(header) # 1 THEN Failed ELSE header[1]

LimitKeyOf(limit, ip, tenant) == IF limit.key = "ip" THEN ip ELSE tenant

Applies(limit, kind, key) == kind \in limit.kinds /\ key \notin limit.whitelist

\* The limits in order up to the first that refuses; each one before it has
\* counted the request.  A missing tenant or address refuses it as well.
CheckRequest(kind, ip, tenant) ==
  LET Key(i) == LimitKeyOf(EvaluationOrder[i], ip, tenant)
      Match(i) == kind \in EvaluationOrder[i].kinds
      Refuses(i) == Match(i) /\ (Key(i) = None \/
                      (Applies(EvaluationOrder[i], kind, Key(i)) /\ plLeft[i][Key(i)] = 0))
      refusing == {i \in 1..Len(PathLimits) : Refuses(i)}
      stop == IF refusing = {} THEN Len(PathLimits) + 1
              ELSE CHOOSE i \in refusing : \A j \in refusing : i <= j
      counting == {i \in 1..(stop - 1) : Match(i) /\ Applies(EvaluationOrder[i], kind, Key(i))}
  IN /\ plLeft' = [i \in DOMAIN plLeft |-> [k \in PlKeys |->
                     IF i \in counting /\ k = Key(i) THEN plLeft[i][k] - 1 ELSE plLeft[i][k]]]
     /\ plLast' = [counted |-> {EvaluationOrder[i] : i \in counting},
                   refused |-> IF refusing = {} THEN None ELSE EvaluationOrder[stop]]

Replenish(i, k) ==
  /\ plLeft[i][k] < EvaluationOrder[i].quota
  /\ plLeft' = [plLeft EXCEPT ![i][k] = @ + 1]
  /\ UNCHANGED plLast

\* The addresses in the header: none, the client's, or that of one more hop.
Headers == {<<>>} \cup {<<i>> : i \in PlIps} \cup {<<x[1], x[2]>> : x \in PlIps \X PlIps}

PlNext ==
  \/ \E kind \in Kinds, peer \in PlIps, tenant \in PlUsers \cup {None},
        header \in Headers :
       Identify(peer, header) # Failed /\ CheckRequest(kind, Identify(peer, header), tenant)
  \/ \E i \in DOMAIN plLeft, k \in PlKeys : Replenish(i, k)

PlSpec == PlInit /\ [][PlNext]_plVars

------------------------------------------------------------------------------
\* A request that a limit refuses has not been counted by one with a longer
\* window (request_rate_limit.rs:35: "Prevent a short-window rejection from
\* consuming a longer-window quota").
ShortRefusalSparesLong ==
  plLast # None /\ plLast.refused # None =>
    \A l \in plLast.counted : l.window <= plLast.refused.window

\* The limits of a user and of an address are kept: more is served than the rate
\* allows only through two limiters, the burst enforced is the one reported, and a
\* request that a short limit refuses does not use up a long one.
LimitsHold ==
  RlTypeOK /\ PlTypeOK /\ OverspendNeedsTwoLimiters /\ EffectiveIsEnforced /\ ShortRefusalSparesLong
==============================================================================
