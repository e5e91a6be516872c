------------------------------- MODULE MCClocks -------------------------------
(***************************************************************************)
(* Instances, for TLC, of the components that keep something up against a   *)
(* clock: the path locks, the cache of user quotas, and the republishing of *)
(* a user's record, by the user's devices and by the homeserver.  `part` is *)
(* chosen in the initial state; the others stay in their initial state.     *)
(***************************************************************************)
EXTENDS EntryLocks, QuotaCache, HomeserverRecord, FiniteSets, TLC

CONSTANTS t1, t2, w1, w2, r1, r2, q1, q2,
          n1, n2, d1, d2, hs1, hs2     \* DHT nodes, devices, homeservers

VARIABLE part

\* A negative Timeout parses, and so does one beyond the maximum.
ExtremeTimeouts == {-1, 9}

\* Two clients race for the lock, or two writes run under it.
TwoClientsOrTwoWrites ==
    \/ Cardinality({t \in Tokens : req[t] # "new"}) <= 1
    \/ Cardinality({w \in Writes : wr[w] # "idle"}) <= 1

\* Two devices publish, or one and the homeserver.
TwoPublishers ==
    \/ hrJob.pc = "idle"
    \/ Cardinality({d \in Devices : hrCache[d] # None \/ hrDev[d].pc # "idle"}) <= 1

ClockInit ==
    /\ part \in {"locks", "quotas", "record", "republish"}
    /\ LkInit /\ QcInit /\ HrInit /\ BrInit

ClockNext ==
    \/ part = "locks" /\ LkNext /\ UNCHANGED <<part, qcVars, hrVars, brVars>>
    \/ part = "quotas" /\ QcNext /\ UNCHANGED <<part, lkVars, hrVars, brVars>>
    \/ part = "record" /\ HrNext /\ UNCHANGED <<part, lkVars, qcVars, brVars>>
    \/ part = "republish" /\ BrNext /\ UNCHANGED <<part, lkVars, qcVars, hrVars>>

ClockSpec == ClockInit /\ [][ClockNext]_<<part, lkVars, qcVars, hrVars, brVars>>

LockSymmetry == Permutations(Tokens) \cup Permutations(Writes)
===============================================================================
