----------------------------- MODULE MCGrantAuth -----------------------------
(* Instances of GrantAuth for TLC. *)
EXTENDS GrantAuth, TLC

CONSTANTS c1, c2, c3, c4, i1, i2, u1, u2, u3, k1, n1, n2, n3

Grant(i, u, exp, root) == [id |-> i, user |-> u, key |-> k1, exp |-> exp, root |-> root]

Root == Grant(i1, u1, 2, TRUE)
Resigned == Grant(i1, u1, 1, TRUE)      \* the same id, other claims
Other == Grant(i2, u1, 2, FALSE)        \* another grant of the user
Foreign == Grant(i1, u2, 2, TRUE)       \* the same id, another user
Lasting == Grant(i1, u1, 6, TRUE)
Stranger == Grant(i2, u3, 6, TRUE)      \* of a user without an account
Expired == Grant(i2, u1, 0, TRUE)

AllGrants == {Root, Resigned, Other, Foreign, Lasting, Stranger, Expired}

Job(kind, g, n) == [kind |-> kind, grant |-> g, nonce |-> n, iat |-> 1]

\* Exchanges, signouts and bearer requests of one grant.  A behaviour has at
\* least one exchange, and two calls at least that are none.
RaceJobs == {Job("exchange", Root, n1), Job("exchange", Root, n2),
             Job("exchange", Resigned, n3), Job("signout", Root, n3),
             Job("use", Root, n1), Job("logout", Root, n1)}

\* Two users whose grants share an id; sessions that revoke other grants.
OwnerJobs == {Job("exchange", Root, n1), Job("exchange", Other, n2),
              Job("exchange", Foreign, n3), Job("signout", Foreign, n2),
              Job("revoke", Other, n1), Job("revoke", Root, n1)}

\* One proof presented again and again, and an expired grant among them.
Late == Job("exchange", Expired, n1)
NonceJobs == {Job(k, g, n1) : k \in {"exchange", "signout"}, g \in {Lasting, Stranger}}

AllJobs == RaceJobs \cup OwnerJobs \cup NonceJobs \cup {Late}

Race == /\ job \in [Calls -> RaceJobs]
        /\ \E c \in Calls : job[c] = Job("exchange", Root, n1)
        /\ \E c, d \in Calls : c # d /\ {job[c].kind, job[d].kind} \subseteq
                                          {"signout", "use", "logout"}
Owner == /\ job \in [Calls -> OwnerJobs]
         /\ \E c \in Calls : job[c] = Job("exchange", Root, n1)
Nonce == /\ job \in [Calls -> NonceJobs \cup {Late}]
         /\ \E c \in Calls : \A d \in Calls : job[d] = Late <=> d = c

\* The calls of a behaviour belong to one of these races.
RacesInit == (Race \/ Owner \/ Nonce) /\ Init

RacesSpec == RacesInit /\ [][Next]_vars

\* The clock runs to the end of the nonce window only where nonces are raced.
ClockBound == tick <= IF Nonce THEN 6 ELSE IF Race THEN 2 ELSE 0

CallSymmetry == Permutations(Calls)
==============================================================================
