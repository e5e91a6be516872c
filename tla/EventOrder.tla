----------------------------- MODULE EventOrder -----------------------------
(* Events and the queries over the events table, shared by the event modules. *)
EXTENDS Integers, FiniteSets

CONSTANTS
    Users,
    EventPaths,
    MaxId      \* the last id of the table's sequence

ASSUME MaxIdAssumption == MaxId \in Nat

Events == [id : 1..MaxId, user : Users, path : EventPaths]

\* ORDER BY id LIMIT n.
FirstN(S, n) == {e \in S : Cardinality({f \in S : f.id <= e.id}) <= n}

\* WHERE id > cursor.
After(S, cursor) == {e \in S : e.id > cursor}

\* The lowest id of S.
IsNext(e, S) == e \in S /\ \A f \in S : e.id <= f.id

\* EventRepository::get_max_id, 0 without events.
IsMaxId(n, S) ==
    \/ n = 0 /\ S = {}
    \/ \E e \in S : n = e.id /\ \A f \in S : f.id <= n
=============================================================================
