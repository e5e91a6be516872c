------------------------ MODULE MCFileFinalization ------------------------
(* Instances of FileFinalization for TLC. *)
EXTENDS FileFinalization, TLC

CONSTANTS o1, o2, o3, p1, p2, t1, t2

Put(p, n, t) == [kind |-> "put", path |-> p, len |-> n, token |-> t, admin |-> FALSE]
Del(p, t) == [kind |-> "delete", path |-> p, len |-> 0, token |-> t, admin |-> FALSE]
AdminPut(p, n) == [Put(p, n, None) EXCEPT !.admin = TRUE]

\* One path: writes and deletes, with and without a lock token, racing at the
\* object store.
StoreJobs == {Put(p1, 1, t) : t \in Tokens \cup {None}}
             \cup {Del(p1, t) : t \in Tokens \cup {None}}

\* Two paths of different sizes, an administrator among the writers.
AccountJobs == {Put(p, n, None) : p \in Paths, n \in {0, 2}} \cup
               {Del(p1, None), AdminPut(p2, 2)}

Unlimited == {None}
Limits == {None, 5}
NoCollisions == {}

FolderAndFile == {<<p1, p2>>, <<p2, p1>>}

OpSymmetry == Permutations(Ops)
OpTokenSymmetry == Permutations(Ops) \cup Permutations(Tokens)
===========================================================================
