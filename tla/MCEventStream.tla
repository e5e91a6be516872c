---------------------------- MODULE MCEventStream ----------------------------
(* Instances of EventStream for TLC. *)
EXTENDS EventStream, TLC

CONSTANTS u1, u2, p1, p2

Query(mode, perUser, limit) == [mode |-> mode, perUser |-> perUser, limit |-> limit]

LiveQueries == {Query("live", TRUE, None)}
AllModes == LiveQueries \cup {Query("live", FALSE, 2), Query("forward", TRUE, 3),
                              Query("reverse", FALSE, None)}

Beginning == {None}
BeginningOrLater == {None, 1}
==============================================================================
