------------------------------ MODULE EventFeed ------------------------------
(***************************************************************************)
(* What one instance's event streams rely on: events are committed in the  *)
(* order of their ids, and from some id on the instance broadcasts every   *)
(* committed event once, in that order.  EventBroadcast shows that the     *)
(* event writers and PgEventListener implement this.                       *)
(***************************************************************************)
EXTENDS EventOrder, Sequences

VARIABLES
    table,          \* the committed events
    started,        \* the broadcaster has started
    lastBroadcast,  \* the id it has got to
    sent            \* everything sent to the broadcast channel

feedVars == <<table, started, lastBroadcast, sent>>

FeedInit ==
    /\ table = {}
    /\ started = FALSE
    /\ lastBroadcast = 0
    /\ sent = <<>>

\* A transaction with an event commits; ids may have been skipped.
Commit(e) ==
    /\ \A f \in table : f.id < e.id
    /\ table' = table \cup {e}
    /\ UNCHANGED <<started, lastBroadcast, sent>>

\* The broadcaster starts after the events that are there.
Start ==
    /\ ~started
    /\ started' = TRUE
    /\ IsMaxId(lastBroadcast', table)
    /\ UNCHANGED <<table, sent>>

BroadcastNext ==
    /\ started
    /\ \E e \in After(table, lastBroadcast) :
          /\ IsNext(e, After(table, lastBroadcast))
          /\ sent' = Append(sent, e)
          /\ lastBroadcast' = e.id
    /\ UNCHANGED <<table, started>>

FeedNext == (\E e \in Events : Commit(e)) \/ Start \/ BroadcastNext

FeedSpec == FeedInit /\ [][FeedNext]_feedVars

\* Every committed event is broadcast in the end.
FairFeedSpec == FeedSpec /\ WF_feedVars(BroadcastNext)
==============================================================================
