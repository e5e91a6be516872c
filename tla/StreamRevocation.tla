--------------------------- MODULE StreamRevocation ---------------------------
(***************************************************************************)
(* How a private event stream is closed when the credential that opened it *)
(* is revoked.  Revocations commit together with a NOTIFY, on any          *)
(* instance; a listener actor of this instance forwards NOTIFYs to a       *)
(* broadcast channel of its own, and ends at the first gap; a supervisor   *)
(* starts another one for the next subscription.  A stream subscribes,     *)
(* then validates its session, then checks its receiver before each event. *)
(*                                                                         *)
(* Each stream has a credential of its own.  Actors are numbered; channel  *)
(* g is closed when actor g is over.                                       *)
(***************************************************************************)
EXTENDS Integers, Sequences, SequencesExt

CONSTANTS
    Streams,
    Others,      \* credentials without a stream here
    Capacity,    \* AUTH_REVOCATION_CHANNEL_CAPACITY
    MaxActors    \* bound on the actors started

Creds == Streams \cup Others     \* a stream names its own credential

ASSUME RevocationAssumption ==
    /\ Capacity \in Nat \ {0}
    /\ MaxActors \in Nat \ {0}
    /\ Streams \cap Others = {}

VARIABLES
    revoked,    \* credentials whose revocation is committed
    rowGone,    \* streams whose bearer was replaced by a newer one, or expired
    actor,      \* the number of the newest actor
    running,    \* it is running
    connected,  \* its connection LISTENs
    inbox,      \* NOTIFYs on their way to it
    chan,       \* chan[g]: everything actor g has sent
    rvPc,         \* the step of each stream
    rx,         \* its receiver: a channel and the next message
    opened,     \* the response has begun
    why         \* why it was closed

credVars == <<revoked, rowGone>>
listenerVars == <<actor, running, connected, inbox, chan>>
streamVars == <<rvPc, rx, opened, why>>
rvVars == <<revoked, rowGone, actor, running, connected, inbox, chan, rvPc, rx,
          opened, why>>

RvTypeOK ==
    /\ revoked \subseteq Creds /\ rowGone \subseteq Streams
    /\ actor \in 1..MaxActors
    /\ running \in BOOLEAN /\ connected \in BOOLEAN
    /\ inbox \in Seq(Creds)
    /\ chan \in [1..MaxActors -> Seq(Creds)]
    /\ rvPc \in [Streams -> {"idle", "subscribe", "validate", "check", "revalidate",
                           "emit", "closed"}]
    /\ rx \in [Streams -> [chan : 0..MaxActors, pos : Nat]]
    /\ opened \in [Streams -> BOOLEAN]
    /\ why \in [Streams -> {"none", "unavailable", "session", "revoked", "gap", "dberror"}]

\* RevocationListener::start: an actor is receiving before the first request.
RvInit ==
    /\ revoked = {} /\ rowGone = {}
    /\ actor = 1 /\ running = TRUE /\ connected = TRUE
    /\ inbox = <<>>
    /\ chan = [g \in 1..MaxActors |-> <<>>]
    /\ rvPc = [s \in Streams |-> "idle"]
    /\ rx = [s \in Streams |-> [chan |-> 0, pos |-> 0]]
    /\ opened = [s \in Streams |-> FALSE]
    /\ why = [s \in Streams |-> "none"]

-----------------------------------------------------------------------------
(* Helpers *)

\* The sender of channel g was dropped with its actor.
ChannelClosed(g) == g # actor \/ ~running

\* The channel has dropped the message the receiver is at.
Lagged(s) == rx[s].pos + Capacity <= Len(chan[rx[s].chan])

HasMessage(s) == rx[s].pos <= Len(chan[rx[s].chan])

\* AuthRevocation::matches.
Matches(m, s) == m = s

\* Mutant: a receiver that lagged goes on behind the messages it missed.
MutAfterLag == "check"

\* The session is validated again after a lag.
AfterLag == "revalidate"

\* validate_private_stream_session: this exact session row, and its grant.
SessionValid(s) == s \notin revoked \cup rowGone

StreamGoto(s, step) == rvPc' = [rvPc EXCEPT ![s] = step]
Close(s, reason) == StreamGoto(s, "closed") /\ why' = [why EXCEPT ![s] = reason]

-----------------------------------------------------------------------------
(* Credentials, on any instance *)

\* revoke_grant and the cookie signout: the NOTIFY is part of the transaction.
\* (Revoking again notifies again, and changes nothing else.)
Revoke(c) ==
    /\ c \notin revoked
    /\ revoked' = revoked \cup {c}
    /\ inbox' = IF connected THEN Append(inbox, c) ELSE inbox
    /\ UNCHANGED <<rowGone, actor, running, connected, chan, streamVars>>

\* A newer bearer replaces the session row, or it expires: no NOTIFY.
LoseSession(s) ==
    /\ s \notin rowGone
    /\ rowGone' = rowGone \cup {s}
    /\ UNCHANGED <<revoked, listenerVars, streamVars>>

-----------------------------------------------------------------------------
(* ListenerActor and Supervisor *)

Forward ==
    /\ running /\ inbox # <<>>
    /\ chan' = [chan EXCEPT ![actor] = Append(@, Head(inbox))]
    /\ inbox' = Tail(inbox)
    /\ UNCHANGED <<credVars, actor, running, connected, streamVars>>

\* The connection is lost; the actor has not noticed yet.
LoseConnection ==
    /\ connected
    /\ connected' = FALSE
    /\ UNCHANGED <<credVars, actor, running, inbox, chan, streamVars>>

\* Mutant: the connection is made again and the actor goes on.
MutEndActor ==
    /\ running /\ ~connected
    /\ connected' = TRUE
    /\ UNCHANGED <<credVars, actor, running, inbox, chan, streamVars>>

\* try_recv reports the loss or an error, or a payload does not parse.
EndActor ==
    /\ running
    /\ running' = FALSE
    /\ connected' = FALSE
    /\ inbox' = <<>>
    /\ UNCHANGED <<credVars, actor, chan, streamVars>>

NewActor == actor + 1

\* Supervisor::replace, for a subscriber: connect and LISTEN, then spawn.
Spawn ==
    /\ ~running
    /\ \E s \in Streams : rvPc[s] = "subscribe"
    /\ actor < MaxActors
    /\ actor' = NewActor
    /\ running' = TRUE
    /\ connected' = TRUE
    /\ UNCHANGED <<credVars, inbox, chan, streamVars>>

-----------------------------------------------------------------------------
(* Streams *)

\* The middleware resolves the session of a private stream's request.
Request(s) ==
    /\ rvPc[s] = "idle" /\ SessionValid(s)
    /\ StreamGoto(s, "subscribe")
    /\ UNCHANGED <<credVars, listenerVars, rx, opened, why>>

\* PendingStreamAuth::subscribe.  Without a running actor it waits for Spawn,
\* or fails: in the cooldown, or because the database cannot be reached.
Subscribe(s) ==
    /\ rvPc[s] = "subscribe"
    /\ \/ /\ running
          /\ rx' = [rx EXCEPT ![s] = [chan |-> actor, pos |-> Len(chan[actor]) + 1]]
          /\ StreamGoto(s, "validate")
          /\ UNCHANGED why
       \/ /\ ~running
          /\ Close(s, "unavailable")
          /\ UNCHANGED rx
    /\ UNCHANGED <<credVars, listenerVars, opened>>

\* validate_private_stream_session, at the start and after a lag.
Validate(s) ==
    /\ rvPc[s] \in {"validate", "revalidate"}
    /\ \/ SessionValid(s) /\ StreamGoto(s, "check") /\ UNCHANGED why
       \/ ~SessionValid(s) /\ Close(s, "session")
       \/ Close(s, "dberror")
    /\ UNCHANGED <<credVars, listenerVars, rx, opened>>

\* is_valid and next_check: one message of the receiver, a lag, or its end.
CheckMessage(s) ==
    /\ rvPc[s] = "check"
    /\ \/ /\ Lagged(s)
          /\ rx' = [rx EXCEPT ![s].pos = Len(chan[rx[s].chan]) + 1]
          /\ StreamGoto(s, AfterLag)
          /\ UNCHANGED why
       \/ /\ ~Lagged(s) /\ HasMessage(s)
          /\ Matches(chan[rx[s].chan][rx[s].pos], s)
          /\ Close(s, "revoked")
          /\ UNCHANGED rx
       \/ /\ ~Lagged(s) /\ HasMessage(s)
          /\ ~Matches(chan[rx[s].chan][rx[s].pos], s)
          /\ rx' = [rx EXCEPT ![s].pos = @ + 1]
          /\ UNCHANGED <<rvPc, why>>
       \/ /\ ~HasMessage(s) /\ ChannelClosed(rx[s].chan)
          /\ Close(s, "gap")
          /\ UNCHANGED rx
    /\ UNCHANGED <<credVars, listenerVars, opened>>

\* Nothing is pending: an event may be sent.
CheckPasses(s) ==
    /\ rvPc[s] = "check"
    /\ ~HasMessage(s) /\ ~ChannelClosed(rx[s].chan)
    /\ opened' = [opened EXCEPT ![s] = TRUE]
    /\ StreamGoto(s, "emit")
    /\ UNCHANGED <<credVars, listenerVars, rx, why>>

\* The event is sent, if there is one; the next check follows.
Emit(s) ==
    /\ rvPc[s] = "emit"
    /\ StreamGoto(s, "check")
    /\ UNCHANGED <<credVars, listenerVars, rx, opened, why>>

-----------------------------------------------------------------------------
(* Specification *)

StreamStep(s) ==
    Subscribe(s) \/ Validate(s) \/ CheckMessage(s) \/ CheckPasses(s) \/ Emit(s)

RvNext ==
    \/ \E c \in Creds : Revoke(c)
    \/ Forward \/ LoseConnection \/ EndActor \/ Spawn
    \/ \E s \in Streams : LoseSession(s) \/ Request(s) \/ StreamStep(s)

RvSpec == RvInit /\ [][RvNext]_rvVars

\* The actor runs and notices a lost connection; streams are polled.
RvFairSpec ==
    /\ RvSpec
    /\ WF_rvVars(Forward)
    /\ WF_rvVars(~connected /\ EndActor)
    /\ \A s \in Streams : WF_rvVars(StreamStep(s))

-----------------------------------------------------------------------------
(* Properties *)

\* The stream has passed its validation, and is not validating again.
Trusted(s) == rvPc[s] \in {"check", "emit"}

(***************************************************************************)
(* "The validation catches revocations committed before this subscription; *)
(* the receiver catches anything committed after it" (events.rs).  While a *)
(* revoked stream goes on, its revocation is in the receiver or on its way *)
(* there, or the actor has a gap that will close the stream: none is ever  *)
(* lost, not to a lag, a reconnection or a replacement of the actor.       *)
(***************************************************************************)
NoRevocationMissed ==
    \A s \in Streams : Trusted(s) /\ s \in revoked =>
       \/ ChannelClosed(rx[s].chan)
       \/ ~connected
       \/ s \in ToSet(inbox)
       \/ \E i \in DOMAIN chan[rx[s].chan] :
             i >= rx[s].pos /\ chan[rx[s].chan][i] = s

(***************************************************************************)
(* A private stream "closes promptly when that credential is revoked"      *)
(* (events.rs).                                                            *)
(***************************************************************************)
RevokedStreamCloses ==
    \A s \in Streams : (s \in revoked /\ rvPc[s] # "idle") ~> rvPc[s] = "closed"

(***************************************************************************)
(* A response that has begun ends only when its credential is revoked, the *)
(* listener has a gap, a validation cannot be made, or the session row is  *)
(* gone when the stream has to validate again: a burst of other            *)
(* credentials' revocations that overruns its receiver does not close it.  *)
(***************************************************************************)
BurstClosesNoOther ==
    \A s \in Streams : opened[s] /\ rvPc[s] = "closed" =>
       s \in revoked \cup rowGone \/ why[s] \in {"gap", "dberror"}

(***************************************************************************)
(* A stream is closed when its credential is revoked, and not for another  *)
(* one's revocation.                                                       *)
(***************************************************************************)
StreamsSound == RvTypeOK /\ NoRevocationMissed /\ BurstClosesNoOther
===============================================================================
