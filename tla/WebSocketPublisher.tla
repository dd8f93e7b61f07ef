------------------------- MODULE WebSocketPublisher -------------------------
(***************************************************************************)
(* FastAPIWebSocketPublisher and the /ws/events handler: one event loop in *)
(* which the handler of each connection, its sender task, the callbacks    *)
(* publish has scheduled, and the HTTP handlers that publish take turns at *)
(* their awaits.  Every action is what runs between two awaits.            *)
(*                                                                         *)
(* A notification is its number.  The pong answers of the handler share    *)
(* the socket with the sender but no state, and are left out.  MaxMessages *)
(* bounds how many notifications are published.                            *)
(***************************************************************************)
EXTENDS Naturals, Sequences, FiniteSets, SequencesExt

CONSTANTS
    Connections,   \* the WebSocket objects; a client that reconnects gets another
    QueueSize,
    MaxMessages

\* Both positive: asyncio takes a maxsize of 0 for "no limit", and the service
\* keeps the default of 100.
ASSUME SizesAssumption ==
    /\ QueueSize \in Nat \ {0}
    /\ MaxMessages \in Nat

VARIABLES
    published,   \* how many notifications were published
    phase,       \* where the handler of each connection is
    pending,     \* the _enqueue callbacks the loop still has to run
    queue,       \* the asyncio.Queue of each connection
    sender,      \* the sender task of each connection
    sending,     \* the notification the sender has taken, if any
    delivered,   \* what each client received
    joined       \* how many were published when the connection was registered

vars == <<published, phase, pending, queue, sender, sending, delivered, joined>>

Phases == {"new", "accepting", "open", "closing", "done"}

SenderStates == {"none", "waiting", "sending", "stopped", "failed"}

\* The keys of _connections.
Registered == {c \in Connections : phase[c] = "open"}

Init ==
    /\ published = 0
    /\ phase = [c \in Connections |-> "new"]
    /\ pending = [c \in Connections |-> <<>>]
    /\ queue = [c \in Connections |-> <<>>]
    /\ sender = [c \in Connections |-> "none"]
    /\ sending = [c \in Connections |-> <<>>]
    /\ delivered = [c \in Connections |-> <<>>]
    /\ joined = [c \in Connections |-> 0]

----------------------------------------------------------------------------

\* connect up to the await of accept.
Connect(c) ==
    /\ phase[c] = "new"
    /\ phase' = [phase EXCEPT ![c] = "accepting"]
    /\ UNCHANGED <<published, pending, queue, sender, sending, delivered, joined>>

\* The rest of connect: a queue, a sender task, an entry in _connections.
Register(c) ==
    /\ phase[c] = "accepting"
    /\ phase' = [phase EXCEPT ![c] = "open"]
    /\ sender' = [sender EXCEPT ![c] = "waiting"]
    /\ joined' = [joined EXCEPT ![c] = published]
    /\ UNCHANGED <<published, pending, queue, sending, delivered>>

\* accept raises; disconnect then finds nothing to remove.
AcceptFails(c) ==
    /\ phase[c] = "accepting"
    /\ phase' = [phase EXCEPT ![c] = "done"]
    /\ UNCHANGED <<published, pending, queue, sender, sending, delivered, joined>>

Publish ==
    /\ published < MaxMessages
    /\ published' = published + 1
    /\ pending' = [c \in Connections |->
                      IF c \in Registered THEN Append(pending[c], published + 1)
                                          ELSE pending[c]]
    /\ UNCHANGED <<phase, queue, sender, sending, delivered, joined>>

\* Mutated forms of _enqueue: the queue has no limit; a full one keeps what it
\* has; a full one is emptied.
EnqueueUnbounded(c) ==
    /\ pending[c] # <<>>
    /\ queue' = [queue EXCEPT ![c] = Append(@, Head(pending[c]))]
    /\ pending' = [pending EXCEPT ![c] = Tail(@)]
    /\ UNCHANGED <<published, phase, sender, sending, delivered, joined>>

EnqueueDroppingNewest(c) ==
    /\ pending[c] # <<>>
    /\ queue' = [queue EXCEPT ![c] =
           IF Len(@) = QueueSize THEN @ ELSE Append(@, Head(pending[c]))]
    /\ pending' = [pending EXCEPT ![c] = Tail(@)]
    /\ UNCHANGED <<published, phase, sender, sending, delivered, joined>>

EnqueueClearing(c) ==
    /\ pending[c] # <<>>
    /\ queue' = [queue EXCEPT ![c] =
           IF Len(@) = QueueSize THEN <<Head(pending[c])>>
                                 ELSE Append(@, Head(pending[c]))]
    /\ pending' = [pending EXCEPT ![c] = Tail(@)]
    /\ UNCHANGED <<published, phase, sender, sending, delivered, joined>>

\* _enqueue; it runs even if the connection has been removed meanwhile.
Enqueue(c) ==
    /\ pending[c] # <<>>
    /\ queue' = [queue EXCEPT ![c] =
           Append(IF Len(@) = QueueSize THEN Tail(@) ELSE @, Head(pending[c]))]
    /\ pending' = [pending EXCEPT ![c] = Tail(@)]
    /\ UNCHANGED <<published, phase, sender, sending, delivered, joined>>

\* Mutated form of Take: the newest notification goes first.
TakeNewest(c) ==
    /\ phase[c] = "open"
    /\ sender[c] = "waiting"
    /\ queue[c] # <<>>
    /\ sender' = [sender EXCEPT ![c] = "sending"]
    /\ sending' = [sending EXCEPT ![c] = <<Last(queue[c])>>]
    /\ queue' = [queue EXCEPT ![c] = Front(@)]
    /\ UNCHANGED <<published, phase, pending, delivered, joined>>

\* The sender's queue.get returns; a sender that was canceled never gets there.
Take(c) ==
    /\ phase[c] = "open"
    /\ sender[c] = "waiting"
    /\ queue[c] # <<>>
    /\ sender' = [sender EXCEPT ![c] = "sending"]
    /\ sending' = [sending EXCEPT ![c] = <<Head(queue[c])>>]
    /\ queue' = [queue EXCEPT ![c] = Tail(@)]
    /\ UNCHANGED <<published, phase, pending, delivered, joined>>

\* send_json returns.
Sent(c) ==
    /\ phase[c] = "open"
    /\ sender[c] = "sending"
    /\ sender' = [sender EXCEPT ![c] = "waiting"]
    /\ sending' = [sending EXCEPT ![c] = <<>>]
    /\ delivered' = [delivered EXCEPT ![c] = @ \o sending[c]]
    /\ UNCHANGED <<published, phase, pending, queue, joined>>

\* send_json raises because the client is gone.  The task ends, and the
\* connection stays registered until its handler finds out by itself.
SendFails(c) ==
    /\ sender[c] = "sending"
    /\ sender' = [sender EXCEPT ![c] = "failed"]
    /\ sending' = [sending EXCEPT ![c] = <<>>]
    /\ UNCHANGED <<published, phase, pending, queue, delivered, joined>>

\* Mutated form of Disconnect: the sender is not canceled.
DisconnectOnly(c) ==
    /\ phase[c] = "open"
    /\ phase' = [phase EXCEPT ![c] = "done"]
    /\ UNCHANGED <<published, pending, queue, sender, sending, delivered, joined>>

\* receive_json or the pong raises: the client left, sent no JSON, or is gone.
\* disconnect removes the entry and cancels the sender, up to its await.
Disconnect(c) ==
    /\ phase[c] = "open"
    /\ phase' = [phase EXCEPT ![c] = "closing"]
    /\ UNCHANGED <<published, pending, queue, sender, sending, delivered, joined>>

\* The cancellation reaches the sender at its await.  A send that was already
\* on its way may have gone out.
SenderCanceled(c) ==
    /\ phase[c] = "closing"
    /\ sender[c] \in {"waiting", "sending"}
    /\ sender' = [sender EXCEPT ![c] = "stopped"]
    /\ sending' = [sending EXCEPT ![c] = <<>>]
    /\ \/ delivered' = [delivered EXCEPT ![c] = @ \o sending[c]]
       \/ UNCHANGED delivered
    /\ UNCHANGED <<published, phase, pending, queue, joined>>

\* Mutated form of HandlerEnds: the exception of a failed sender is not raised.
HandlerAwaitsStop(c) ==
    /\ phase[c] = "closing"
    /\ sender[c] = "stopped"
    /\ phase' = [phase EXCEPT ![c] = "done"]
    /\ UNCHANGED <<published, pending, queue, sender, sending, delivered, joined>>

\* The await of the sender returns, or raises what the sender raised: either
\* way the handler is over.
HandlerEnds(c) ==
    /\ phase[c] = "closing"
    /\ sender[c] \in {"stopped", "failed"}
    /\ phase' = [phase EXCEPT ![c] = "done"]
    /\ UNCHANGED <<published, pending, queue, sender, sending, delivered, joined>>

----------------------------------------------------------------------------

Connection(c) ==
    \/ Connect(c) \/ Register(c) \/ AcceptFails(c) \/ Enqueue(c) \/ Take(c)
    \/ Sent(c) \/ SendFails(c) \/ Disconnect(c) \/ SenderCanceled(c)
    \/ HandlerEnds(c)

Next == Publish \/ \E c \in Connections : Connection(c)

Spec == Init /\ [][Next]_vars

\* The loop runs its callbacks and resumes its tasks.  A send returns or
\* raises, because the server closes a socket that stops answering.  Clients
\* need not come, nor leave.
FairSpec ==
    /\ Spec
    /\ \A c \in Connections :
         /\ WF_vars(Enqueue(c))
         /\ WF_vars(Take(c))
         /\ WF_vars(Sent(c) \/ SendFails(c) \/ SenderCanceled(c))
         /\ WF_vars(HandlerEnds(c))

----------------------------------------------------------------------------
(* Properties.                                                             *)

TypeOK ==
    /\ published \in 0..MaxMessages
    /\ phase \in [Connections -> Phases]
    /\ pending \in [Connections -> Seq(1..MaxMessages)]
    /\ queue \in [Connections -> Seq(1..MaxMessages)]
    /\ \A c \in Connections : Len(queue[c]) <= QueueSize
    /\ sender \in [Connections -> SenderStates]
    /\ sending \in [Connections -> Seq(1..MaxMessages)]
    /\ \A c \in Connections : Len(sending[c]) = IF sender[c] = "sending" THEN 1 ELSE 0
    /\ delivered \in [Connections -> Seq(1..MaxMessages)]
    /\ joined \in [Connections -> 0..MaxMessages]

Live(c) == phase[c] = "open" /\ sender[c] # "failed"

\* Everything connection c has been or will be sent, oldest first.
OnItsWay(c) == sending[c] \o queue[c] \o pending[c]

\* Of the notifications published since a live connection was registered, the
\* newest QueueSize are never lost, however slow the client: each has been
\* delivered or is on its way (_enqueue drops the oldest of a full queue;
\* test_queue_backpressure_keeps_the_latest_notification).
KeepsNewest ==
    \A c \in Connections : Live(c) =>
        \A n \in (joined[c] + 1)..published :
            n + QueueSize > published =>
                n \in ToSet(delivered[c]) \union ToSet(OnItsWay(c))

\* A connection whose handler has ended leaves no sender task behind, and a
\* sender runs for a registered or closing connection only (disconnect cancels
\* the sender and waits for it; accept may fail before there is one).
NoOrphanSender ==
    \A c \in Connections :
        sender[c] \in {"waiting", "sending"} => phase[c] \in {"open", "closing"}

\* Once disconnect has begun, the handler of the connection ends: its wait for
\* the sender is never endless, not even for one that had failed before.
HandlersEnd ==
    \A c \in Connections : phase[c] = "closing" ~> phase[c] = "done"

\* The publisher implements the stream its subscribers are promised.  A
\* connection whose sender failed has ended as far as its client can tell.
StreamStatus(c) ==
    IF phase[c] \in {"new", "accepting"} THEN "new"
    ELSE IF Live(c) THEN "on"
    ELSE IF sender[c] = "none" THEN "new"
    ELSE "ended"

Stream == INSTANCE NotificationStream WITH
    status  <- [c \in Connections |-> StreamStatus(c)],
    backlog <- [c \in Connections |->
                   IF Live(c) THEN OnItsWay(c) ELSE sending[c]]

ImplementsStream == Stream!StreamSpec

============================================================================
