--------------------------- MODULE RealtimeClient ---------------------------
(***************************************************************************)
(* A browser beside the publisher: it opens /ws/events, loads the events   *)
(* with GET /events once its connection is registered, and applies every   *)
(* notification it receives; when the connection is lost it opens another  *)
(* and loads again.  The answer of the load and the notifications come on  *)
(* two channels in any order, so what arrives before the answer is kept    *)
(* and applied after it.                                                   *)
(*                                                                         *)
(* The handlers of the API are synchronous code: between the commit of a   *)
(* change and its publish no other handler of the process runs, and a load *)
(* sees all changes published before it.  The state of an event is the     *)
(* number of the last notification about it, 0 before the first.  Which    *)
(* event is changed by which of the changes is picked at the start.        *)
(***************************************************************************)
EXTENDS WebSocketPublisher

CONSTANTS
    Events,
    Histories,     \* sequences of events: which ones are changed, and in which order
    None

ASSUME HistoriesAssumption == Histories \subseteq [1..MaxMessages -> Events]

ASSUME NoneAssumption == None \notin Connections

VARIABLES
    about,     \* the event each notification is, or will be, about
    client     \* the browser

clientVars == <<published, phase, pending, queue, sender, sending, delivered,
                joined, about, client>>

States == [Events -> 0..MaxMessages]

Unchanged == [e \in Events |-> 0]

\* kept: for each event the last notification received before the answer.
Client ==
    [step   : {"offline", "opening", "loading", "answered", "following"},
     socket : Connections \union {None},
     answer : States,
     kept   : States,
     view   : States]

\* The row of each event, after the changes so far.
Newest(e) ==
    LET changes == {n \in 1..published : about[n] = e} IN
    IF changes = {} THEN 0 ELSE CHOOSE n \in changes : \A m \in changes : m <= n

ClientInit ==
    /\ Init
    /\ about \in Histories
    /\ client = [step |-> "offline", socket |-> None, answer |-> Unchanged,
                 kept |-> Unchanged, view |-> Unchanged]

----------------------------------------------------------------------------

\* The steps of the publisher that the browser does not see.
Unseen(A) == A /\ UNCHANGED <<about, client>>

\* A handler that changes an event: the commit and the publish.
Change == Unseen(Publish)

Open(c) ==
    /\ client.step = "offline"
    /\ Connect(c)
    /\ client' = [client EXCEPT !.step = "opening", !.socket = c]
    /\ UNCHANGED about

\* Mutated form of Load: the events are loaded while the socket is opened, as
\* a client does that loads first and connects then.
LoadEarly ==
    /\ client.step = "opening"
    /\ client' = [client EXCEPT !.step = "loading"]
    /\ UNCHANGED <<vars, about>>

\* The socket is open; GET /events is on its way.
Load ==
    /\ client.step = "opening"
    /\ client.socket \in Registered
    /\ client' = [client EXCEPT !.step = "loading"]
    /\ UNCHANGED <<vars, about>>

\* The handler of GET /events.
Answer ==
    /\ client.step = "loading"
    /\ client' = [client EXCEPT !.step = "answered",
                                !.answer = [e \in Events |-> Newest(e)]]
    /\ UNCHANGED <<vars, about>>

\* Mutated form of Arrive: what came before the answer is forgotten.
ArriveAlone ==
    /\ client.step = "answered"
    /\ client' = [client EXCEPT !.step = "following", !.view = client.answer,
                                !.answer = Unchanged, !.kept = Unchanged]
    /\ UNCHANGED <<vars, about>>

\* The answer reaches the browser.
Arrive ==
    /\ client.step = "answered"
    /\ client' = [client EXCEPT
           !.step = "following",
           !.view = [e \in Events |-> IF client.kept[e] = 0 THEN client.answer[e]
                                                           ELSE client.kept[e]],
           !.answer = Unchanged,
           !.kept = Unchanged]
    /\ UNCHANGED <<vars, about>>

\* A notification reaches the browser.
Applied(n) ==
    IF client.step = "following" THEN [client EXCEPT !.view[about[n]] = n]
                                 ELSE [client EXCEPT !.kept[about[n]] = n]

Receive(c) ==
    /\ Sent(c)
    /\ client' = IF client.socket = c THEN Applied(Head(sending[c])) ELSE client
    /\ UNCHANGED about

\* Mutated form of Lose: the browser takes the lost connection for its next one.
LoseKeepingSocket ==
    /\ client.step # "offline"
    /\ phase[client.socket] \notin {"new", "accepting"}
    /\ ~Live(client.socket)
    /\ client' = [client EXCEPT !.step = "offline",
                                !.answer = Unchanged, !.kept = Unchanged]
    /\ UNCHANGED <<vars, about>>

\* The browser finds out that its connection is lost; what it has may be stale.
\* One that closes its connection itself is Disconnect, then Lose.
Lose ==
    /\ client.step # "offline"
    /\ phase[client.socket] \notin {"new", "accepting"}
    /\ ~Live(client.socket)
    /\ client' = [client EXCEPT !.step = "offline", !.socket = None,
                                !.answer = Unchanged, !.kept = Unchanged]
    /\ UNCHANGED <<vars, about>>

----------------------------------------------------------------------------

ConnectionNext(c) ==
    \/ Open(c) \/ Receive(c)
    \/ Unseen(Register(c)) \/ Unseen(AcceptFails(c)) \/ Unseen(Enqueue(c))
    \/ Unseen(Take(c)) \/ Unseen(SendFails(c)) \/ Unseen(Disconnect(c))
    \/ Unseen(SenderCanceled(c)) \/ Unseen(HandlerEnds(c))

ClientNext ==
    \/ Change
    \/ \E c \in Connections : ConnectionNext(c)
    \/ Load \/ Answer \/ Arrive \/ Lose

ClientSpec == ClientInit /\ [][ClientNext]_clientVars

\* As FairSpec; the browser is assumed nothing.
FairClientSpec ==
    /\ ClientSpec
    /\ \A c \in Connections :
         /\ WF_clientVars(Unseen(Enqueue(c)))
         /\ WF_clientVars(Unseen(Take(c)))
         /\ WF_clientVars(Receive(c) \/ Unseen(SendFails(c)) \/ Unseen(SenderCanceled(c)))
         /\ WF_clientVars(Unseen(HandlerEnds(c)))

----------------------------------------------------------------------------
(* Properties.                                                             *)

ClientTypeOK ==
    /\ about \in Histories
    /\ client \in Client
    /\ client.step = "offline" <=> client.socket = None

Following == client.step = "following" /\ Live(client.socket)

\* Lost for ever, as the client was too slow: QueueSize newer ones followed.
Overrun(n) == n > joined[client.socket] /\ n + QueueSize <= published

\* A browser that has loaded the events and is connected shows every event as it
\* is, or the notification that will tell it is on its way: whatever changed
\* before, during and after its load, in whatever order the answer and the
\* notifications come, and whatever it had missed while it was not connected.
\* The exception is an overrun queue (connect, publish, _enqueue).
ViewCurrent ==
    Following =>
        \A e \in Events :
            \/ client.view[e] = Newest(e)
            \/ Newest(e) \in ToSet(OnItsWay(client.socket))
            \/ Overrun(Newest(e))

\* A browser that stays connected is in the end up to date.
ViewCatchesUp ==
    <>[]Following =>
        []<>(Following /\ \A e \in Events :
                  client.view[e] = Newest(e) \/ Overrun(Newest(e)))

============================================================================
