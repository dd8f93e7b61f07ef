------------------------- MODULE NotificationStream -------------------------
(***************************************************************************)
(* What a WebSocket subscriber of /ws/events is promised: notifications    *)
(* come in the order they were published, none twice, only those published *)
(* while it was subscribed.  Some may be lost, but never the newest one of *)
(* a live subscription.  Notifications are numbered as they are published. *)
(***************************************************************************)
EXTENDS Naturals, Sequences, SequencesExt

CONSTANT Connections

VARIABLES
    published,   \* how many notifications there have been
    status,      \* "new", then "on", then "ended"
    backlog,     \* what is on its way to each subscriber
    delivered    \* what each subscriber has received

streamVars == <<published, status, backlog, delivered>>

StreamInit ==
    /\ published = 0
    /\ status = [c \in Connections |-> "new"]
    /\ backlog = [c \in Connections |-> <<>>]
    /\ delivered = [c \in Connections |-> <<>>]

Subscribe(c) ==
    /\ status[c] = "new"
    /\ status' = [status EXCEPT ![c] = "on"]
    /\ UNCHANGED <<published, backlog, delivered>>

Notify ==
    /\ published' = published + 1
    /\ backlog' = [c \in Connections |->
                      IF status[c] = "on" THEN Append(backlog[c], published + 1)
                                          ELSE backlog[c]]
    /\ UNCHANGED <<status, delivered>>

\* The oldest notification arrives.
Deliver(c) ==
    /\ backlog[c] # <<>>
    /\ backlog' = [backlog EXCEPT ![c] = Tail(@)]
    /\ delivered' = [delivered EXCEPT ![c] = Append(@, Head(backlog[c]))]
    /\ UNCHANGED <<published, status>>

\* One is lost, and a newer one is still on its way.
Lose(c) ==
    /\ \E i \in 1..(Len(backlog[c]) - 1) :
         backlog' = [backlog EXCEPT ![c] = RemoveAt(@, i)]
    /\ UNCHANGED <<published, status, delivered>>

\* The subscription ends; at most the notification being sent still arrives.
End(c) ==
    /\ status[c] = "on"
    /\ status' = [status EXCEPT ![c] = "ended"]
    /\ \E n \in {0, 1} : n <= Len(backlog[c])
                         /\ backlog' = [backlog EXCEPT ![c] = SubSeq(@, 1, n)]
    /\ UNCHANGED <<published, delivered>>

\* What was being sent when the subscription ended does not arrive.
Discard(c) ==
    /\ status[c] = "ended"
    /\ backlog[c] # <<>>
    /\ backlog' = [backlog EXCEPT ![c] = <<>>]
    /\ UNCHANGED <<published, status, delivered>>

StreamNext ==
    \/ Notify
    \/ \E c \in Connections :
         Subscribe(c) \/ Deliver(c) \/ Lose(c) \/ End(c) \/ Discard(c)

StreamSpec == StreamInit /\ [][StreamNext]_streamVars

============================================================================
