----------------------------- MODULE Attendance -----------------------------
(***************************************************************************)
(* Joining and leaving events: the join and leave handlers over the tables *)
(* events and joiners, beside the organizer's cancel and uncancel and the  *)
(* delete-expired-events job, whose deletions cascade to the participants. *)
(*                                                                         *)
(* A handler is a sequence of transactions and, inside the one that writes *)
(* a participant, of statements: other processes run in between, under     *)
(* READ COMMITTED.  EventLifecycle has the details of what happens to the  *)
(* events; here an event has a status, and may be over.  MaxRows bounds    *)
(* how many participations are ever stored.                                *)
(***************************************************************************)
EXTENDS Integers, FiniteSets

CONSTANTS
    None,
    Workers,     \* the API processes, one request at a time each
    Users,
    Events,      \* events that exist at the start
    MaxRows

ASSUME RowsAssumption == MaxRows \in Nat

ASSUME NoneAssumption ==
    None \notin Nat \union {"active", "canceled", "join", "leave", "cancel", "uncancel"}

VARIABLES
    status,      \* of each event: "active", "canceled", or None once deleted
    over,        \* the events whose end has passed
    rows,        \* the table joiners: a row for each id, None if there is none
    nextRow,
    request,     \* what each worker is doing
    view,        \* the participants a client has that applies every joiner.joined
                 \* and joiner.left notification to what it had before
    counts,      \* the joiners_count last published, or asked for
    missed,      \* the participations with a change that was never published, not
                 \* in the order in which the changes were committed, or twice
    raced        \* the events two requests changed, the second before the first
                 \* had published, or one that died in between

vars == <<status, over, rows, nextRow, request, view, counts, missed, raced>>

RowIds == 1..MaxRows

Row == [event : Events, user : Users, left : BOOLEAN]

\* None stands for no row.
ASSUME RowAssumption == None \notin Row

Operations == {"join", "leave", "cancel", "uncancel"}

Request ==
    [step  : {"idle", "checked", "found", "committed", "counted"},
     op    : Operations \union {None},
     event : Events \union {None},
     user  : Users \union {None},
     row   : RowIds \union {None},
     count : Nat,
     overtaken : BOOLEAN]   \* history: a cancel has committed during the join

Idle == [step |-> "idle", op |-> None, event |-> None, user |-> None,
         row |-> None, count |-> 0, overtaken |-> FALSE]

Init ==
    /\ status = [e \in Events |-> "active"]
    /\ over = {}
    /\ rows = [r \in RowIds |-> None]
    /\ nextRow = 1
    /\ request = [w \in Workers |-> Idle]
    /\ view = [e \in Events |-> {}]
    /\ counts = [e \in Events |-> 0]
    /\ missed = {}
    /\ raced = {}

----------------------------------------------------------------------------

\* left_at IS NULL.
Active(r) == rows[r] # None /\ ~rows[r].left

ActiveRows(u, e) == {r \in RowIds : Active(r) /\ rows[r].user = u /\ rows[r].event = e}

Participants(e) == {u \in Users : ActiveRows(u, e) # {}}

\* count_by_event counts rows.
count_by_event(e) == Cardinality({r \in RowIds : Active(r) /\ rows[r].event = e})

Done(w) == request' = [request EXCEPT ![w] = Idle]

Goto(w, step) == request' = [request EXCEPT ![w].step = step]

\* The other requests between a commit in this event and their publish.
Unpublished(w, e) ==
    {v \in Workers \ {w} : request[v].step \in {"committed", "counted"} /\ request[v].event = e}

\* What a commit of w does to the history: the publications of these requests
\* are no longer sure to come in the order of their commits.  A leave that
\* commits again what another has done says nothing true of a later rejoining.
Overlap(w, e, u, again) ==
    /\ raced' = IF Unpublished(w, e) = {} THEN raced ELSE raced \union {e}
    /\ missed' = IF again \/ \E v \in Unpublished(w, e) : request[v].user = u
                 THEN missed \union {<<e, u>>} ELSE missed

\* Joins that may still store a row: keeps nextRow in range.
Joining == {w \in Workers : request[w].op = "join" /\ request[w].step \in {"checked", "found"}}

\* Mutated form of StartJoin: canceled events may be joined.
StartJoinAny(w) ==
    /\ request[w].step = "idle"
    /\ nextRow + Cardinality(Joining) \in RowIds
    /\ \E e \in Events \ over, u \in Users :
         /\ status[e] # None
         /\ request' = [request EXCEPT ![w] =
               [Idle EXCEPT !.step = "checked", !.op = "join", !.event = e, !.user = u]]
    /\ UNCHANGED <<status, over, rows, nextRow, view, counts, missed, raced>>

\* join_event up to authenticate: the event is there, active and not over.
StartJoin(w) ==
    /\ request[w].step = "idle"
    /\ nextRow + Cardinality(Joining) \in RowIds
    /\ \E e \in Events \ over, u \in Users :
         /\ status[e] = "active"
         /\ request' = [request EXCEPT ![w] =
               [Idle EXCEPT !.step = "checked", !.op = "join", !.event = e, !.user = u]]
    /\ UNCHANGED <<status, over, rows, nextRow, view, counts, missed, raced>>

\* The SELECTs of joiners.create.  No event is a 404, a participation a 409.
Find(w) ==
    /\ request[w].op = "join"
    /\ request[w].step = "checked"
    /\ IF /\ status[request[w].event] # None
          /\ ActiveRows(request[w].user, request[w].event) = {}
       THEN Goto(w, "found")
       ELSE Done(w)
    /\ UNCHANGED <<status, over, rows, nextRow, view, counts, missed, raced>>

\* Mutated forms of the constraints: no foreign key, or no unique index.
OnlyUnique(u, e) == ActiveRows(u, e) = {}
OnlyReferenced(u, e) == status[e] # None

\* The foreign key of event_id and the partial unique index on active rows.
ConstraintsHold(u, e) == status[e] # None /\ ActiveRows(u, e) = {}

\* Its INSERT and commit; an IntegrityError is a 409.
Insert(w) ==
    /\ request[w].op = "join"
    /\ request[w].step = "found"
    /\ nextRow \in RowIds
    /\ LET u == request[w].user
           e == request[w].event
       IN IF ConstraintsHold(u, e)
          THEN /\ rows' = [rows EXCEPT ![nextRow] = [event |-> e, user |-> u, left |-> FALSE]]
               /\ nextRow' = nextRow + 1
               /\ request' = [request EXCEPT ![w].step = "committed", ![w].row = nextRow]
               /\ Overlap(w, e, u, FALSE)
          ELSE Done(w) /\ UNCHANGED <<rows, nextRow, missed, raced>>
    /\ UNCHANGED <<status, over, view, counts>>

\* leave_event up to the SELECT of joiners.leave; no row is a 404.
StartLeave(w) ==
    /\ request[w].step = "idle"
    /\ \E e \in Events, u \in Users : \E r \in ActiveRows(u, e) :
         request' = [request EXCEPT ![w] =
             [Idle EXCEPT !.step = "found", !.op = "leave",
                          !.event = e, !.user = u, !.row = r]]
    /\ UNCHANGED <<status, over, rows, nextRow, view, counts, missed, raced>>

\* Its UPDATE and commit; the row may be gone (StaleDataError).
Update(w) ==
    /\ request[w].op = "leave"
    /\ request[w].step = "found"
    /\ IF rows[request[w].row] # None
       THEN /\ rows' = [rows EXCEPT ![request[w].row].left = TRUE]
            /\ Goto(w, "committed")
            /\ Overlap(w, request[w].event, request[w].user, rows[request[w].row].left)
       ELSE Done(w) /\ UNCHANGED <<rows, missed, raced>>
    /\ UNCHANGED <<status, over, nextRow, view, counts>>

\* Mutated forms of Count: the last published count, or that plus or minus one.
CountBefore(w) ==
    /\ request[w].step = "committed"
    /\ request' = [request EXCEPT ![w].step = "counted",
                                  ![w].count = counts[request[w].event]]
    /\ UNCHANGED <<status, over, rows, nextRow, view, counts, missed, raced>>

CountByOne(w) ==
    /\ request[w].step = "committed"
    /\ request' = [request EXCEPT ![w].step = "counted",
           ![w].count = counts[request[w].event]
                          + (IF request[w].op = "join" THEN 1 ELSE -1)]
    /\ UNCHANGED <<status, over, rows, nextRow, view, counts, missed, raced>>

\* count_by_event, in a transaction of its own.
Count(w) ==
    /\ request[w].step = "committed"
    /\ request' = [request EXCEPT ![w].step = "counted",
                                  ![w].count = count_by_event(request[w].event)]
    /\ UNCHANGED <<status, over, rows, nextRow, view, counts, missed, raced>>

\* realtime.publish of joiner.joined or joiner.left.
Publish(w) ==
    /\ request[w].step = "counted"
    /\ LET e == request[w].event IN
       /\ view' = [view EXCEPT ![e] =
                      IF request[w].op = "join" THEN @ \union {request[w].user}
                                                ELSE @ \ {request[w].user}]
       /\ counts' = [counts EXCEPT ![e] = request[w].count]
    /\ Done(w)
    /\ UNCHANGED <<status, over, rows, nextRow, missed, raced>>

\* The process dies; what it had committed is never published.
Crash(w) ==
    /\ IF request[w].step \in {"committed", "counted"}
       THEN /\ missed' = missed \union {<<request[w].event, request[w].user>>}
            /\ raced' = raced \union {request[w].event}
       ELSE UNCHANGED <<missed, raced>>
    /\ Done(w)
    /\ UNCHANGED <<status, over, rows, nextRow, view, counts>>

----------------------------------------------------------------------------
(* What a client asks for.                                                 *)

\* No change of this participation is still to be published.
Announced(e, u) ==
    \A w \in Workers :
        ~(/\ request[w].step \in {"committed", "counted"}
          /\ request[w].event = e
          /\ request[w].user = u)

\* get_all_guests, or get_joiners_for_events: the list takes the place of what
\* the client had, and of the notifications it should have had.
FetchGuests(e) ==
    /\ status[e] # None
    /\ view' = [view EXCEPT ![e] = Participants(e)]
    /\ missed' = {p \in missed : p[1] = e => ~Announced(e, p[2])}
    /\ UNCHANGED <<status, over, rows, nextRow, request, counts, raced>>

\* get_event, for its joiners_count.
FetchCount(e) ==
    /\ status[e] # None
    /\ counts' = [counts EXCEPT ![e] = count_by_event(e)]
    /\ raced' = IF \A u \in Users : Announced(e, u) THEN raced \ {e} ELSE raced
    /\ UNCHANGED <<status, over, rows, nextRow, request, view, missed>>

----------------------------------------------------------------------------
(* What else happens to the events.                                        *)

StartCancel(w) ==
    /\ request[w].step = "idle"
    /\ \E e \in Events :
         /\ status[e] # None
         /\ request' = [request EXCEPT ![w] =
               [Idle EXCEPT !.step = "checked", !.event = e,
                  !.op = IF status[e] = "active" THEN "cancel" ELSE "uncancel"]]
    /\ UNCHANGED <<status, over, rows, nextRow, view, counts, missed, raced>>

\* events.update; the event may be gone.
CommitCancel(w) ==
    /\ request[w].op \in {"cancel", "uncancel"}
    /\ request[w].step = "checked"
    /\ LET e == request[w].event
           canceled == status[e] # None /\ request[w].op = "cancel"
       IN /\ status' = IF status[e] = None THEN status
                       ELSE [status EXCEPT ![e] = IF canceled THEN "canceled" ELSE "active"]
          /\ request' = [v \in Workers |->
                IF v = w THEN Idle
                ELSE IF canceled /\ v \in Joining /\ request[v].event = e
                THEN [request[v] EXCEPT !.overtaken = TRUE]
                ELSE request[v]]
    /\ UNCHANGED <<over, rows, nextRow, view, counts, missed, raced>>

\* The DELETE of the job, with ON DELETE CASCADE.
DeleteEvent(e) ==
    /\ status[e] # None
    /\ status' = [status EXCEPT ![e] = None]
    /\ rows' = [r \in RowIds |-> IF rows[r] # None /\ rows[r].event = e
                                 THEN None ELSE rows[r]]
    /\ UNCHANGED <<over, nextRow, request, view, counts, missed, raced>>

\* Its end passes, or an update of the organizer moves its dates.
EndMoves(e) ==
    /\ \/ e \notin over /\ over' = over \union {e}
       \/ e \in over /\ status[e] = "active" /\ over' = over \ {e}
    /\ UNCHANGED <<status, rows, nextRow, request, view, counts, missed, raced>>

----------------------------------------------------------------------------

Worker(w) ==
    \/ StartJoin(w) \/ Find(w) \/ Insert(w)
    \/ StartLeave(w) \/ Update(w)
    \/ Count(w) \/ Publish(w) \/ Crash(w)
    \/ StartCancel(w) \/ CommitCancel(w)

Next ==
    \/ \E w \in Workers : Worker(w)
    \/ \E e \in Events :
         FetchGuests(e) \/ FetchCount(e) \/ DeleteEvent(e) \/ EndMoves(e)

Spec == Init /\ [][Next]_vars

----------------------------------------------------------------------------
(* Properties.                                                             *)

TypeOK ==
    /\ status \in [Events -> {"active", "canceled", None}]
    /\ over \subseteq Events
    /\ rows \in [RowIds -> Row \union {None}]
    /\ nextRow \in 1..(MaxRows + 1)
    /\ request \in [Workers -> Request]
    /\ view \in [Events -> SUBSET Users]
    /\ counts \in [Events -> Nat]
    /\ missed \subseteq Events \X Users
    /\ raced \subseteq Events

\* A user takes part in an event at most once at a time, though two processes
\* may both have found no participation before either stored one (the partial
\* unique index ux_joiners_active_user_event).
OneParticipation ==
    \A r, s \in RowIds :
        (Active(r) /\ Active(s) /\ rows[r].user = rows[s].user
                   /\ rows[r].event = rows[s].event) => r = s

\* Participants are stored of existing events only, though the job deletes
\* events between a join's look at the event and its INSERT.
NoParticipantWithoutEvent ==
    \A r \in RowIds : rows[r] # None => status[rows[r].event] # None

\* join_event.py: "A canceled event cannot be joined."  The status is checked
\* some transactions before the participant is stored, so a participant of an
\* event that is not active is stored only by a join that was past its check
\* when a cancel committed.
OvertakenJoin(e) ==
    \E w \in Workers :
        /\ request[w].op = "join"
        /\ request[w].event = e
        /\ request[w].overtaken
        /\ request'[w] # request[w]

CanceledNotJoined ==
    [][\A r \in RowIds :
          (rows[r] = None /\ rows'[r] # None) =>
              \/ status[rows'[r].event] = "active"
              \/ OvertakenJoin(rows'[r].event)]_vars

\* When no change of an event waits to be published, a client that has applied
\* every notification holds the participants that are stored, and the last
\* joiners_count is their number.  The exceptions: a process that died before
\* publish; two requests whose windows between commit and publish overlap, on
\* one participation or, for the count, on one event; and two leaves of one
\* participation, the second of which may announce it after a rejoining.  A
\* client that asks again afterwards is right again.
Settled(e) ==
    /\ status[e] # None
    /\ \A w \in Workers :
         ~(request[w].event = e /\ request[w].step \in {"committed", "counted"})

FollowersAgree ==
    \A e \in Events : Settled(e) =>
        /\ \A u \in Users : <<e, u>> \notin missed =>
               (u \in view[e] <=> u \in Participants(e))
        /\ e \notin raced => counts[e] = Cardinality(Participants(e))

============================================================================
