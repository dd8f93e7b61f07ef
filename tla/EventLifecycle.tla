--------------------------- MODULE EventLifecycle ---------------------------
(***************************************************************************)
(* The life of stored events: the create, update, cancel and uncancel      *)
(* handlers of the API processes and the delete-expired-events job, over   *)
(* the table events.                                                       *)
(*                                                                         *)
(* A handler is a sequence of short transactions, each of them one step    *)
(* here: the event is read (get_by_id), changed in memory, verified, read  *)
(* again (session.get of update), written (flush and commit), published.   *)
(* One worker serves one request at a time, because the handlers are       *)
(* async functions that call synchronous use cases.  The job is a process  *)
(* of its own: it selects the ids that are due and then deletes them.      *)
(*                                                                         *)
(* The store is PostgreSQL at READ COMMITTED.  Three bounds: time stops at *)
(* MaxTime, MaxEvents events are created, and the last requests arrive and *)
(* are served at time RequestHorizon.                                      *)
(***************************************************************************)
EXTENDS EventEntity, FiniteSets

CONSTANTS
    Workers,         \* the API processes
    Users,
    Schedules,       \* the event dates requests ask for
    Durations,       \* the durations requests ask for
    MaxEvents,
    MaxTime,
    RequestHorizon

ASSUME InputsAssumption ==
    /\ Schedules \subseteq Nat
    /\ Durations \subseteq Nat \ {0}
    /\ MaxEvents \in Nat
    /\ MaxTime \in Nat
    /\ RequestHorizon \in Nat

VARIABLES
    now,         \* the wall clock all processes read
    events,      \* the table: a row for each id, None if there is none
    nextId,      \* the id the next inserted row gets
    request,     \* what each worker is doing
    job,         \* the cleanup job: idle, or holding the ids it selected
    published,   \* the payload last published for each id
    missed       \* ids whose last change was committed but never published

vars == <<now, events, nextId, request, job, published, missed>>

----------------------------------------------------------------------------

EventIds == 1..MaxEvents

ASSUME AbsenceAssumption == None \notin Event(Users)

Operations == {"create", "update", "cancel", "uncancel"}

Steps == {"idle", "read", "built", "verified", "loaded", "committed"}

\* entity is the Event the handler holds, row the model instance the session
\* of update loaded.
Request ==
    [step   : Steps,
     op     : Operations \union {None},
     id     : EventIds \union {None},
     actor  : Users \union {None},
     entity : Event(Users) \union {None},
     row    : Event(Users) \union {None}]

Idle == [step |-> "idle", op |-> None, id |-> None, actor |-> None,
         entity |-> None, row |-> None]

JobIdle == [running |-> FALSE, selected |-> {}]

Exists(id) == events[id] # None

DueIds == {id \in EventIds : Exists(id) /\ IsDue(events[id], now)}

Init ==
    /\ now = 0
    /\ events = [id \in EventIds |-> None]
    /\ nextId = 1
    /\ request = [w \in Workers |-> Idle]
    /\ job = JobIdle
    /\ published = [id \in EventIds |-> None]
    /\ missed = {}

Tick ==
    /\ now < MaxTime
    /\ now >= RequestHorizon => \A w \in Workers : request[w].step = "idle"
    /\ now' = now + 1
    /\ UNCHANGED <<events, nextId, request, job, published, missed>>

----------------------------------------------------------------------------
(* The handlers.  A request that is refused leaves every table as it was.  *)

\* The handler of w ends: with a response, an error, or the process.
Done(w) == request' = [request EXCEPT ![w] = Idle]

Become(w, step, entity) ==
    request' = [request EXCEPT ![w].step = step, ![w].entity = entity]

\* create_event up to schedule_deletion_after_event.
ReceiveCreate(w) ==
    /\ request[w].step = "idle"
    /\ now <= RequestHorizon
    /\ \E user \in Users, s \in Schedules \union {None}, d \in Durations :
         request' = [request EXCEPT ![w] =
             [Idle EXCEPT !.step = "built", !.op = "create", !.actor = user,
                 !.entity = schedule_deletion_after_event(NewEvent(user, s, d), now)]]
    /\ UNCHANGED <<now, events, nextId, job, published, missed>>

\* Mutated form of Receive: anybody may change an event.
ReceiveFromAnyone(w, op, status) ==
    /\ request[w].step = "idle"
    /\ now <= RequestHorizon
    /\ \E id \in EventIds, actor \in Users :
         /\ Exists(id)
         /\ events[id].status = status
         /\ request' = [request EXCEPT ![w] =
                [Idle EXCEPT !.step = "read", !.op = op, !.id = id,
                    !.actor = actor, !.entity = events[id]]]
    /\ UNCHANGED <<now, events, nextId, job, published, missed>>

\* get_by_id and the checks on what it returned: the actor is the organizer,
\* and the status is one the operation accepts.
Receive(w, op, status) ==
    /\ request[w].step = "idle"
    /\ now <= RequestHorizon
    /\ \E id \in EventIds, actor \in Users :
         /\ Exists(id)
         /\ actor = events[id].organizer
         /\ events[id].status = status
         /\ request' = [request EXCEPT ![w] =
                [Idle EXCEPT !.step = "read", !.op = op, !.id = id,
                    !.actor = actor, !.entity = events[id]]]
    /\ UNCHANGED <<now, events, nextId, job, published, missed>>

\* Mutated form of ReceiveUpdate: a canceled event may be updated.
ReceiveAnyUpdate(w) == \E status \in EventStatus : Receive(w, "update", status)

ReceiveUpdate(w) == Receive(w, "update", "active")
ReceiveCancel(w) == Receive(w, "cancel", "active")
ReceiveUncancel(w) == Receive(w, "uncancel", "canceled")

\* The changed event.  A field the PATCH body leaves unset keeps its value,
\* which is one of the values requests ask for.
BuildUpdate(w) ==
    /\ request[w].step = "read"
    /\ request[w].op = "update"
    /\ \E s \in Schedules \union {None}, d \in Durations :
         Become(w, "built",
             schedule_deletion_after_event(
                 [request[w].entity EXCEPT !.scheduled_at = s,
                                           !.duration_in_minutes = d], now))
    /\ UNCHANGED <<now, events, nextId, job, published, missed>>

\* cancel_event and uncancel_event do not verify the dates they produce.
BuildCancel(w) ==
    /\ request[w].step = "read"
    /\ request[w].op = "cancel"
    /\ Become(w, "verified", cancel(request[w].entity, now))
    /\ UNCHANGED <<now, events, nextId, job, published, missed>>

BuildUncancel(w) ==
    /\ request[w].step = "read"
    /\ request[w].op = "uncancel"
    /\ Become(w, "verified", uncancel(request[w].entity, now))
    /\ UNCHANGED <<now, events, nextId, job, published, missed>>

\* verify_event_dates_consistency, on a later reading of the clock.
Verify(w) ==
    /\ request[w].step = "built"
    /\ IF verify_event_dates_consistency(request[w].entity, now)
       THEN Become(w, "verified", request[w].entity)
       ELSE Done(w)
    /\ UNCHANGED <<now, events, nextId, job, published, missed>>

\* events.create: the returned event carries its new id.
Insert(w) ==
    /\ request[w].step = "verified"
    /\ request[w].op = "create"
    /\ nextId \in EventIds
    /\ events' = [events EXCEPT ![nextId] = request[w].entity]
    /\ nextId' = nextId + 1
    /\ request' = [request EXCEPT ![w].step = "committed", ![w].id = nextId]
    /\ UNCHANGED <<now, job, published, missed>>

\* session.get of events.update; a row that is gone answers 404.
Load(w) ==
    /\ request[w].step = "verified"
    /\ request[w].op # "create"
    /\ IF Exists(request[w].id)
       THEN request' = [request EXCEPT ![w].step = "loaded",
                                       ![w].row = events[request[w].id]]
       ELSE Done(w)
    /\ UNCHANGED <<now, events, nextId, job, published, missed>>

\* The row an UPDATE leaves: only the columns set to a value other than the
\* loaded one are in its SET clause.
Written(w) ==
    LET r == request[w]
        current == events[r.id]
    IN [c \in DOMAIN current |->
           IF r.entity[c] # r.row[c] THEN r.entity[c] ELSE current[c]]

\* Mutated form of Flush: the table has no CHECK constraint.
FlushUnchecked(w) ==
    /\ request[w].step = "loaded"
    /\ Exists(request[w].id)
    /\ events' = [events EXCEPT ![request[w].id] = Written(w)]
    /\ Become(w, "committed", request[w].entity)
    /\ UNCHANGED <<now, nextId, job, published, missed>>

\* flush and commit of events.update.  With no column changed no UPDATE is
\* sent, and the handler goes on even if the row is gone.
Flush(w) ==
    /\ request[w].step = "loaded"
    /\ \/ /\ Exists(request[w].id)
          /\ validate_state(Written(w))
          /\ events' = [events EXCEPT ![request[w].id] = Written(w)]
       \/ /\ request[w].entity = request[w].row
          /\ UNCHANGED events
    /\ Become(w, "committed", request[w].entity)
    /\ UNCHANGED <<now, nextId, job, published, missed>>

\* The UPDATE matches no row (StaleDataError) or violates a CHECK.
FlushFails(w) ==
    /\ request[w].step = "loaded"
    /\ Exists(request[w].id) => ~validate_state(Written(w))
    /\ Done(w)
    /\ UNCHANGED <<now, events, nextId, job, published, missed>>

\* The location is not there: locations.get_by_id of update, session.get of
\* create, or the foreign key when the location goes after those checks.
LocationMissing(w) ==
    /\ \/ request[w].op = "update" /\ request[w].step \in {"read", "loaded"}
       \/ request[w].op = "create" /\ request[w].step = "verified"
    /\ Done(w)
    /\ UNCHANGED <<now, events, nextId, job, published, missed>>

\* Mutated form of Publish: the payload is the event before the change.
PublishLoaded(w) ==
    /\ request[w].step = "committed"
    /\ published' = [published EXCEPT ![request[w].id] =
           IF request[w].row # None THEN request[w].row ELSE request[w].entity]
    /\ missed' = missed \ {request[w].id}
    /\ Done(w)
    /\ UNCHANGED <<now, events, nextId, job>>

\* realtime.publish, right after the commit: the payload is the event the
\* repository returned.
Publish(w) ==
    /\ request[w].step = "committed"
    /\ published' = [published EXCEPT ![request[w].id] = request[w].entity]
    /\ missed' = missed \ {request[w].id}
    /\ Done(w)
    /\ UNCHANGED <<now, events, nextId, job>>

\* The process dies and is restarted; an open transaction is rolled back.
Crash(w) ==
    /\ missed' = IF request[w].step = "committed"
                 THEN missed \union {request[w].id} ELSE missed
    /\ Done(w)
    /\ UNCHANGED <<now, events, nextId, job, published>>

----------------------------------------------------------------------------
(* delete_due, in one transaction of two statements.                       *)

\* Mutated form of JobSelect: only active events are looked at.
JobSelectActive ==
    /\ ~job.running
    /\ \E id \in DueIds : events[id].status = "active"
    /\ job' = [running |-> TRUE,
               selected |-> {id \in DueIds : events[id].status = "active"}]
    /\ UNCHANGED <<now, events, nextId, request, published, missed>>

JobSelect ==
    /\ ~job.running
    /\ DueIds # {}
    /\ job' = [running |-> TRUE, selected |-> DueIds]
    /\ UNCHANGED <<now, events, nextId, request, published, missed>>

\* DELETE ... WHERE id IN (...), with no second look at the dates.
JobDelete ==
    /\ job.running
    /\ events' = [id \in EventIds |->
                     IF id \in job.selected THEN None ELSE events[id]]
    /\ job' = JobIdle
    /\ UNCHANGED <<now, nextId, request, published, missed>>

JobCrash ==
    /\ job.running
    /\ job' = JobIdle
    /\ UNCHANGED <<now, events, nextId, request, published, missed>>

----------------------------------------------------------------------------

\* What a worker does once it has accepted a request.
Serve(w) ==
    \/ BuildUpdate(w) \/ BuildCancel(w) \/ BuildUncancel(w)
    \/ Verify(w) \/ Insert(w) \/ Load(w) \/ Flush(w) \/ FlushFails(w)
    \/ LocationMissing(w) \/ Publish(w)

Worker(w) ==
    \/ ReceiveCreate(w) \/ ReceiveUpdate(w) \/ ReceiveCancel(w) \/ ReceiveUncancel(w)
    \/ Serve(w)
    \/ Crash(w)

Job == JobSelect \/ JobDelete \/ JobCrash

Next == Tick \/ (\E w \in Workers : Worker(w)) \/ Job

Spec == Init /\ [][Next]_vars

\* Time passes (strong fairness: no endless stream of requests fits in the last
\* minute before the horizon), an accepted request is served, and the scheduler
\* runs the job again and again: it may be killed often, but not every time.
FairSpec ==
    /\ Spec
    /\ SF_vars(Tick)
    /\ \A w \in Workers : WF_vars(Serve(w))
    /\ WF_vars(JobSelect)
    /\ SF_vars(JobDelete)

----------------------------------------------------------------------------
(* Properties.                                                             *)

TypeOK ==
    /\ now \in Nat
    /\ events \in [EventIds -> Event(Users) \union {None}]
    /\ nextId \in Nat \ {0}
    /\ request \in [Workers -> Request]
    /\ job \in [running : BOOLEAN, selected : SUBSET EventIds]
    /\ published \in [EventIds -> Event(Users) \union {None}]
    /\ missed \subseteq EventIds

\* The dates of an event agree with its status.  A dated event is deleted a
\* fixed delay after its end, or after its cancellation if that is earlier; an
\* undated one within the no-date delay of the last time it was scheduled.
ActiveDates(e, t) ==
    e.status = "active" =>
        IF e.scheduled_at # None
        THEN e.deletion_scheduled_at = event_end(e) + EventDeletionDelay
        ELSE e.deletion_scheduled_at <= t + NoDateDeletionDelay

CanceledDates(e, t) ==
    e.status = "canceled" =>
        /\ e.canceled_at <= t
        /\ IF e.scheduled_at # None
           THEN e.deletion_scheduled_at =
                    Earliest(event_end(e) + EventDeletionDelay,
                             e.canceled_at + CanceledDeletionDelay)
           ELSE /\ e.deletion_scheduled_at <= e.canceled_at + CanceledDeletionDelay
                /\ e.deletion_scheduled_at <= t + NoDateDeletionDelay

DatesAgree(e, t) ==
    /\ validate_state(e)
    /\ e.deletion_scheduled_at # None
    /\ ActiveDates(e, t)
    /\ CanceledDates(e, t)

\* Whatever sequence of updates, cancellations and reactivations an event went
\* through, its stored deletion date is the one its current state calls for
\* (event.py: schedule_deletion_after_event, cancel, uncancel).
ScheduleConsistent == \A id \in EventIds : Exists(id) => DatesAgree(events[id], now)

\* Even with several API processes overwriting one another's columns, every
\* stored event has a deletion date, so that the job can find it one day, and a
\* cancellation time exactly when it is canceled (events_repository.py: update).
EveryEventDeletable ==
    \A id \in EventIds : Exists(id) =>
        /\ events[id].deletion_scheduled_at # None
        /\ validate_state(events[id])

\* Only its organizer changes an event, and the organizer stays the same, for
\* any number of API processes (the checks of update, cancel and uncancel are
\* made on what get_by_id read, several transactions before the write).
ChangedByOrganizer(id) ==
    (Exists(id) /\ events'[id] # None /\ events'[id] # events[id]) =>
        /\ events'[id].organizer = events[id].organizer
        /\ \E w \in Workers : /\ request[w].step = "loaded"
                              /\ request[w].id = id
                              /\ request[w].actor = events[id].organizer

OnlyOrganizerChanges == [][\A id \in EventIds : ChangedByOrganizer(id)]_vars

\* A canceled event changes in one way only, by being reactivated with the date
\* and duration it had (update_event.py: "A canceled event cannot be updated",
\* event.py: "Event is already canceled").
CanceledChange(id) ==
    (/\ Exists(id) /\ events'[id] # None /\ events'[id] # events[id]
     /\ events[id].status = "canceled") =>
        /\ events'[id].status = "active"
        /\ events'[id].scheduled_at = events[id].scheduled_at
        /\ events'[id].duration_in_minutes = events[id].duration_in_minutes

CanceledOnlyReactivated == [][\A id \in EventIds : CanceledChange(id)]_vars

\* When no request for an event is in progress, the payload last published for
\* it is the stored row: subscribers that saw every notification are up to
\* date.  The exception is a change whose process died before publish.
PublishedIsStored ==
    \A id \in EventIds :
        (/\ Exists(id)
         /\ id \notin missed
         /\ \A w \in Workers : ~(request[w].step = "committed" /\ request[w].id = id))
        => published[id] = events[id]

\* An event whose deletion date has come leaves the table, unless its
\* organizer moves the date (jobs/delete_expired_events.py, run periodically).
DueEventLeaves ==
    \A id \in EventIds :
        id \in DueIds ~> id \notin DueIds

\* Once nobody touches the events any more, every one of them is deleted in the
\* end, whatever state it was left in: none is stored for ever (event.py sets a
\* deletion date on every path; README: the delay "before cleanup").
TableDrains == <>[](\A id \in EventIds : ~Exists(id))

\* delete_expired_events.py: "Permanently delete events whose scheduled
\* deletion time has arrived." -- and no others.
DeletedWhenDue(id) == (Exists(id) /\ events'[id] = None) => IsDue(events[id], now)

OnlyDueEventsDeleted == [][\A id \in EventIds : DeletedWhenDue(id)]_vars

\* README: a client "receives notifications for all persisted event, location,
\* and joiner changes" -- also of a deletion, which would leave the notified
\* state of the event None again.
DeletionNotified ==
    \A id \in EventIds :
        (published[id] # None /\ ~Exists(id)) ~> published[id] = None

============================================================================
