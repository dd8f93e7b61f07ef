--------------------------- MODULE LocationCatalog --------------------------
(***************************************************************************)
(* Locations and the events that take place there: the handlers that       *)
(* create an event at a new or a known location, move an event, or change  *)
(* a location, beside the delete-unused-locations job and the deletions of *)
(* events.  EventLifecycle has the rest of what the event handlers do, and *)
(* their notifications.                                                    *)
(*                                                                         *)
(* A location is described by a name and coordinates; address, country,    *)
(* city and postal code are columns like the name.  Bounds: MaxLocations   *)
(* and MaxEvents rows are created, time stops at MaxTime, and the last     *)
(* requests arrive and are served at time RequestHorizon.                  *)
(***************************************************************************)
EXTENDS Integers, FiniteSets

CONSTANTS
    None,
    Workers,        \* the API processes, one request at a time each
    Names,
    Degrees,        \* latitudes and longitudes a REAL column holds exactly
    CreationDates,  \* the created_at clients send along with a location
    JobDelay,       \* TIMEDELTA_IN_MINUTES of the job
    UnusedDelay,    \* LOCATION_UNUSED_DELETION_DELAY_MINUTES of the settings
    MaxLocations,
    MaxEvents,
    MaxTime,
    RequestHorizon

ASSUME BoundsAssumption ==
    /\ CreationDates \subseteq Int
    /\ JobDelay \in Nat /\ UnusedDelay \in Nat
    /\ MaxLocations \in Nat /\ MaxEvents \in Nat
    /\ MaxTime \in Nat /\ RequestHorizon \in Nat

VARIABLES
    now,
    locations,     \* the table: the columns of each row, None if there is none
    created,       \* created_at of each row: the client's, or the time of the INSERT
    inUse,         \* the last time each location was created or had an event
    nextLocation,
    events,        \* the location_id of each event, None if there is none
    nextEvent,
    request,       \* what each worker is doing
    selected,      \* the ids the job has selected
    published,     \* the payload of the last location.updated of each location
    missed         \* locations with a committed update that was never published

vars == <<now, locations, created, inUse, nextLocation, events, nextEvent,
          request, selected, published, missed>>

rowVars == <<locations, created, inUse, nextLocation>>
eventVars == <<events, nextEvent>>
noticeVars == <<published, missed>>

----------------------------------------------------------------------------

LocationIds == 1..MaxLocations
EventIds == 1..MaxEvents

\* The columns a row can have, before any constraint.
Columns ==
    [name      : Names \union {None},
     latitude  : Degrees \union {None},
     longitude : Degrees \union {None}]

ASSUME NoneAssumption == None \notin Int \union Names \union Degrees \union Columns

\* What Location(...) and the CHECK constraints of the table accept: some
\* description, and both coordinates or none.
Described(c) ==
    /\ c.name # None \/ c.latitude # None
    /\ (c.latitude = None) <=> (c.longitude = None)

Location == {c \in Columns : Described(c)}

Exists(l) == locations[l] # None

UsedIn(es, l) == \E e \in EventIds : es[e] = l

Used(l) == UsedIn(events, l)

Steps == {"idle", "resolved", "changed", "loaded", "committed"}

\* location and event are ids; entity is the Location the handler of an update
\* holds, row the model instance its session loaded.
Request ==
    [step     : Steps,
     op       : {"create", "move", "update", None},
     location : LocationIds \union {None},
     event    : EventIds \union {None},
     entity   : Location \union {None},
     row      : Columns \union {None}]

Idle == [step |-> "idle", op |-> None, location |-> None, event |-> None,
         entity |-> None, row |-> None]

Init ==
    /\ now = 0
    /\ locations = [l \in LocationIds |-> None]
    /\ created = [l \in LocationIds |-> 0]
    /\ inUse = [l \in LocationIds |-> 0]
    /\ nextLocation = 1
    /\ events = [e \in EventIds |-> None]
    /\ nextEvent = 1
    /\ request = [w \in Workers |-> Idle]
    /\ selected = {}
    /\ published = [l \in LocationIds |-> None]
    /\ missed = {}

Done(w) == request' = [request EXCEPT ![w] = Idle]

\* A request arrives.
Receive(w) == request[w].step = "idle" /\ now <= RequestHorizon

Tick ==
    /\ now < MaxTime
    /\ now >= RequestHorizon => \A w \in Workers : request[w].step = "idle"
    /\ now' = now + 1
    /\ inUse' = [l \in LocationIds |-> IF Used(l) THEN now' ELSE inUse[l]]
    /\ UNCHANGED <<locations, created, nextLocation, eventVars, request, selected,
                   noticeVars>>

----------------------------------------------------------------------------
(* Events come, move and go.                                               *)

\* create_event_and_resolve_location, the location being new: it is committed
\* before the event is looked at.  The body of the request describes it, and
\* may say when it was created, be it long ago or in the future.
CreateLocation(w) ==
    /\ Receive(w)
    /\ nextLocation \in LocationIds
    /\ \E c \in Location, created_at \in CreationDates \union {None} :
         /\ locations' = [locations EXCEPT ![nextLocation] = c]
         /\ created' = [created EXCEPT ![nextLocation] =
                IF created_at = None THEN now ELSE created_at]
    /\ inUse' = [inUse EXCEPT ![nextLocation] = now]
    /\ nextLocation' = nextLocation + 1
    /\ request' = [request EXCEPT ![w] =
           [Idle EXCEPT !.step = "resolved", !.op = "create", !.location = nextLocation]]
    /\ UNCHANGED <<now, eventVars, selected, noticeVars>>

\* The same, the location being known.
FindLocation(w) ==
    /\ Receive(w)
    /\ \E l \in LocationIds :
         /\ Exists(l)
         /\ request' = [request EXCEPT ![w] =
                [Idle EXCEPT !.step = "resolved", !.op = "create", !.location = l]]
    /\ UNCHANGED <<now, rowVars, eventVars, selected, noticeVars>>

\* update_event up to events.update, with a location_id in the PATCH body.
FindEvent(w) ==
    /\ Receive(w)
    /\ \E e \in EventIds, l \in LocationIds :
         /\ events[e] # None
         /\ Exists(l)
         /\ request' = [request EXCEPT ![w] =
                [Idle EXCEPT !.step = "resolved", !.op = "move",
                             !.location = l, !.event = e]]
    /\ UNCHANGED <<now, rowVars, eventVars, selected, noticeVars>>

\* The user, the dates or the state of the event are refused.
Refuse(w) ==
    /\ request[w].step = "resolved"
    /\ Done(w)
    /\ UNCHANGED <<now, rowVars, eventVars, selected, noticeVars>>

\* events.create, in one step here: a location that is gone is refused by the
\* look at it or by the foreign key; a refused request ends with Refuse.
StoreEvent(w) ==
    /\ request[w].step = "resolved"
    /\ request[w].op = "create"
    /\ nextEvent \in EventIds
    /\ Exists(request[w].location)
    /\ events' = [events EXCEPT ![nextEvent] = request[w].location]
    /\ nextEvent' = nextEvent + 1
    /\ Done(w)
    /\ UNCHANGED <<now, rowVars, selected, noticeVars>>

\* events.update, likewise: the event may be gone too.
MoveEvent(w) ==
    /\ request[w].step = "resolved"
    /\ request[w].op = "move"
    /\ events[request[w].event] # None
    /\ Exists(request[w].location)
    /\ events' = [events EXCEPT ![request[w].event] = request[w].location]
    /\ Done(w)
    /\ UNCHANGED <<now, rowVars, nextEvent, selected, noticeVars>>

\* The delete-expired-events job takes an event away.
DeleteEvent(e) ==
    /\ events[e] # None
    /\ events' = [events EXCEPT ![e] = None]
    /\ UNCHANGED <<now, rowVars, nextEvent, request, selected, noticeVars>>

----------------------------------------------------------------------------
(* update_location.                                                        *)

\* get_by_id and LocationUpdate.apply_to: the result is a valid Location.
ApplyChanges(w) ==
    /\ Receive(w)
    /\ \E l \in LocationIds, c \in Location :
         /\ Exists(l)
         /\ request' = [request EXCEPT ![w] =
                [Idle EXCEPT !.step = "changed", !.op = "update",
                             !.location = l, !.entity = c]]
    /\ UNCHANGED <<now, rowVars, eventVars, selected, noticeVars>>

\* Mutated form of LoadLocation: a missing row is not noticed.
LoadLocationUnchecked(w) ==
    /\ request[w].step = "changed"
    /\ request' = [request EXCEPT ![w].step = "loaded",
                                  ![w].row = locations[request[w].location]]
    /\ UNCHANGED <<now, rowVars, eventVars, selected, noticeVars>>

\* session.get of locations.update; a row that is gone answers 404.
LoadLocation(w) ==
    /\ request[w].step = "changed"
    /\ IF Exists(request[w].location)
       THEN request' = [request EXCEPT ![w].step = "loaded",
                                       ![w].row = locations[request[w].location]]
       ELSE Done(w)
    /\ UNCHANGED <<now, rowVars, eventVars, selected, noticeVars>>

\* The row an UPDATE leaves: only columns set to a value other than the loaded
\* one are in its SET clause.
Written(w) ==
    LET r == request[w]
        current == locations[r.location]
    IN [c \in DOMAIN current |->
           IF r.entity[c] # r.row[c] THEN r.entity[c] ELSE current[c]]

Commit(w, content) ==
    /\ locations' = [locations EXCEPT ![request[w].location] = content]
    /\ request' = [request EXCEPT ![w].step = "committed"]

\* Mutated form of FlushLocation: the table has no CHECK constraints.
FlushLocationUnchecked(w) ==
    /\ request[w].step = "loaded"
    /\ IF Exists(request[w].location)
       THEN Commit(w, Written(w))
       ELSE Done(w) /\ UNCHANGED locations
    /\ UNCHANGED <<now, created, inUse, nextLocation, eventVars, selected, noticeVars>>

\* flush and commit.  No changed column, no UPDATE; an UPDATE of no row, or one
\* that violates a CHECK, fails.
FlushLocation(w) ==
    /\ request[w].step = "loaded"
    /\ IF request[w].entity = request[w].row
       THEN Commit(w, locations[request[w].location])
       ELSE IF Exists(request[w].location) /\ Described(Written(w))
       THEN Commit(w, Written(w))
       ELSE Done(w) /\ UNCHANGED locations
    /\ UNCHANGED <<now, created, inUse, nextLocation, eventVars, selected, noticeVars>>

\* Mutated form of PublishLocation: the payload is the location before the change.
PublishLoaded(w) ==
    /\ request[w].step = "committed"
    /\ published' = [published EXCEPT ![request[w].location] = request[w].row]
    /\ missed' = missed \ {request[w].location}
    /\ Done(w)
    /\ UNCHANGED <<now, rowVars, eventVars, selected>>

\* realtime.publish of location.updated, with the location update returned.
PublishLocation(w) ==
    /\ request[w].step = "committed"
    /\ published' = [published EXCEPT ![request[w].location] = request[w].entity]
    /\ missed' = missed \ {request[w].location}
    /\ Done(w)
    /\ UNCHANGED <<now, rowVars, eventVars, selected>>

\* The process dies.
Crash(w) ==
    /\ missed' = IF request[w].step = "committed"
                 THEN missed \union {request[w].location} ELSE missed
    /\ Done(w)
    /\ UNCHANGED <<now, rowVars, eventVars, selected, published>>

----------------------------------------------------------------------------
(* delete_unused_locations_from_datetime, in one transaction.              *)

Unused(l) == Exists(l) /\ ~Used(l)

\* Mutated form of Old: the comparison is the wrong way round.
Young(l) == created[l] > now - JobDelay

\* Created before the threshold.
Old(l) == created[l] < now - JobDelay

\* The SELECT.
JobSelect ==
    /\ selected = {}
    /\ selected' = {l \in LocationIds : Unused(l) /\ Old(l)}
    /\ selected' # {}
    /\ UNCHANGED <<now, rowVars, eventVars, request, noticeVars>>

\* Mutated form of JobDelete: the foreign key does not restrict.
JobDeleteUnrestricted ==
    /\ selected # {}
    /\ selected' = {}
    /\ locations' = [l \in LocationIds |-> IF l \in selected THEN None ELSE locations[l]]
    /\ UNCHANGED <<now, created, inUse, nextLocation, eventVars, request, noticeVars>>

\* The DELETE of all it selected.  One that an event has taken meanwhile makes
\* the whole statement fail (ON DELETE RESTRICT).
JobDelete ==
    /\ selected # {}
    /\ selected' = {}
    /\ locations' = IF \E l \in selected : Used(l)
                    THEN locations
                    ELSE [l \in LocationIds |->
                             IF l \in selected THEN None ELSE locations[l]]
    /\ UNCHANGED <<now, created, inUse, nextLocation, eventVars, request, noticeVars>>

JobCrash ==
    /\ selected # {}
    /\ selected' = {}
    /\ UNCHANGED <<now, rowVars, eventVars, request, noticeVars>>

----------------------------------------------------------------------------

Serve(w) ==
    \/ Refuse(w) \/ StoreEvent(w) \/ MoveEvent(w)
    \/ LoadLocation(w) \/ FlushLocation(w) \/ PublishLocation(w)

Worker(w) ==
    \/ CreateLocation(w) \/ FindLocation(w) \/ FindEvent(w) \/ ApplyChanges(w)
    \/ Serve(w)
    \/ Crash(w)

Next ==
    \/ Tick
    \/ \E w \in Workers : Worker(w)
    \/ \E e \in EventIds : DeleteEvent(e)
    \/ JobSelect \/ JobDelete \/ JobCrash

Spec == Init /\ [][Next]_vars

\* Time passes, requests are served, and the job is run again and again, and is
\* not killed every time.
FairSpec ==
    /\ Spec
    /\ SF_vars(Tick)
    /\ \A w \in Workers : WF_vars(Serve(w))
    /\ WF_vars(JobSelect)
    /\ SF_vars(JobDelete)

----------------------------------------------------------------------------
(* Properties.                                                             *)

TypeOK ==
    /\ now \in Nat
    /\ locations \in [LocationIds -> Columns \union {None}]
    /\ created \in [LocationIds -> Int]
    /\ inUse \in [LocationIds -> Nat]
    /\ nextLocation \in 1..(MaxLocations + 1)
    /\ events \in [EventIds -> LocationIds \union {None}]
    /\ nextEvent \in 1..(MaxEvents + 1)
    /\ request \in [Workers -> Request]
    /\ \A w \in Workers : request[w].step = "loaded" => request[w].row \in Columns
    /\ selected \subseteq LocationIds
    /\ published \in [LocationIds -> Columns \union {None}]
    /\ missed \subseteq LocationIds

\* Every event has its location, though the job deletes locations between a
\* handler's look at one and its write, and between its own two statements
\* (get_by_id in create_event_and_resolve_location and update_event; the
\* DELETE of delete_unused_locations_from_datetime).
NoEventWithoutLocation ==
    \A e \in EventIds : events[e] # None => Exists(events[e])

\* Two updates of different columns of one location never merge into one that
\* no longer describes anything, or that has half of its coordinates
\* (locations_repository.py: update; location.py: validate_description).
EveryLocationDescribed ==
    \A l \in LocationIds : Exists(l) => Described(locations[l])

\* A location whose updates were all published is as the last of them said.
PublishedIsStored ==
    \A l \in LocationIds :
        (/\ Exists(l) /\ published[l] # None /\ l \notin missed
         /\ \A w \in Workers : ~(request[w].step = "committed" /\ request[w].location = l))
        => published[l] = locations[l]

\* A location without an event is deleted in the end, once the date it was
\* stored with is more than JobDelay past: those a refused event has left behind
\* do not pile up, though one location in use makes the deletion of all others
\* fail.  What a client has dated ahead stays until then
\* (delete_unused_locations.py; created_at in locations_repository.py: create).
Collectable(l) == Unused(l) /\ created[l] + JobDelay < now

UnusedCollected == \A l \in LocationIds : Collectable(l) ~> ~Collectable(l)

\* README: LOCATION_UNUSED_DELETION_DELAY_MINUTES is the "Delay before unused
\* locations are eligible for cleanup."
UnusedForDelay(l) == (Exists(l) /\ locations'[l] = None) => now - inUse[l] >= UnusedDelay

DelayHonoured == [][\A l \in LocationIds : UnusedForDelay(l)]_vars

============================================================================
