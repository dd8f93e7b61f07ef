# The events service, specified

TLA+ modules of the events service in `src/`: events with a life cycle, people
who join them, a WebSocket that tells browsers about every change, and clean-up
jobs beside the API. The modules are translated from the code; paths below are
relative to the repository, and `PROJECT.json` gives the lines of each
definition.

## 1. The system

The service is one FastAPI process ("one instance, one worker", README of the
repository, *Runtime model*), a PostgreSQL database (SQLite for development),
an internal read-only API, and two jobs a scheduler starts as processes of
their own. HTTP handlers are `async` functions that call synchronous use cases:
while a handler runs, the event loop runs nothing else. So the requests of
one process are served one after the other, but the jobs, the internal API and
a second instance (during a redeployment, or if the service is scaled out)
come between any two of their transactions.

| component | state | operations | talks to |
|---|---|---|---|
| Event entity, `domain/entities/event.py`, `verify_event_dates.py` | none (values) | schedule deletion, cancel, uncancel, check dates | used by the use cases |
| Event use cases and repository | table `events` | create, update, cancel, uncancel | database; publisher after the commit |
| delete-expired-events job | the ids it selected | select due events, delete them | database only; cascades to `joiners` |
| Joiners | table `joiners` | join, leave, count | reads `events`; publisher after the commit |
| WebSocket publisher, `/ws/events` | connections, a bounded queue and a sender task for each | connect, publish, enqueue, send, disconnect | event loop, browsers |
| Locations | table `locations` | create, update, delete unused ones | foreign key of `events`; publisher |
| Authentication | table `users` | get or create a user by name | every changing request |
| Queries | none | listings with pages, one event, filters by date, guests (also as the internal API) | reads all tables |
| Browser (outside `src/`) | what it shows | load, follow, reconnect | `GET /events`, `/ws/events` |

What makes it hard, and what must hold all the same:

* **Read, decide, write later.** A handler reads an event in one transaction,
  decides (is the actor the organizer? is it active?), and writes in another.
  Organizer and status must still be respected by what is stored.
* **Column merges.** An `UPDATE` sets the columns that differ from the row the
  session loaded. Two processes can produce a row neither of them built.
* **A deletion date with many authors.** Creation, update, cancellation and
  reactivation all set it; the job acts on it. It must be the one the event's
  state calls for, and never be missing.
* **Select, then delete.** The jobs delete what they selected, not what is due or
  unused when they delete.
* **Pages by offset.** The rows a listing counts, lists and looks up are those of
  different moments.
* **Commit, then publish.** A process can die in between. Counts are read in a
  transaction of their own.
* **Uniqueness checked twice.** The look for an existing participation and the
  partial unique index; the look at the event and the foreign key; the look for
  a user and the unique index on `lower(name)`, which another `lower` than the
  look's is behind.
* **Two channels.** A browser gets the answer of its load and the notifications
  in any order, and loses its connection before the server knows, or after.
* **Half-open boundaries.** Four readings of one deletion date, and calendar
  dates turned into midnights.
* **Tasks and callbacks.** `publish` only schedules an insertion; queues are
  bounded and drop; senders fail or are canceled in the middle of a send.

`PROJECT.json` lists each of these as a hazard with its line and the properties
that would catch it going wrong.

## 2. The modules

| module | models | uses |
|---|---|---|
| `EventEntity` | the entity and the date check, as operators on records | |
| `EventLifecycle` | table `events`, the four handlers, the job | `EventEntity` |
| `Attendance` | table `joiners`, join, leave, the cascade, the counts published, the guests asked for | |
| `LocationCatalog` | table `locations`, the handlers that use or change it, its clean-up job | |
| `EventSelection` | `EventFilters`, and when an event is visible, expired, due | |
| `EventQueries` | listings, single pages and single events while tables change | `EventSelection` |
| `UserDirectory` | abstract: what authentication promises | |
| `SimpleNameAuthentication` | table `users`, get or create by name | instantiates `UserDirectory` |
| `NotificationStream` | abstract: what a subscriber is promised | |
| `WebSocketPublisher` | the publisher and the handler of `/ws/events` | instantiates `NotificationStream` |
| `RealtimeClient` | composition: a browser, the handlers and the publisher | `WebSocketPublisher` |

`XProofs` has the theorems about `X`: there is one for `EventLifecycle`,
`Attendance`, `LocationCatalog`, `EventSelection`, `EventQueries`,
`SimpleNameAuthentication`, `WebSocketPublisher` and `RealtimeClient`. `MCX`
gives TLC the symmetry sets or the values that a configuration cannot write.

A definition that starts with *Mutated form* stands for a plausible bug in the
definition after it. No specification uses it: it is there to be put in the
place of the correct one, and to show that a property notices.

### EventLifecycle

`events[id]` is a row or `None`. A worker (API process) has one request at a
time; `request[w]` says how far it is and which entity and which loaded row it
holds. Each action is one transaction, or the code between two of them:

    ReceiveUpdate    get_by_id, organizer and status checks     update_event.py:35-44
    BuildUpdate      the changed entity, deletion rescheduled   update_event.py:46-64
    Verify           verify_event_dates_consistency             update_event.py:66
    Load             session.get inside events.update           events_repository.py:214
    Flush            UPDATE of the changed columns, commit      events_repository.py:222-236
    Publish          realtime.publish                           update_event.py:69-75

`cancel` and `uncancel` take the same way without `Verify`; `create` goes from
`ReceiveCreate` over `Verify` to `Insert`. A refusal (`Verify`, `FlushFails`,
`LocationMissing`) ends the request and leaves the table alone. `Crash` kills a
process between any two steps. `JobSelect` and `JobDelete` are the two
statements of `delete_due`, `JobCrash` the kill in between.

`published[id]` is what a subscriber knows of an event; `missed` holds the
events whose last change was committed by a process that died before it
published. Both are history the properties need and the code does not keep.

The store is PostgreSQL at READ COMMITTED, which is what the hosted deployment
uses and SQLAlchemy leaves as it is. SQLite serializes the writing
transactions, so its behaviours are among those of the model; with one
exception: it may give the id of a deleted row to a new one, while the ids of
PostgreSQL, and of the model, are never reused.

### Attendance

An event is reduced to what the join handler looks at: its status, and whether
its end has passed. The actions follow the code statement by statement:

    StartJoin                  the event is there, active, not over   join_event.py
    Find, Insert               the SELECTs, the INSERT and commit     joiners_repository.py, create
    StartLeave, Update         the SELECT, the UPDATE and commit      joiners_repository.py, leave
    Count, Publish             the number, in a transaction of its own; the notification
    FetchGuests, FetchCount    get_all_guests and get_joiners_for_events; get_event
    StartCancel, CommitCancel  the organizer's doing, as far as it concerns participants
    DeleteEvent                the DELETE of the job with ON DELETE CASCADE
    EndMoves                   time, or an update of the dates

`Find` and `Insert`, or `StartLeave` and `Update`, are steps of one transaction
but not one step: at READ COMMITTED others commit in between. So two leaves of
one participation may both commit, the second after the user has joined again,
and its notification then denies the new participation.

`view[e]` is what a client holds that applies every `joiner.joined` and
`joiner.left` it receives, `counts[e]` the last `joiners_count` it got. Three
variables are history. `missed` has the participations with a change that was
never published (a crash), or not in the order of the commits, or committed
twice by two leaves; `raced` the events whose count may be stale for the first
two reasons; asking again takes them out, unless something is still to be
published. `request[w].overtaken` says that a cancel has committed since a join
checked the status.

### LocationCatalog

A location is its columns; a name and two coordinates stand for the seven,
because the two CHECK constraints that relate columns ask for no more. A request
creates an event (`CreateLocation` or `FindLocation`, then `StoreEvent`), moves
one to another location (`FindEvent`, `MoveEvent`), or updates a location:

    ApplyChanges     get_by_id, LocationUpdate.apply_to       update_location.py:20-24
    LoadLocation     session.get                              locations_repository.py:94-98
    FlushLocation    UPDATE of the changed columns, commit    locations_repository.py:99-115
    PublishLocation  realtime.publish                         update_location.py:25-32

`Refuse` stands for every reason `create_event` and `update_event` have to
refuse after the location was looked up, or created: the new location stays.
The body of `POST /events` may give the new location its `created_at`, which
`create` keeps (`locations_repository.py:37`); `CreateLocation` takes it from
`CreationDates`, in the past or in the future, or stamps the present.
`JobSelect` and `JobDelete` are the two statements of the job; the second
deletes all it selected or, when an event has taken one of them, fails as a
whole. `inUse` is history: when a location last had an event.

### EventSelection and EventQueries

`EventSelection` has the filters as operators, in seconds, with day 0 starting
at 0: `from_calendar_dates` and its half-open boundaries, the validation of
ranges, the conditions of the repository on status, time and deletion date,
`visible`, `due`, and the filters `get_non_expired_events` and
`get_expired_active_events` put in. Only the second asks for a status: an expired
event is an active one, a non-expired event has any. So a canceled event past its
date is in neither list. The docstring of `get_non_expired_events`, "Return active
events whose deletion deadline is before now" (line 24), says the opposite of its
code on both counts; `get_expired_active_events` is called by no route.

`EventQueries` has three kinds of query: the listing of visible events, which
goes through the pages by offset; the single page of `get_non_expired_events`,
which the internal API serves; and one event. A page is `Count`, `ReadRows` (the
two statements of `get_page`) and `Details` (the locations of the rows, in
another transaction, and the loop around `get_events`). Between any two of them
events are created, updated and deleted, and unused locations deleted. A page is
a set: the rows of a given rank by id, so that no sequence is sorted or cut. Ids
grow, as those of a PostgreSQL sequence do. Rows have a deletion date, as every
stored event has one (`AlwaysDeletable` below). `changed` is history: what
became of the events while a query was in progress.

### SimpleNameAuthentication and UserDirectory

Every changing request resolves the name in its bearer token, or registers one:
`user_name_from_token`, then `get_by_name` and `create`, which are two
transactions, so that processes interleave them and may die in between, or right
after the INSERT. A name is lowered twice, by Python in the look and by the
database in the look and in the unique index; both are constants, functions from
names to keys, and need not agree.

`UserDirectory` is the promise: a function from keys to ids that only grows, and
answers that are the id under the key, or a refusal if it has just been given to
somebody else. The refinement maps a key to the row whose name the database
lowers to it, and a request to what it has been answered.

### WebSocketPublisher and NotificationStream

The module follows the event loop: one action is what runs between two awaits.
`Connect` and `Register` are the two halves of `connect` around the await of
`accept`; `Publish` schedules a callback for each registered connection
(`pending`), `Enqueue` is the callback; `Take`, `Sent`, `SendFails` are the
sender task; `Disconnect`, `SenderCanceled`, `HandlerEnds` the end of a
connection. A notification is its number.

`NotificationStream` is the promise: in order, none twice, only what was
published while subscribed, losses only of notifications a newer one follows.
The refinement maps a connection to `new` until it is registered and to `ended`
as soon as its sender has failed or its handler closes; the backlog of the
stream is the message being sent, the queue, and the pending callbacks, in this
order. `ImplementsStream` is checked as a property of the detailed
specification: dropping the oldest entry of a full queue is a loss followed by
the rest of the queue, never of the newest.

### RealtimeClient

The composition of a browser, the handlers and the publisher: every step of
`WebSocketPublisher` with the browser looking on, and the browser's own. It opens
a connection (`Open`), loads the events once this is registered (`Load`, `Answer`,
`Arrive`), applies what it receives, and keeps what arrives before the answer of
the load; it finds out that a connection is lost when the server does or later
(`Lose`), and opens another. The handlers of a process are synchronous code, so
`Change` commits and publishes in one step: no other handler runs in between. An
event's state is the number of the last notification about it, and which change
is about which event is picked at the start from `Histories`.

## 3. What is checked

| run | question | bounds |
|---|---|---|
| `lifecycle_one` | the documented deployment, one API process and the job: `ScheduleConsistent`, `PublishedIsStored`, `OnlyOrganizerChanges`, `CanceledOnlyReactivated`; liveness: `DueEventLeaves`, `TableDrains` | 2 users, 1 event, dates at 1 and 3, clock to 6, requests until 3 |
| `attendance_two_workers` | two API processes and the job: `OneParticipation`, `NoParticipantWithoutEvent`, `CanceledNotJoined`, `FollowersAgree` | 2 users, 1 event, 4 participations |
| `locations_two_workers` | two API processes: `EveryLocationDescribed` | 1 location, 1 name, 2 degrees, no events: the question is about columns |
| `locations_collected` | one API process and the job: `NoEventWithoutLocation`, `PublishedIsStored`; liveness: `UnusedCollected` | 2 locations, 1 event, 2 names, clock to 3, requests until 1, locations dated by the request (0 or 2, so back or ahead) or by the clock |
| `queries_listing` | `NoEventTwice`, `MissesAtMostDeleted`, `FailsOnlyAfterChange`, `PageAddsUp`, `CalendarDaysInclusive`, `DeletionReadingsAgree`; liveness: `QueryEnds` | 3 events, 2 locations, pages of 2, the last second of a day and the first of the next |
| `authentication_postgresql` | `OneUserPerName`, `RefusedOnlyIfRaced`, the refinement `ImplementsDirectory`; liveness: `NameServed` | 2 API processes, 3 names of which 2 differ by case, 2 ids |
| `realtime_client` | the publisher: `KeepsNewest`, `NoOrphanSender`, the refinement `ImplementsStream`, liveness `HandlersEnd`; the browser: `ViewCurrent`, liveness `ViewCatchesUp` | 2 connections, queues of 2, 3 notifications about 2 events |

The type invariants are checked along with them. Five runs end in a violation on
purpose, each stating a sentence of the repository:

* `lifecycle_due_only`: *"Permanently delete events whose scheduled deletion
  time has arrived"* (`delete_expired_events.py`). The job selects the event,
  its organizer moves it to a later date, the update commits, and the job
  deletes it. The update was answered with 200 and announced to subscribers.
  The cure is the condition on the date in the `DELETE` too.
* `lifecycle_notified`: *"A client connects once and receives notifications for
  all persisted event, location, and joiner changes"* (repository README). A
  deletion by the job is never announced: the job has no publisher, and the
  publisher lives in the memory of another process.
* `locations_delay`: *"Delay before unused locations are eligible for cleanup"*
  (repository README). The age is counted from the `created_at` of a location: one
  that is old goes as soon as its last event does. Both delays are equal in the
  run; that the job reads its own from `TIMEDELTA_IN_MINUTES`, and the setting
  is given to a use case no route calls, is a second divergence.
* `queries_complete`: *"Returns all events visible according to the domain
  rules"* (`routers/events.py`). Pages are read by offset; a deletion between two
  of them moves the rest up by one, and the first event of the next page is
  skipped. Ids as a cursor instead of an offset would cure it.
  `MissesAtMostDeleted` says how far this can go.
* `authentication_sqlite`: *"Resolve or register users by name"*
  (`SimpleNameAuthentication`). The `lower()` of SQLite leaves all but ASCII
  alone: the user registered as *Élodie* is not found by the look for *élodie*
  that follows, and the index refuses to register the name again.

`ViewCurrent` also shows what a client must do that no sentence of the
repository says in so many words: *connect, then load*.
`docs/WEBSOCKET_CLIENT_GUIDE.md` lists the load first (lines 24-27 and 171), and
the mutant `LoadEarly` of this run shows that a change between the two is then
lost to the browser until it loads again.

**Bounds.** Events do not refer to one another, and the handlers touch one
event each, so one event shows every interaction of the lifecycle; the job's
set of ids is the only place where several meet, and it treats them alike. The
dates are chosen on both sides of the clock at which requests arrive, so that
updates to the past, events that end while a request is served, and deletions
before, at and after the horizon happen; the delays differ (2, 1, 1) so that
either argument of `min` in `cancel` wins in some behaviour. `RequestHorizon`
ends requests early enough for the remaining deletions to happen before
`MaxTime`; without it `TableDrains` would ask about time the run does not have.
Lifecycles with two API processes are not run: what holds for them is proved for
any number.

Creation dates 0 and 2 date a location back, or ahead of the clock when requests
arrive. `UnusedCollected` speaks of a location from the moment its date is more
than the delay past: until then one that is dated ahead stays, used or not, which
is what the code does and no document speaks of.

Two users and four participations allow a user to leave and join again while
another does the same, and two leaves of one participation around a rejoining.
`MaxRows` bounds participations by a guard on `StartJoin`, so no behaviour is cut
in the middle of a request.

Three events on pages of two give every listing a second page, partly filled,
and a deletion, creation or update before, on and after it; the table starts
with any contents. The clock goes from 86399 to 86400 because both boundaries in
question lie there: the midnight between the two days a query may name, and the
deletion dates, which are reached before or during a query.

A queue of 2, one message being sent and three notifications, taken late,
overflow the queue; each connection sees every order of callbacks and sends. In
the histories `e1 e2 e1` and `e1 e2 e2` an event is changed again after, or
without, another one in between, and a browser can use both connections one
after the other. Three names, of which two differ by case, and as many ids as
there are keys that can be taken at once make two processes race for one key and
for different ones.

**Deadlock** is checked except in `realtime_client`, where the system may
really come to rest: all connections ended and all notifications published.
The workers of the other modules can always crash or the environment moves on.

**Fairness.** Runs without a liveness property assume none; where a run has one,
fairness takes nothing away from the safety properties checked along with it.

* `FairSpec` of `EventLifecycle`: time passes (strong fairness, because a worker
  that receives one request after another holds the bounded clock up at its
  horizon), an accepted request is served (the handler is synchronous code), and
  the job is run again and again and is not killed every time. That of
  `LocationCatalog` is like it, and no event need ever be deleted.
* `FairSpec` of `WebSocketPublisher` and `FairClientSpec`: what asyncio gives,
  scheduled callbacks run, ready tasks resume; and a send returns or raises,
  because uvicorn's ping timeout closes a socket that answers no more. Clients
  are assumed neither to connect nor to leave, and the browser nothing at all:
  `ViewCatchesUp` speaks of one that stays connected.
* `FairSpec` of `EventQueries`: a query, synchronous code, goes on.
* `FairSpec` of `SimpleNameAuthentication`: strong fairness of the look and of
  the registration for each name, because a process may be killed, but not in
  the middle of each and every request for a name.

## 4. What is proved

The theorems hold for every value of the constants: any users, events,
connections, queues, delays, bounds, and, unless stated, any number of API
processes. They assume only the named assumptions of the modules: delays are
natural numbers (the settings read them with `read_non_negative_int`), durations
and page sizes positive, `None` is not a value.

**EventLifecycleProofs.**

* `TypeCorrectness`, `AlwaysDeletable`, `OrganizerControls`, for any set of
  workers. `EveryEventDeletable` is not inductive by itself: the entity a
  request carries must be deletable before it is stored, and a merge of columns
  is deletable only because a column whose new value is not `None` or equals the
  loaded one leaves a date in place, and because `Flush` checks the constraint.
  `OnlyOrganizerChanges` needs that the actor, the entity and the loaded row of
  a request that is past its checks agree with the stored row on the organizer.
  The invariant `Inv` joins the type invariant with what requests hold at each
  step.
* `SchedulesConsistent`, `PublicationsCurrent` and `CanceledStaysPut`, for one
  worker, the documented deployment. There the entity a request has read is the
  row, or the row has been deleted by the job; that is the heart of the
  strengthened invariant, and what fails with a second worker.
* `OnlyPostponedGoEarly`, for any set of workers, says of the run
  `lifecycle_due_only` that there is no other way to what it shows: where no
  update moves the date of an event between the `SELECT` and the `DELETE` of the
  job (`NonePostponed`), only due events are deleted. Under that hypothesis what
  the job has selected stays due until it is gone; ids are not given out twice,
  so nothing new can come under a selected id.
* `NoneKeptForEver`, for any set of workers, is the safety half of `TableDrains`:
  if what requests ask for ends by `LastEnd`, the deletion date of every stored
  event is at most `LastEnd` or the present plus a delay of the settings. It is
  inductive with the same of the entities in the hands of handlers, as the
  columns of two of them may be mixed (`Reach`); each of the three operations of
  the entity sets such a date.

**AttendanceProofs.**

* `OneParticipationHolds` and `NoOrphanParticipants`, for any set of workers.
  The invariant is the conjunction of the two with the types of the tables; the
  argument never uses what `Find` saw, which is the point: only the index and
  the foreign key at the time of the `INSERT` count. `TypeCorrectness` adds the
  variables that clients hold.
* `OnlyOvertakenJoinCanceled` is the action property `CanceledNotJoined`: a join
  past its check is of an event that is active or gone, or it was overtaken by a
  cancel; and the foreign key excludes those that are gone.
* `FollowersAreRight` is `FollowersAgree`. Its invariant says for each
  participation that is not `missed` that at most one change of it is still to be
  told, and that this one agrees with the table; if there is none, the client's
  view agrees. For that the row a leave has found must stay one of this user and
  event until it is gone (`KnownRows`). For the count it says the same of the
  events that are not `raced`; that the rows counted are as many as the
  participants is a bijection, by `OneParticipation`.

**LocationCatalogProofs.**

* `TypeCorrectness`, `ForeignKeyHolds` and `LocationsStayDescribed`, for any set
  of workers. To the tables the invariant adds what a request holds: an update
  past its checks carries a valid `Location` and the row it loaded, so that a
  merge has the right columns; the CHECK in `FlushLocation` decides whether it
  is described. For the foreign key the step that matters is `JobDelete`, which
  deletes nothing while one selected location is used.
* `PublicationsCurrent`, for one worker: the row a handler loaded stays the row
  until it writes, or is deleted; and ids that were never given out were never
  published.
* `OnlyOldAndUnusedGo`, for any set of workers: a location goes only while no
  event uses it and only if its `created_at` is more than `JobDelay` past, and
  that date never changes (`DateKept`). What the job selected stays old
  (`AgeInv`); the deletion itself is all or nothing. It says no more of the age
  than that: the date may be the client's, so a location dated back may go as soon
  as it is stored. This is what the code does in the place of the promise
  `locations_delay` refutes, which counts from the last use and by another
  setting.

**EventSelectionProofs and EventQueriesProofs.**

* `DaysInclusive` and `ReadingsOfDeletionAgree`: the lemmas on midnights and on
  the four readings of a deletion date hold for all days, times and statuses, so
  at every moment of a behaviour. Visible and due are complementary; expired and
  non-expired are so among the active events with a date, while no canceled event
  is ever expired.
* `TypeCorrectness` includes that no listing asks for a page past the last there
  can be, which needs that totals are at most `MaxEvents` and that rounding up
  is monotone.
* `NoneListedTwice` and `FailureNeedsChange`. The heart is `ItemsBehind`: what is
  already listed and still stored lies among the rows before the next offset.
  Deletions only make those rows fewer, creations come after all of them, and so
  the next page has only larger ids. For the failure: the location of a row read
  is there, as it is the location of a stored event, unless the event has been
  moved or deleted since.
* `PagesAddUp` is `PageAddsUp`: the number of rows before a row (its rank) is a
  bijection from the n selected ids onto 0..n-1, so `OFFSET` and `LIMIT` give as
  many rows as the total leaves. `PageCounted` says that the total is still the
  number of rows, unless events have changed.
* `FewMissed` is `MissesAtMostDeleted`. An event that was there and selected all
  the time is *stable*. Its rank never grows: creations come after it, and updates
  move nothing. So the stable ids before the next offset that are not listed are
  those that deletions have moved past it; a deletion of k events moves at most k
  of them, as their ranks lay within k of the offset and are all different. When the last page is read,
  every stable id is before the next offset. `NoneMissedUnlessDeleted` is the
  corollary that names the cause of `queries_complete`: without a deletion a
  listing is complete.
* `QueryAdvances` is the safety half of `QueryEnds`: a query in progress has a
  number of steps left, at most three for each page there can be; each step of it
  is one less or the end, and nothing else touches it. What is left to the run is
  that it takes its steps.

**SimpleNameAuthenticationProofs.**

* `TypeCorrectness`; and, where both lower-casings agree, `NamesUnique`,
  `RefusalsAreRaces` and `Refinement`. The invariant says of a request that has
  found no user that none of those it saw has its name, and of one that is
  answered that the row it was answered with is there. Each step of a request is
  then one of the directory: a look that succeeds resolves, an INSERT registers,
  a conflict refuses, a death after the INSERT is a registration nobody hears of,
  and all else leaves directory and answers alone.
* `SameUserEveryTime`, under the same assumption, is what this means for a
  client: each answer is the id its name has in the table, and a name that has an
  id keeps it, so that all requests with one name act for one user.
* `OnAnyDatabase` assumes nothing of the lower-casings, and so holds on SQLite
  too, where `authentication_sqlite` finds registered users refused: the index
  keeps names apart as the database reads them, a refused name is one the table
  holds, and nobody acts for a user of another name.

**WebSocketPublisherProofs.**

* `TypeCorrectness` with the bound on queues, `SendersEnd`, `NewestKept`. What
  is said of a connection, `Sound`, is a predicate of the values it has in the
  variables: its queue and its callbacks, in this order, hold consecutive
  numbers that end with the newest (`Consecutive`), and the newest ones since it
  was registered, as many as a queue holds, are delivered, being sent, queued or
  in a callback (`Kept`).
* `Refinement` is `ImplementsStream`: each step of the publisher is a step of
  `NotificationStream` or none. The step with an argument to it is the
  enqueueing that drops: it loses the oldest of a backlog whose newest stays.
* `ReceivedInOrder` is drawn from the abstract stream alone: along its actions
  what a subscriber has received, and its backlog after it, only grows in the
  numbers of the notifications and lies between its registration and the last
  publication (`Promised`). The refinement carries this to the publisher, where
  it says that no client gets a notification twice or after a newer one.

**RealtimeClientProofs.**

* `ClientSpecIsSpec`: what the browser adds takes nothing from the publisher, so
  all the theorems about the publisher hold of the composition.
  `StreamBesideBrowser`, `NewestKeptBesideBrowser` and `SendersEndBesideBrowser`
  state three of them: the refinement, the newest notifications, the senders.
* `BrowserIsCurrent` is `ViewCurrent`. What the publisher still has for a live
  connection is a matter of numbers: everything after the *front* (the newest
  that is neither queued nor in a callback), and the one that is being sent; what
  lies between these two was dropped, and has been overrun (`Tracks`). What the
  browser would show for an event, once it has an answer or has kept a
  notification, is the newest state, or an older one while the newest is on its
  way or overrun (`Current`); before its connection is registered it has
  nothing.

Each safety property of a passing run is stated by a theorem. Only model-checked
are the properties that say something happens in the end (`DueEventLeaves`,
`TableDrains`, `UnusedCollected`, `QueryEnds`, `NameServed`, `HandlersEnd`,
`ViewCatchesUp`): liveness and fairness are out of this prover's reach. The models
have no RECURSIVE operators, so that any module can be proved about.

## 5. Not modelled, and the plan

Not modelled because nothing can go wrong in time: text validation and the
copying of DTOs, HTTP documentation and status codes, mapping of types, engine
set-up, migrations, logging and its context, reading the environment. The filters
on title and on location are conditions on a row and left out. The limits of
Python's dates are not modelled: times are unbounded numbers.

Coordinates are the values a REAL column holds exactly (`Degrees`). On PostgreSQL
the column is a four-byte float and rounds any other (`models.py:85-86`), so that a
notification, which has the number the handler was given, may differ from the row
in the last digits. `PublishedIsStored`, run on names and proved for such values,
does not speak of this.

`EventQueries` gives ids in the order of the commits, which is so for one process
that creates events. With several, an id can be given out before another and
committed after it, and a listing could meet an event behind its offset; the
results about listings are for the documented deployment in this respect.
`get_locations` is called by no route, `create_location` only while an event is
created.

SQLite serializes writing transactions, so its behaviours are among those of the
model, except where it is said otherwise: its `lower()`, and ids of deleted rows
that it may give to new ones.

What could be added, in this order:

1. A second API process beside `RealtimeClient`: its changes are committed and
   reach no queue of the first. The repository excludes this deployment (*Runtime
   model*), so the question is only how much a browser would miss.
2. `EventLifecycle` with the real notifications of its handlers in front of the
   queues, instead of numbered ones.
