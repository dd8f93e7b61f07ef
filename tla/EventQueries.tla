---------------------------- MODULE EventQueries ----------------------------
(***************************************************************************)
(* The queries on events, while events are created, updated and deleted    *)
(* and unused locations are cleaned up: get_visible_events, which reads    *)
(* the events page by page, by offset; the single page of                  *)
(* get_non_expired_events, the query of the internal API; and get_event.   *)
(*                                                                         *)
(* A page is read by get_events: the count and the rows in two statements, *)
(* the locations of the rows in a transaction of their own.  The third     *)
(* look, at the numbers of participants, cannot fail and is left out, like *)
(* filters other than the default one of the internal query.  Ids grow,    *)
(* and rows are listed by id, so a page is a set of rows and a listing the *)
(* set of them with the page each came from.  MaxEvents and MaxTime are    *)
(* bounds; the age a location must have to be cleaned up is abstracted.    *)
(***************************************************************************)
EXTENDS EventSelection, FiniteSets

CONSTANTS
    DeletionDates,   \* the deletion dates events have
    Days,            \* the calendar dates a query may name
    Places,          \* the locations there may be
    PageSize,        \* 100 in the code
    MaxEvents,
    FirstTime,       \* the clock goes from FirstTime to MaxTime
    MaxTime

ASSUME QueriesAssumption ==
    /\ DeletionDates \subseteq Int
    /\ Days \subseteq Int
    /\ PageSize \in Nat \ {0}
    /\ MaxEvents \in Nat \ {0}
    /\ FirstTime \in Int
    /\ MaxTime \in Int
    /\ FirstTime <= MaxTime

VARIABLES
    now,
    events,       \* the table: a row for each id, None if there is none
    nextId,
    locations,    \* the locations there are
    listing,      \* the query in progress
    changed       \* what became of the events during the query

vars == <<now, events, nextId, locations, listing, changed>>

Ids == 1..MaxEvents

Row == [deletion_scheduled_at : DeletionDates, place : Places]

\* None stands for no row.
ASSUME RowAssumption == None \notin Row

\* An event as a page has it, and as the listing keeps it.
PageRow == [id : Ids, deletion_scheduled_at : DeletionDates, place : Places]
Item == [id : Ids, deletion_scheduled_at : DeletionDates, page : Nat \ {0}]

Steps == {"idle", "count", "rows", "details", "done", "failed"}

Kinds == {"visible", "page", "event"}

\* page: the page that is read; for get_event, the id it asks for.
NewListing(kind, page) ==
    [kind |-> kind, step |-> IF kind = "event" THEN "rows" ELSE "count",
     started |-> now, page |-> page, total |-> 0, batch |-> {}, items |-> {}]

Exists(id) == events[id] # None

ExistingIds == {id \in Ids : Exists(id)}

\* How many events were deleted since the query started, whether one was moved
\* to another location, whether there was any change; and the events that were
\* not there, or not visible, all the time.
Changes == [deleted : Nat, moved : BOOLEAN, any : BOOLEAN, hidden : SUBSET Ids]

NoChange == [deleted |-> 0, moved |-> FALSE, any |-> FALSE,
             hidden |-> {id \in Ids : ~Exists(id) \/ ~visible(events[id], now)}]

Init ==
    /\ now = FirstTime
    /\ nextId \in 1..(MaxEvents + 1)
    /\ events \in {t \in [Ids -> Row \union {None}] : \A id \in Ids : t[id] # None => id < nextId}
    /\ locations = Places
    /\ listing = [NewListing("visible", 1) EXCEPT !.step = "idle"]
    /\ changed = NoChange

----------------------------------------------------------------------------
(* The events and locations change.                                        *)

InProgress == listing.step \in {"count", "rows", "details"}

\* Only what happens during a query is remembered.
Remember(c) == changed' = IF InProgress THEN [c EXCEPT !.any = TRUE] ELSE changed

Tick ==
    /\ now < MaxTime
    /\ now' = now + 1
    /\ UNCHANGED <<events, nextId, locations, listing, changed>>

CreateEvent ==
    /\ nextId \in Ids
    /\ \E d \in DeletionDates, l \in locations :
         events' = [events EXCEPT ![nextId] = [deletion_scheduled_at |-> d, place |-> l]]
    /\ nextId' = nextId + 1
    /\ Remember([changed EXCEPT !.hidden = @ \union {nextId}])
    /\ UNCHANGED <<now, locations, listing>>

\* An update gives an event another deletion date, another location, or both.
UpdateEvent(id) ==
    /\ Exists(id)
    /\ \E d \in DeletionDates, l \in locations :
         /\ events' = [events EXCEPT ![id] = [deletion_scheduled_at |-> d, place |-> l]]
         /\ Remember([changed EXCEPT
                !.moved = @ \/ l # events[id].place,
                !.hidden = IF visible(events'[id], listing.started) THEN @ ELSE @ \union {id}])
    /\ UNCHANGED <<now, nextId, locations, listing>>

\* delete_due; the gap between its two statements is in EventLifecycle.
DeleteDue ==
    LET gone == {id \in ExistingIds : due(events[id], now)} IN
    /\ gone # {}
    /\ events' = [id \in Ids |-> IF id \in gone THEN None ELSE events[id]]
    /\ Remember([changed EXCEPT !.deleted = @ + Cardinality(gone), !.hidden = @ \union gone])
    /\ UNCHANGED <<now, nextId, locations, listing>>

\* Mutated form of DeleteLocation: one that events have may go.
DeleteAnyLocation(l) ==
    /\ l \in locations
    /\ locations' = locations \ {l}
    /\ UNCHANGED <<now, events, nextId, listing, changed>>

\* delete_unused_locations takes one that no event has.
DeleteLocation(l) ==
    /\ l \in locations
    /\ \A id \in ExistingIds : events[id].place # l
    /\ locations' = locations \ {l}
    /\ UNCHANGED <<now, events, nextId, listing, changed>>

----------------------------------------------------------------------------
(* The queries.                                                            *)

Start(kind, page) ==
    /\ ~InProgress
    /\ listing' = NewListing(kind, page)
    /\ changed' = NoChange
    /\ UNCHANGED <<now, events, nextId, locations>>

GetVisibleEvents == Start("visible", 1)

GetNonExpiredEvents == \E page \in {1, 2} : Start("page", page)

GetEvent == \E id \in Ids : Start("event", id)

\* filtered_ids of get_page: the statuses asked for, both or none, are no
\* condition on a row.
filtered_ids ==
    LET filters == IF listing.kind = "page" THEN non_expired(NoFilters, listing.started)
                                            ELSE NoFilters
    IN {id \in ExistingIds : apply_deletion_filter(filters, events[id])}

\* Mutated form of Count: the filters are forgotten.
CountUnfiltered ==
    /\ listing.step = "count"
    /\ listing' = [listing EXCEPT !.step = "rows", !.total = Cardinality(ExistingIds)]
    /\ UNCHANGED <<now, events, nextId, locations, changed>>

\* The first statement of get_page.
Count ==
    /\ listing.step = "count"
    /\ listing' = [listing EXCEPT !.step = "rows", !.total = Cardinality(filtered_ids)]
    /\ UNCHANGED <<now, events, nextId, locations, changed>>

Offset(page) == (page - 1) * PageSize

\* How many rows the query has before this one.
Before(id) == Cardinality({i \in filtered_ids : i < id})

\* Mutated form of page_rows: the offset of later pages is one too small.
OverlappingRows(page) ==
    LET offset == IF page = 1 THEN 0 ELSE Offset(page) - 1 IN
    {id \in filtered_ids : offset <= Before(id) /\ Before(id) < offset + PageSize}

\* ORDER BY id OFFSET (page - 1) * page_size LIMIT page_size.
page_rows(page) ==
    {id \in filtered_ids : Offset(page) <= Before(id) /\ Before(id) < Offset(page) + PageSize}

Ended(step) ==
    [NewListing(listing.kind, 1) EXCEPT !.step = step, !.started = listing.started]

RowOf(id) ==
    [id |-> id, deletion_scheduled_at |-> events[id].deletion_scheduled_at,
     place |-> events[id].place]

\* Its second statement, or events.get_by_id: no such event is a 404.
ReadRows ==
    /\ listing.step = "rows"
    /\ LET ids == IF listing.kind = "event" THEN {listing.page} ELSE page_rows(listing.page) IN
       listing' =
           IF listing.kind = "event" /\ ~Exists(listing.page) THEN Ended("done")
           ELSE [listing EXCEPT !.step = "details", !.batch = {RowOf(id) : id \in ids}]
    /\ UNCHANGED <<now, events, nextId, locations, changed>>

\* Mutated form of pages: rounded down.
FullPages(total) == total \div PageSize

\* Rounded up.
pages(total) == (total + PageSize - 1) \div PageSize

\* Those not yet due when the listing started.
visible_items(items) == {item \in items : visible(item, listing.started)}

\* The page's items.
details ==
    {[id |-> row.id, deletion_scheduled_at |-> row.deletion_scheduled_at,
      page |-> listing.page] : row \in listing.batch}

LocationGone == \E row \in listing.batch : row.place \notin locations

NextPage(page) ==
    [listing EXCEPT !.step = "count", !.total = 0, !.batch = {},
                    !.page = page, !.items = @ \union details]

\* Mutated form of AfterPage: the page number is not increased.
AfterPageAgain ==
    IF listing.kind # "visible"
    THEN [listing EXCEPT !.step = "done", !.batch = {}, !.items = details]
    ELSE IF listing.page >= pages(listing.total)
    THEN [Ended("done") EXCEPT !.items = visible_items(listing.items \union details)]
    ELSE [NextPage(listing.page) EXCEPT !.items = listing.items]

\* Mutated form of AfterPage: one page too many is asked for.
AfterPagePastEnd ==
    IF listing.kind # "visible"
    THEN [listing EXCEPT !.step = "done", !.batch = {}, !.items = details]
    ELSE IF listing.page > pages(listing.total)
    THEN [Ended("done") EXCEPT !.items = visible_items(listing.items \union details)]
    ELSE NextPage(listing.page + 1)

\* What follows a page that could be built: the answer, or the next page.
AfterPage ==
    IF listing.kind # "visible"
    THEN [listing EXCEPT !.step = "done", !.batch = {}, !.items = details]
    ELSE IF listing.page >= pages(listing.total)
    THEN [Ended("done") EXCEPT !.items = visible_items(listing.items \union details)]
    ELSE NextPage(listing.page + 1)

\* get_by_ids, or get_by_id.  An event without its location fails the whole
\* query.
Details ==
    /\ listing.step = "details"
    /\ listing' = IF LocationGone THEN Ended("failed") ELSE AfterPage
    /\ UNCHANGED <<now, events, nextId, locations, changed>>

----------------------------------------------------------------------------

Query == Count \/ ReadRows \/ Details

Next ==
    \/ Tick \/ CreateEvent \/ DeleteDue
    \/ \E id \in Ids : UpdateEvent(id)
    \/ \E l \in Places : DeleteLocation(l)
    \/ GetVisibleEvents \/ GetNonExpiredEvents \/ GetEvent \/ Query

Spec == Init /\ [][Next]_vars

\* A query is synchronous code.
FairSpec == Spec /\ WF_vars(Query)

----------------------------------------------------------------------------
(* Properties.                                                             *)

TypeOK ==
    /\ now \in FirstTime..MaxTime
    /\ events \in [Ids -> Row \union {None}]
    /\ nextId \in 1..(MaxEvents + 1)
    /\ locations \subseteq Places
    /\ listing \in [kind : Kinds, step : Steps, started : FirstTime..MaxTime, page : Nat \ {0},
                    total : 0..MaxEvents, batch : SUBSET PageRow, items : SUBSET Item]
    /\ listing.kind = "visible" => listing.page <= pages(MaxEvents)
    /\ listing.kind = "event" => listing.page \in Ids
    /\ changed \in Changes

Listed == {item.id : item \in listing.items}

\* However the table changes between the pages, no event is listed twice, and
\* they are listed by id (get_page orders by id, and new events have new ids).
NoEventTwice ==
    \A i, j \in listing.items :
        i # j => i.id # j.id /\ (i.page < j.page => i.id < j.id)

\* A listing misses no more events that were there and visible all the time
\* than were deleted meanwhile: creations and updates move no event from one
\* page to another, and a deletion moves those after it by one (the loop of
\* get_visible_events).
Missed == Ids \ (changed.hidden \union Listed)

MissesAtMostDeleted ==
    listing.step = "done" /\ listing.kind = "visible" =>
        Cardinality(Missed) <= changed.deleted

\* A query answers "Location ... does not exist" only if an event was moved or
\* deleted between its row and the look at the locations (_build_event_details
\* in get_events.py, get_event.py).
FailsOnlyAfterChange ==
    listing.step = "failed" => changed.moved \/ changed.deleted > 0

\* A page adds up: unless events changed between its two statements, its items
\* are as many as its total leaves for it (EventPage; get_page).
Left(total, page) ==
    LET rest == total - Offset(page) IN
    IF rest < 0 THEN 0 ELSE IF rest < PageSize THEN rest ELSE PageSize

PageAddsUp ==
    listing.step = "done" /\ listing.kind = "page" /\ ~changed.any =>
        Cardinality(listing.items) = Left(listing.total, listing.page)

\* Whenever it is asked, and so in the last second of a day and at the midnight
\* after it, a query for accepted dates gets the events of the days from
\* from_date to to_date, both included: what takes place now is among them if
\* and only if today is, and what has no date is not, unless there is no date
\* in the query ("inclusive calendar dates", from_calendar_dates).
CalendarDaysInclusive ==
    \A from_date, to_date \in Days \union {None} :
        Inclusive(from_date, to_date, now) /\ Inclusive(from_date, to_date, None)

\* The readings of a deletion date agree at every moment: an event is visible
\* until the very moment from which the job may delete it; of the active ones
\* with a date the expired and the non-expired are complementary; every visible
\* one with a date is non-expired, and one that is due and non-expired is due
\* this very moment.  Only active events are ever expired: a canceled one whose
\* date is past is in neither list, and due all the same.  And who asks for
\* expired events gets them (get_visible_events, delete_due,
\* get_non_expired_events, get_expired_active_events).
DeletionReadingsAgree ==
    \A status \in EventStatus, d \in DeletionDates \union {None} :
        ReadingsAgree(status, d, now)

\* A query ends, though events may be created while it goes through the pages:
\* once no more are created, it comes to the last page.
QueryEnds ==
    InProgress ~> ~InProgress

\* "Returns all events visible according to the domain rules" (the route
\* GET /events in routers/events.py).
ListingComplete ==
    listing.step = "done" /\ listing.kind = "visible" => Missed = {}

============================================================================
