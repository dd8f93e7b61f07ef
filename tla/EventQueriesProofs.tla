------------------------- MODULE EventQueriesProofs -------------------------
(***************************************************************************)
(* The queries of EventQueries, for any deletion dates, days, locations,   *)
(* page size, number of events and times.                                  *)
(***************************************************************************)
EXTENDS EventQueries, EventSelectionProofs, FiniteSetTheorems, TLAPS

----------------------------------------------------------------------------
(* What a query is asked, whenever it is asked.                            *)

ClockOK == now \in Int

\* The clock is a time.
LEMMA ClockIsATime == Spec => []ClockOK
<1>1. Init => ClockOK
  BY QueriesAssumption DEF Init, ClockOK
<1>2. ClockOK /\ [Next]_vars => ClockOK'
  <2>1. Tick /\ ClockOK => ClockOK'
    BY DEF Tick, ClockOK
  <2>2. [Next]_vars => Tick \/ now' = now
    BY DEF Next, vars, CreateEvent, UpdateEvent, DeleteDue, DeleteLocation,
           GetVisibleEvents, GetNonExpiredEvents, GetEvent, Start, Query, Count, ReadRows,
           Details
  <2> QED
    BY <2>1, <2>2 DEF ClockOK
<1> QED
  BY <1>1, <1>2, PTL DEF Spec

\* Whenever and for whatever days it is asked, a query by calendar dates selects
\* the events of those days (from_calendar_dates, _apply_schedule_filter).
THEOREM DaysInclusive == Spec => []CalendarDaysInclusive
<1>1. ClockOK => CalendarDaysInclusive
  BY DatesAreInclusive, QueriesAssumption DEF CalendarDaysInclusive, ClockOK
<1> QED
  BY <1>1, ClockIsATime, PTL

\* At every moment the four comparisons with a deletion date agree, for active
\* events and for canceled ones, which are never listed as expired
\* (get_visible_events, delete_due, get_non_expired_events,
\* get_expired_active_events).
THEOREM ReadingsOfDeletionAgree == Spec => []DeletionReadingsAgree
<1>1. ClockOK => DeletionReadingsAgree
  BY ReadingsOfADate, QueriesAssumption DEF DeletionReadingsAgree, ClockOK
<1> QED
  BY <1>1, ClockIsATime, PTL

----------------------------------------------------------------------------
(* Counting.                                                               *)

\* Sets of ids are finite, and none is larger than the table.
LEMMA SetsOfIds ==
    ASSUME NEW S \in SUBSET Ids
    PROVE  IsFiniteSet(S) /\ Cardinality(S) \in 0..MaxEvents
<1>1. IsFiniteSet(Ids) /\ Cardinality(Ids) = MaxEvents
  BY FS_Interval, QueriesAssumption DEF Ids
<1> QED
  BY <1>1, FS_Subset, FS_CardinalityType

\* A larger set of ids has more elements (what get_page counts).
LEMMA MoreIds ==
    ASSUME NEW S \in SUBSET Ids, NEW T \in SUBSET Ids, S \subseteq T
    PROVE  Cardinality(S) <= Cardinality(T)
BY SetsOfIds, FS_Subset

\* And one more has one more.
LEMMA OneMoreId ==
    ASSUME NEW S \in SUBSET Ids, NEW id \in Ids \ S
    PROVE  Cardinality(S \union {id}) = Cardinality(S) + 1
BY SetsOfIds, FS_AddElement

\* The number of pages is not smaller for a larger total.
LEMMA PagesGrow ==
    ASSUME NEW n \in Nat, NEW m \in Nat, n <= m
    PROVE  pages(n) \in Nat /\ pages(n) <= pages(m)
<1>1. PageSize \in Nat /\ PageSize > 0
  BY QueriesAssumption
<1> QED
  BY <1>1 DEF pages

\* The offsets of the pages.
LEMMA Offsets ==
    ASSUME NEW page \in Nat \ {0}
    PROVE  /\ Offset(page) \in Nat
           /\ Offset(page + 1) = Offset(page) + PageSize
BY QueriesAssumption DEF Offset

----------------------------------------------------------------------------
(* Types.                                                                  *)

Listings ==
    [kind : Kinds, step : Steps, started : FirstTime..MaxTime, page : Nat \ {0},
     total : 0..MaxEvents, batch : SUBSET PageRow, items : SUBSET Item]

\* The rows that are there are some of the ids.
LEMMA SelectedIds == filtered_ids \in SUBSET Ids /\ ExistingIds \in SUBSET Ids
BY DEF filtered_ids, ExistingIds

\* There is a first page, and a first id.
LEMMA FirstPage == 1 <= pages(MaxEvents) /\ 1 \in Ids
<1>1. pages(1) = 1
  BY QueriesAssumption DEF pages
<1>2. pages(1) <= pages(MaxEvents)
  BY PagesGrow, QueriesAssumption
<1> QED
  BY <1>1, <1>2, QueriesAssumption DEF Ids

\* A new query is a listing.
LEMMA NewListingOK ==
    ASSUME TypeOK, NEW kind \in Kinds, NEW page \in Nat \ {0}
    PROVE  NewListing(kind, page) \in Listings
BY QueriesAssumption DEF TypeOK, NewListing, Listings, Steps

\* So is one that has ended.
LEMMA EndedOK ==
    ASSUME TypeOK, NEW step \in Steps
    PROVE  /\ Ended(step) \in Listings /\ Ended(step).kind = listing.kind
           /\ Ended(step).page = 1 /\ Ended(step).step = step /\ Ended(step).items = {}
<1>1. /\ listing.kind \in Kinds /\ listing.started \in FirstTime..MaxTime
  BY DEF TypeOK
<1>2. /\ NewListing(listing.kind, 1) \in Listings
      /\ NewListing(listing.kind, 1).kind = listing.kind
      /\ NewListing(listing.kind, 1).page = 1
      /\ NewListing(listing.kind, 1).items = {}
  BY <1>1, NewListingOK DEF NewListing
<1> DEFINE new == NewListing(listing.kind, 1)
<1>3. Ended(step) = [new EXCEPT !.step = step, !.started = listing.started]
  BY DEF Ended
<1> HIDE DEF new
<1>4. new \in Listings /\ new.kind = listing.kind /\ new.page = 1 /\ new.items = {}
  BY <1>2 DEF new
<1> QED
  BY <1>1, <1>3, <1>4 DEF Listings

\* What a query begins with.
LEMMA NoChangeOK == NoChange \in Changes
BY DEF NoChange, Changes

\* A query that starts.
LEMMA StartType ==
    ASSUME TypeOK, NEW kind \in Kinds, NEW page \in Nat \ {0}, kind = "visible" => page = 1,
           kind = "event" => page \in Ids, Start(kind, page)
    PROVE  TypeOK'
<1>1. /\ listing' = NewListing(kind, page) /\ changed' = NoChange
      /\ UNCHANGED <<now, events, nextId, locations>>
  BY DEF Start
<1>2. listing' \in Listings /\ listing'.kind = kind /\ listing'.page = page
  BY <1>1, NewListingOK DEF NewListing
<1>3. /\ listing'.kind = "visible" => listing'.page <= pages(MaxEvents)
      /\ listing'.kind = "event" => listing'.page \in Ids
  BY <1>2, FirstPage
<1> QED
  BY <1>1, <1>2, <1>3, NoChangeOK DEF TypeOK, Listings

\* The two statements of a page and the look at the locations.
LEMMA CountType == TypeOK /\ Count => TypeOK'
<1> SUFFICES ASSUME TypeOK, Count PROVE TypeOK'
  OBVIOUS
<1>1. Cardinality(filtered_ids) \in 0..MaxEvents
  BY SetsOfIds, SelectedIds
<1>2. listing \in Listings /\ UNCHANGED <<now, events, nextId, locations, changed>>
  BY DEF TypeOK, Listings, Count
<1>3. listing' = [listing EXCEPT !.step = "rows", !.total = Cardinality(filtered_ids)]
  BY DEF Count
<1>4. listing' \in Listings /\ listing'.kind = listing.kind /\ listing'.page = listing.page
  BY <1>1, <1>2, <1>3 DEF Listings, Steps
<1> QED
  BY <1>2, <1>4 DEF TypeOK, Listings

LEMMA ReadRowsType == TypeOK /\ ReadRows => TypeOK'
<1> SUFFICES ASSUME TypeOK, ReadRows PROVE TypeOK'
  OBVIOUS
<1> DEFINE ids == IF listing.kind = "event" THEN {listing.page} ELSE page_rows(listing.page)
<1>2. listing \in Listings /\ UNCHANGED <<now, events, nextId, locations, changed>>
  BY DEF TypeOK, Listings, ReadRows
<1>3. CASE listing.kind = "event" /\ ~Exists(listing.page)
  <2>1. listing' = Ended("done")
    BY <1>3 DEF ReadRows
  <2> QED
    BY <1>2, <1>3, <2>1, EndedOK, FirstPage DEF TypeOK, Listings, Steps
<1>4. CASE ~(listing.kind = "event" /\ ~Exists(listing.page))
  <2>1. listing' = [listing EXCEPT !.step = "details", !.batch = {RowOf(id) : id \in ids}]
    BY <1>4 DEF ReadRows
  <2>2. \A id \in ids : id \in Ids /\ events[id] \in Row
    BY <1>4 DEF page_rows, filtered_ids, ExistingIds, Exists, TypeOK
  <2>3. {RowOf(id) : id \in ids} \in SUBSET PageRow
    <3> HIDE DEF ids
    <3>1. \A id \in ids : RowOf(id) \in PageRow
      BY <2>2 DEF RowOf, PageRow, Row
    <3> QED
      BY <3>1
  <2> HIDE DEF ids
  <2>4. listing' \in Listings /\ listing'.kind = listing.kind /\ listing'.page = listing.page
    BY <1>2, <2>1, <2>3 DEF Listings, Steps
  <2> QED
    BY <1>2, <2>4 DEF TypeOK, Listings
<1> QED
  BY <1>3, <1>4

\* What a page gives the listing.
LEMMA DetailsAreItems ==
    ASSUME TypeOK
    PROVE  details \in SUBSET Item
<1>1. listing.page \in Nat \ {0} /\ listing.batch \in SUBSET PageRow
  BY DEF TypeOK
<1> QED
  BY <1>1 DEF details, PageRow, Item

LEMMA DetailsType == TypeOK /\ Details => TypeOK'
<1> SUFFICES ASSUME TypeOK, Details PROVE TypeOK'
  OBVIOUS
<1>1. listing \in Listings /\ UNCHANGED <<now, events, nextId, locations, changed>>
  BY DEF TypeOK, Listings, Details
<1>2. /\ listing'.kind = listing.kind
      /\ listing' \in Listings
      /\ \/ listing'.page = 1
         \/ listing'.page = listing.page
         \/ listing.kind = "visible" /\ listing'.page <= pages(MaxEvents)
  <2>1. CASE LocationGone
    <3>1. listing' = Ended("failed")
      BY <2>1 DEF Details
    <3> QED
      BY <3>1, EndedOK DEF Steps
  <2>2. CASE ~LocationGone /\ listing.kind # "visible"
    <3>1. listing' = [listing EXCEPT !.step = "done", !.batch = {}, !.items = details]
      BY <2>2 DEF Details, AfterPage
    <3> QED
      BY <1>1, <3>1, DetailsAreItems DEF Listings, Steps
  <2>3. CASE ~LocationGone /\ listing.kind = "visible" /\ listing.page >= pages(listing.total)
    <3> DEFINE end == Ended("done")
    <3>1. listing' = [end EXCEPT !.items = visible_items(listing.items \union details)]
      BY <2>3 DEF Details, AfterPage
    <3>2. visible_items(listing.items \union details) \in SUBSET Item
      BY <1>1, DetailsAreItems DEF visible_items, Listings
    <3>3. end \in Listings /\ end.kind = listing.kind /\ end.page = 1
      BY EndedOK DEF Steps
    <3> HIDE DEF end
    <3> QED
      BY <3>1, <3>2, <3>3 DEF Listings
  <2>4. CASE ~LocationGone /\ listing.kind = "visible" /\ ~(listing.page >= pages(listing.total))
    <3>1. listing' = [listing EXCEPT !.step = "count", !.total = 0, !.batch = {},
                                     !.page = listing.page + 1, !.items = @ \union details]
      BY <2>4 DEF Details, AfterPage, NextPage
    <3>2. listing.page \in Nat \ {0} /\ listing.total \in Nat /\ listing.total <= MaxEvents
      BY <1>1, QueriesAssumption DEF Listings
    <3>3. /\ pages(listing.total) \in Nat
          /\ pages(listing.total) <= pages(MaxEvents)
      BY <3>2, PagesGrow, QueriesAssumption
    <3>4. pages(MaxEvents) \in Nat
      BY PagesGrow, QueriesAssumption
    <3>5. listing.page + 1 <= pages(MaxEvents) /\ listing.page + 1 \in Nat \ {0}
      BY <2>4, <3>2, <3>3, <3>4
    <3>6. 0 \in 0..MaxEvents
      BY QueriesAssumption
    <3>7. listing' \in Listings /\ listing'.kind = listing.kind
          /\ listing'.page = listing.page + 1
      BY <1>1, <3>1, <3>5, <3>6, DetailsAreItems DEF Listings, Steps
    <3> QED
      BY <2>4, <3>5, <3>7
  <2> QED
    BY <2>1, <2>2, <2>3, <2>4
<1>3. /\ listing'.kind = "visible" => listing'.page <= pages(MaxEvents)
      /\ listing'.kind = "event" => listing'.page \in Ids
  BY <1>1, <1>2, FirstPage DEF TypeOK
<1> QED
  BY <1>1, <1>2, <1>3 DEF TypeOK, Listings

\* What is remembered of a change.
LEMMA RememberType ==
    ASSUME TypeOK, NEW c \in Changes, Remember(c)
    PROVE  changed' \in Changes
BY DEF TypeOK, Remember, Changes

LEMMA CreateType == TypeOK /\ CreateEvent => TypeOK'
<1> SUFFICES ASSUME TypeOK, CreateEvent PROVE TypeOK'
  OBVIOUS
<1>1. PICK d \in DeletionDates, l \in locations :
          events' = [events EXCEPT ![nextId] = [deletion_scheduled_at |-> d, place |-> l]]
  BY DEF CreateEvent
<1>2. events' \in [Ids -> Row \union {None}]
  BY <1>1 DEF TypeOK, Row
<1>3. nextId' \in 1..(MaxEvents + 1)
  BY QueriesAssumption DEF CreateEvent, TypeOK, Ids
<1>4. [changed EXCEPT !.hidden = @ \union {nextId}] \in Changes
  BY DEF CreateEvent, TypeOK, Changes
<1>5. changed' \in Changes
  BY <1>4, RememberType DEF CreateEvent
<1>6. UNCHANGED <<now, locations, listing>>
  BY DEF CreateEvent
<1> QED
  BY <1>2, <1>3, <1>5, <1>6 DEF TypeOK

LEMMA UpdateType ==
    ASSUME TypeOK, NEW id \in Ids, UpdateEvent(id)
    PROVE  TypeOK'
<1>1. PICK d \in DeletionDates, l \in locations :
          /\ events' = [events EXCEPT ![id] = [deletion_scheduled_at |-> d, place |-> l]]
          /\ Remember([changed EXCEPT
                 !.moved = @ \/ l # events[id].place,
                 !.hidden = IF visible(events'[id], listing.started) THEN @ ELSE @ \union {id}])
  BY DEF UpdateEvent
<1>2. events' \in [Ids -> Row \union {None}]
  BY <1>1 DEF TypeOK, Row
<1> DEFINE gone == visible(events'[id], listing.started)
           moved == changed.moved \/ l # events[id].place
           c == [changed EXCEPT !.moved = @ \/ l # events[id].place,
                                !.hidden = IF gone THEN @ ELSE @ \union {id}]
<1>3. moved \in BOOLEAN
  OBVIOUS
<1>4. c = [changed EXCEPT !.moved = moved, !.hidden = IF gone THEN @ ELSE @ \union {id}]
  BY DEF TypeOK, Changes
<1> HIDE DEF moved, gone
<1>5. c \in Changes
  BY <1>3, <1>4 DEF TypeOK, Changes
<1>6. changed' \in Changes
  BY <1>1, <1>5, RememberType DEF gone
<1>7. UNCHANGED <<now, nextId, locations, listing>>
  BY DEF UpdateEvent
<1> QED
  BY <1>2, <1>6, <1>7 DEF TypeOK

LEMMA DeleteType == TypeOK /\ DeleteDue => TypeOK'
<1> SUFFICES ASSUME TypeOK, DeleteDue PROVE TypeOK'
  OBVIOUS
<1> DEFINE gone == {id \in ExistingIds : due(events[id], now)}
<1>1. /\ events' = [id \in Ids |-> IF id \in gone THEN None ELSE events[id]]
      /\ Remember([changed EXCEPT !.deleted = @ + Cardinality(gone), !.hidden = @ \union gone])
      /\ UNCHANGED <<now, nextId, locations, listing>>
  BY DEF DeleteDue
<1>2. gone \in SUBSET Ids
  BY SelectedIds
<1> HIDE DEF gone
<1>3. events' \in [Ids -> Row \union {None}]
  BY <1>1 DEF TypeOK
<1>4. Cardinality(gone) \in Nat
  BY <1>2, SetsOfIds, QueriesAssumption
<1>5. [changed EXCEPT !.deleted = @ + Cardinality(gone), !.hidden = @ \union gone] \in Changes
  <2> DEFINE deleted == changed.deleted + Cardinality(gone)
             hidden == changed.hidden \union gone
  <2>1. changed \in Changes
    BY DEF TypeOK
  <2>2. deleted \in Nat /\ hidden \in SUBSET Ids
    BY <1>2, <1>4, <2>1 DEF Changes
  <2>3. [changed EXCEPT !.deleted = @ + Cardinality(gone), !.hidden = @ \union gone]
          = [changed EXCEPT !.deleted = deleted, !.hidden = hidden]
    BY <2>1 DEF Changes
  <2> HIDE DEF deleted, hidden
  <2> QED
    BY <2>1, <2>2, <2>3 DEF Changes
<1>6. changed' \in Changes
  BY <1>1, <1>5, RememberType
<1> QED
  BY <1>1, <1>3, <1>6 DEF TypeOK

\* The types hold at first and always.
LEMMA InitType == Init => TypeOK
<1> SUFFICES ASSUME Init PROVE TypeOK
  OBVIOUS
<1>1. /\ now = FirstTime /\ now \in FirstTime..MaxTime
      /\ events \in [Ids -> Row \union {None}]
      /\ locations = Places /\ changed \in Changes
      /\ nextId \in 1..(MaxEvents + 1)
  BY QueriesAssumption, NoChangeOK DEF Init
<1>2. listing = [kind |-> "visible", step |-> "idle", started |-> now, page |-> 1,
                 total |-> 0, batch |-> {}, items |-> {}]
  BY DEF Init, NewListing
<1>3. 0 \in 0..MaxEvents /\ 1 \in Nat \ {0}
  BY QueriesAssumption
<1>4. listing \in Listings /\ listing.kind = "visible" /\ listing.page = 1
  BY <1>1, <1>2, <1>3 DEF Listings, Kinds, Steps
<1> QED
  BY <1>1, <1>4, FirstPage DEF TypeOK, Listings

LEMMA StepType == TypeOK /\ [Next]_vars => TypeOK'
<1> SUFFICES ASSUME TypeOK, [Next]_vars PROVE TypeOK'
  OBVIOUS
<1>1. CASE Tick
  BY <1>1, QueriesAssumption DEF Tick, TypeOK
<1>2. CASE CreateEvent
  BY <1>2, CreateType
<1>3. CASE DeleteDue
  BY <1>3, DeleteType
<1>4. ASSUME NEW id \in Ids, UpdateEvent(id) PROVE TypeOK'
  BY <1>4, UpdateType
<1>5. ASSUME NEW l \in Places, DeleteLocation(l) PROVE TypeOK'
  BY <1>5 DEF DeleteLocation, TypeOK
<1>6. CASE GetVisibleEvents
  BY <1>6, StartType DEF GetVisibleEvents, Kinds
<1>7. CASE GetNonExpiredEvents
  BY <1>7, StartType DEF GetNonExpiredEvents, Kinds
<1>8. CASE GetEvent
  <2>1. PICK id \in Ids : Start("event", id)
    BY <1>8 DEF GetEvent
  <2>2. id \in Nat \ {0} /\ "event" \in Kinds
    BY DEF Ids, Kinds
  <2> QED
    BY <2>1, <2>2, StartType
<1>9. CASE Query
  BY <1>9, CountType, ReadRowsType, DetailsType DEF Query
<1>10. CASE UNCHANGED vars
  BY <1>10 DEF vars, TypeOK
<1> QED
  BY <1>1, <1>2, <1>3, <1>4, <1>5, <1>6, <1>7, <1>8, <1>9, <1>10 DEF Next

\* Every value is of its type, and a listing never asks for a page past the
\* last one there can be (get_visible_events).
THEOREM TypeCorrectness == Spec => []TypeOK
BY InitType, StepType, PTL DEF Spec

----------------------------------------------------------------------------
(* No event twice, and no failure without a change.                        *)

\* How many of the events there are have ids up to this one.
UpTo(id) == Cardinality({i \in ExistingIds : i <= id})

IdsBelow == \A id \in Ids : Exists(id) => id < nextId

PlacesThere == \A id \in Ids : Exists(id) => events[id].place \in locations

\* What has been listed lies before the offset of the page that comes, and there
\* it stays: deletions move events to smaller offsets, and new ones come last.
ItemsBehind ==
    listing.kind = "visible" /\ InProgress =>
        \A item \in listing.items :
            /\ item.id < nextId
            /\ item.page < listing.page
            /\ UpTo(item.id) <= Offset(listing.page)

\* A page that has been read comes after that, and lies before the next offset.
BatchAhead ==
    listing.kind = "visible" /\ listing.step = "details" =>
        \A row \in listing.batch :
            /\ row.id < nextId
            /\ UpTo(row.id) <= Offset(listing.page + 1)
            /\ \A item \in listing.items : item.id < row.id

BatchRows ==
    listing.step = "details" =>
        \A r1, r2 \in listing.batch : r1.id = r2.id => r1 = r2

\* Unless events changed, those of the page are where they were.
BatchPlaces ==
    listing.step = "details" =>
        \/ changed.moved
        \/ changed.deleted > 0
        \/ \A row \in listing.batch : Exists(row.id) /\ events[row.id].place = row.place

Inv ==
    /\ TypeOK
    /\ IdsBelow
    /\ PlacesThere
    /\ ItemsBehind
    /\ BatchAhead
    /\ BatchRows
    /\ BatchPlaces
    /\ NoEventTwice
    /\ FailsOnlyAfterChange

\* Before the first query.
LEMMA InitInv == Init => Inv
<1> SUFFICES ASSUME Init PROVE Inv
  OBVIOUS
<1>1. TypeOK
  BY InitType
<1>2. listing.step = "idle" /\ listing.items = {}
  BY DEF Init, NewListing
<1>3. IdsBelow /\ PlacesThere
  BY <1>1 DEF Init, IdsBelow, PlacesThere, Exists, TypeOK, Row
<1> QED
  BY <1>1, <1>2, <1>3 DEF Inv, ItemsBehind, BatchAhead, BatchRows, BatchPlaces,
     NoEventTwice, FailsOnlyAfterChange, InProgress

\* A change of the table moves no event past an offset.
LEMMA TableStep ==
    ASSUME Inv,
           TypeOK', listing' = listing, nextId <= nextId',
           \A id \in Ids : id < nextId => UpTo(id)' <= UpTo(id)
    PROVE  ItemsBehind' /\ BatchAhead' /\ BatchRows' /\ NoEventTwice'
<1>1. /\ listing.page \in Nat \ {0}
      /\ nextId \in Int /\ nextId' \in Int
      /\ \A item \in listing.items : item.id \in Ids /\ item.id \in Int
      /\ \A row \in listing.batch : row.id \in Ids /\ row.id \in Int
  BY DEF Inv, TypeOK, Item, PageRow, Ids
<1>2. /\ \A id \in Ids : UpTo(id) \in Int
      /\ \A id \in Ids : UpTo(id)' \in Int
  <2>1. \A id \in Ids : {i \in ExistingIds : i <= id} \in SUBSET Ids
    BY SelectedIds
  <2>2. \A id \in Ids : {i \in ExistingIds' : i <= id} \in SUBSET Ids
    BY DEF ExistingIds
  <2> QED
    BY <2>1, <2>2, SetsOfIds, QueriesAssumption DEF UpTo
<1>3. Offset(listing.page) \in Int /\ Offset(listing.page + 1) \in Int
  BY <1>1, Offsets
<1>4. ItemsBehind'
  <2> SUFFICES ASSUME listing.kind = "visible", InProgress, NEW item \in listing.items
               PROVE  /\ item.id < nextId'
                      /\ item.page < listing.page
                      /\ UpTo(item.id)' <= Offset(listing.page)
    BY DEF ItemsBehind, InProgress, Offset
  <2>1. /\ item.id < nextId /\ item.page < listing.page
        /\ UpTo(item.id) <= Offset(listing.page)
    BY DEF Inv, ItemsBehind
  <2>2. UpTo(item.id)' <= UpTo(item.id)
    BY <1>1, <2>1
  <2> QED
    BY <1>1, <1>2, <1>3, <2>1, <2>2
<1>5. BatchAhead'
  <2> SUFFICES ASSUME listing.kind = "visible", listing.step = "details",
                      NEW row \in listing.batch
               PROVE  /\ row.id < nextId'
                      /\ UpTo(row.id)' <= Offset(listing.page + 1)
                      /\ \A item \in listing.items : item.id < row.id
    BY DEF BatchAhead, Offset
  <2>1. /\ row.id < nextId
        /\ UpTo(row.id) <= Offset(listing.page + 1)
        /\ \A item \in listing.items : item.id < row.id
    BY DEF Inv, BatchAhead
  <2>2. UpTo(row.id)' <= UpTo(row.id)
    BY <1>1, <2>1
  <2> QED
    BY <1>1, <1>2, <1>3, <2>1, <2>2
<1> QED
  BY <1>4, <1>5 DEF Inv, BatchRows, NoEventTwice

\* Unless an event gets an id below those to come, the counts do not grow.
LEMMA CountsShrink ==
    ASSUME TypeOK, \A i \in Ids : i < nextId /\ Exists(i)' => Exists(i)
    PROVE  \A id \in Ids : id < nextId => UpTo(id)' <= UpTo(id)
<1> SUFFICES ASSUME NEW id \in Ids, id < nextId
             PROVE  UpTo(id)' <= UpTo(id)
  OBVIOUS
<1> DEFINE S == {i \in ExistingIds : i <= id}
           T == {i \in ExistingIds' : i <= id}
<1>1. nextId \in Int /\ \A i \in Ids : i \in Int
  BY DEF TypeOK, Ids
<1>2. T \subseteq S
  BY <1>1 DEF ExistingIds
<1>3. S \in SUBSET Ids
  BY DEF ExistingIds
<1>4. T \in SUBSET Ids
  BY <1>2, <1>3
<1>5. Cardinality(T) <= Cardinality(S)
  BY <1>2, <1>3, <1>4, MoreIds
<1> QED
  BY <1>5 DEF UpTo

\* A query that has failed remembers why.
LEMMA StillFailed ==
    ASSUME Inv, NEW c, Remember(c), listing' = listing
    PROVE  FailsOnlyAfterChange'
<1>1. CASE listing.step = "failed"
  BY <1>1 DEF Inv, Remember, InProgress, FailsOnlyAfterChange
<1>2. CASE listing.step # "failed"
  BY <1>2 DEF FailsOnlyAfterChange
<1> QED
  BY <1>1, <1>2

LEMMA CreateInv == Inv /\ CreateEvent => Inv'
<1> SUFFICES ASSUME Inv, CreateEvent PROVE Inv'
  OBVIOUS
<1>0. PICK d \in DeletionDates, l \in locations :
          events' = [events EXCEPT ![nextId] = [deletion_scheduled_at |-> d, place |-> l]]
  BY DEF CreateEvent
<1>1. /\ TypeOK /\ TypeOK' /\ nextId \in Ids /\ nextId' = nextId + 1
      /\ UNCHANGED <<now, locations, listing>>
  BY CreateType DEF Inv, CreateEvent
<1>2. /\ nextId \in Int /\ \A i \in Ids : i \in Int
      /\ \A i \in Ids : i # nextId => events'[i] = events[i]
      /\ events'[nextId].place = l
      /\ ~Exists(nextId)
  BY <1>0, <1>1 DEF TypeOK, Ids, Inv, IdsBelow
<1>3. IdsBelow'
  BY <1>1, <1>2 DEF Inv, IdsBelow, Exists
<1>4. PlacesThere'
  BY <1>1, <1>2 DEF Inv, PlacesThere, Exists
<1>5. \A id \in Ids : id < nextId => UpTo(id)' <= UpTo(id)
  BY <1>1, <1>2, CountsShrink DEF Exists
<1>6. ItemsBehind' /\ BatchAhead' /\ BatchRows' /\ NoEventTwice'
  BY <1>1, <1>2, <1>5, TableStep
<1>7. Remember([changed EXCEPT !.hidden = @ \union {nextId}])
  BY DEF CreateEvent
<1>8. BatchPlaces'
  <2> SUFFICES ASSUME listing.step = "details", ~changed'.moved, ~(changed'.deleted > 0),
                      NEW row \in listing.batch
               PROVE  Exists(row.id)' /\ events'[row.id].place = row.place
    BY <1>1 DEF BatchPlaces
  <2>1. changed'.moved = changed.moved /\ changed'.deleted = changed.deleted
    BY <1>1, <1>7 DEF Remember, TypeOK, Changes
  <2>2. Exists(row.id) /\ events[row.id].place = row.place /\ row.id \in Ids
    BY <2>1 DEF Inv, BatchPlaces, TypeOK, PageRow
  <2> QED
    BY <1>2, <2>2 DEF Exists
<1>9. FailsOnlyAfterChange'
  BY <1>1, <1>7, StillFailed
<1> QED
  BY <1>1, <1>3, <1>4, <1>6, <1>8, <1>9 DEF Inv

LEMMA UpdateInv ==
    ASSUME Inv, NEW id \in Ids, UpdateEvent(id)
    PROVE  Inv'
<1>0. PICK d \in DeletionDates, l \in locations :
          /\ events' = [events EXCEPT ![id] = [deletion_scheduled_at |-> d, place |-> l]]
          /\ Remember([changed EXCEPT
                 !.moved = @ \/ l # events[id].place,
                 !.hidden = IF visible(events'[id], listing.started) THEN @ ELSE @ \union {id}])
  BY DEF UpdateEvent
<1>1. /\ TypeOK /\ TypeOK' /\ Exists(id)
      /\ UNCHANGED <<now, nextId, locations, listing>>
  BY UpdateType DEF Inv, UpdateEvent
<1>2. /\ \A i \in Ids : i # id => events'[i] = events[i]
      /\ events'[id].place = l
      /\ \A i \in Ids : Exists(i)' => Exists(i)
      /\ Exists(id)' <=> events'[id] # None
  BY <1>0, <1>1 DEF TypeOK, Exists
<1>3. IdsBelow'
  BY <1>1, <1>2 DEF Inv, IdsBelow
<1>4. PlacesThere'
  BY <1>1, <1>2 DEF Inv, PlacesThere, Exists
<1>5. \A i \in Ids : i < nextId => UpTo(i)' <= UpTo(i)
  BY <1>1, <1>2, CountsShrink
<1>6. nextId <= nextId'
  BY <1>1 DEF TypeOK
<1>7. ItemsBehind' /\ BatchAhead' /\ BatchRows' /\ NoEventTwice'
  BY <1>1, <1>5, <1>6, TableStep
<1>8. BatchPlaces'
  <2> SUFFICES ASSUME listing.step = "details", ~changed'.moved, ~(changed'.deleted > 0),
                      NEW row \in listing.batch
               PROVE  Exists(row.id)' /\ events'[row.id].place = row.place
    BY <1>1 DEF BatchPlaces
  <2>1. changed'.moved = (changed.moved \/ l # events[id].place)
        /\ changed'.deleted = changed.deleted
    BY <1>0, <1>1 DEF Remember, InProgress, TypeOK, Changes
  <2>2. Exists(row.id) /\ events[row.id].place = row.place /\ row.id \in Ids
    BY <2>1 DEF Inv, BatchPlaces, TypeOK, PageRow
  <2>3. l = events[id].place
    BY <2>1
  <2>4. Exists(id)'
    <3>1. events'[id] = [deletion_scheduled_at |-> d, place |-> l]
      BY <1>0, <1>1 DEF TypeOK
    <3>2. l \in Places
      BY <1>1 DEF TypeOK
    <3> QED
      BY <3>1, <3>2, RowAssumption DEF Exists, Row
  <2> QED
    BY <1>2, <2>2, <2>3, <2>4 DEF Exists
<1>9. FailsOnlyAfterChange'
  BY <1>0, <1>1, StillFailed
<1> QED
  BY <1>1, <1>3, <1>4, <1>7, <1>8, <1>9 DEF Inv

LEMMA DeleteInv == Inv /\ DeleteDue => Inv'
<1> SUFFICES ASSUME Inv, DeleteDue PROVE Inv'
  OBVIOUS
<1> DEFINE gone == {id \in ExistingIds : due(events[id], now)}
<1>0. /\ gone # {} /\ gone \in SUBSET Ids
      /\ events' = [id \in Ids |-> IF id \in gone THEN None ELSE events[id]]
      /\ Remember([changed EXCEPT !.deleted = @ + Cardinality(gone), !.hidden = @ \union gone])
  BY SelectedIds DEF DeleteDue
<1>1. /\ TypeOK /\ TypeOK' /\ UNCHANGED <<now, nextId, locations, listing>>
  BY DeleteType DEF Inv, DeleteDue
<1> HIDE DEF gone
<1>2. \A i \in Ids : Exists(i)' => Exists(i) /\ events'[i] = events[i]
  BY <1>0 DEF Exists
<1>3. IdsBelow'
  BY <1>1, <1>2 DEF Inv, IdsBelow
<1>4. PlacesThere'
  BY <1>1, <1>2 DEF Inv, PlacesThere
<1>5. \A i \in Ids : i < nextId => UpTo(i)' <= UpTo(i)
  BY <1>1, <1>2, CountsShrink
<1>6. nextId <= nextId'
  BY <1>1 DEF TypeOK
<1>7. ItemsBehind' /\ BatchAhead' /\ BatchRows' /\ NoEventTwice'
  BY <1>1, <1>5, <1>6, TableStep
<1>8. BatchPlaces'
  <2> SUFFICES ASSUME listing.step = "details"
               PROVE  changed'.deleted > 0
    BY <1>1 DEF BatchPlaces
  <2>1. Cardinality(gone) \in Nat \ {0}
    BY <1>0, SetsOfIds, FS_EmptySet, QueriesAssumption
  <2>2. changed.deleted \in Nat
    BY <1>1 DEF TypeOK, Changes
  <2>3. changed'.deleted = changed.deleted + Cardinality(gone)
    BY <1>0, <1>1 DEF Remember, InProgress, TypeOK, Changes
  <2> QED
    BY <2>1, <2>2, <2>3
<1>9. FailsOnlyAfterChange'
  BY <1>0, <1>1, StillFailed
<1> QED
  BY <1>1, <1>3, <1>4, <1>7, <1>8, <1>9 DEF Inv

\* The clock and the cleanup of locations concern no listing.
LEMMA OtherInv ==
    ASSUME Inv, Tick \/ \E l \in Places : DeleteLocation(l)
    PROVE  Inv'
<1>1. /\ TypeOK /\ TypeOK' /\ UNCHANGED <<events, nextId, listing, changed>>
  BY StepType DEF Inv, Tick, DeleteLocation, Next
<1>2. PlacesThere'
  <2>1. CASE Tick
    BY <2>1 DEF Tick, Inv, PlacesThere, Exists
  <2>2. ASSUME NEW l \in Places, DeleteLocation(l) PROVE PlacesThere'
    BY <2>2 DEF DeleteLocation, Inv, PlacesThere, Exists, ExistingIds
  <2> QED
    BY <2>1, <2>2
<1>3. UpTo(0)' = UpTo(0) /\ \A id \in Ids : UpTo(id)' = UpTo(id)
  BY <1>1 DEF UpTo, ExistingIds, Exists
<1> QED
  BY <1>1, <1>2, <1>3 DEF Inv, IdsBelow, ItemsBehind, BatchAhead, BatchRows, BatchPlaces,
     NoEventTwice, FailsOnlyAfterChange, InProgress, Exists, UpTo, ExistingIds

\* A query starts with nothing listed, and ends with nothing to come.
LEMMA StartInv ==
    ASSUME Inv, GetVisibleEvents \/ GetNonExpiredEvents \/ GetEvent
    PROVE  Inv'
<1>1. TypeOK'
  BY StepType DEF Inv, Next
<1>2. PICK kind \in Kinds, page \in Nat : Start(kind, page)
  BY DEF GetVisibleEvents, GetNonExpiredEvents, GetEvent, Kinds, Ids
<1>3. /\ listing'.items = {} /\ listing'.step \in {"rows", "count"}
      /\ UNCHANGED <<events, nextId, locations>>
  BY <1>2 DEF Start, NewListing
<1> QED
  BY <1>1, <1>3 DEF Inv, IdsBelow, PlacesThere, ItemsBehind, BatchAhead, BatchRows,
     BatchPlaces, NoEventTwice, FailsOnlyAfterChange, InProgress, Exists

\* The first statement of a page lists nothing.
LEMMA CountInv == Inv /\ Count => Inv'
<1> SUFFICES ASSUME Inv, Count PROVE Inv'
  OBVIOUS
<1>1. TypeOK'
  BY CountType DEF Inv
<1>2. listing \in Listings
  BY DEF Inv, TypeOK, Listings
<1>3. /\ listing'.items = listing.items /\ listing'.step = "rows"
      /\ listing'.page = listing.page /\ listing'.kind = listing.kind
      /\ listing.step = "count"
      /\ UNCHANGED <<events, nextId, locations, changed>>
  BY <1>2 DEF Count, Listings
<1> QED
  BY <1>1, <1>3 DEF Inv, IdsBelow, PlacesThere, ItemsBehind, BatchAhead, BatchRows,
     BatchPlaces, NoEventTwice, FailsOnlyAfterChange, InProgress, Exists, UpTo,
     ExistingIds

\* The rows of a page lie from its offset on, and before the next one.
LEMMA PageRows ==
    ASSUME Inv, listing.kind = "visible", NEW id \in page_rows(listing.page)
    PROVE  /\ id \in ExistingIds
           /\ Offset(listing.page) < UpTo(id)
           /\ UpTo(id) <= Offset(listing.page + 1)
<1>1. filtered_ids = ExistingIds
  BY DEF filtered_ids, apply_deletion_filter, NoFilters, Filters
<1>2. /\ id \in ExistingIds
      /\ Offset(listing.page) <= Before(id) /\ Before(id) < Offset(listing.page) + PageSize
  BY <1>1 DEF page_rows
<1> DEFINE S == {i \in ExistingIds : i < id}
<1>3. S \in SUBSET Ids /\ id \in Ids \ S /\ \A i \in Ids : i \in Int
  BY <1>2 DEF ExistingIds, Ids
<1>4. {i \in ExistingIds : i <= id} = S \union {id}
  BY <1>2, <1>3 DEF ExistingIds
<1>5. Cardinality(S \union {id}) = Cardinality(S) + 1
  BY <1>3, OneMoreId
<1>6. UpTo(id) = Before(id) + 1
  BY <1>1, <1>4, <1>5 DEF UpTo, Before
<1>7. Before(id) \in Int
  BY <1>1, <1>3, SetsOfIds, QueriesAssumption DEF Before
<1>8. /\ Offset(listing.page) \in Nat
      /\ Offset(listing.page + 1) = Offset(listing.page) + PageSize
  BY Offsets DEF Inv, TypeOK
<1> QED
  BY <1>2, <1>6, <1>7, <1>8, QueriesAssumption

LEMMA ReadRowsInv == Inv /\ ReadRows => Inv'
<1> SUFFICES ASSUME Inv, ReadRows PROVE Inv'
  OBVIOUS
<1> DEFINE ids == IF listing.kind = "event" THEN {listing.page} ELSE page_rows(listing.page)
<1>1. /\ TypeOK /\ TypeOK' /\ listing \in Listings /\ listing.step = "rows"
      /\ UNCHANGED <<now, events, nextId, locations, changed>>
  BY ReadRowsType DEF Inv, TypeOK, Listings, ReadRows
<1>2. IdsBelow' /\ PlacesThere'
  BY <1>1 DEF Inv, IdsBelow, PlacesThere, Exists
<1>3. CASE listing.kind = "event" /\ ~Exists(listing.page)
  <2>1. listing' = Ended("done")
    BY <1>3 DEF ReadRows
  <2>2. listing'.step = "done" /\ listing'.items = {}
    BY <1>1, <2>1, EndedOK DEF Steps
  <2> QED
    BY <1>1, <1>2, <2>2 DEF Inv, ItemsBehind, BatchAhead, BatchRows, BatchPlaces,
       NoEventTwice, FailsOnlyAfterChange, InProgress
<1>4. CASE ~(listing.kind = "event" /\ ~Exists(listing.page))
  <2>1. listing' = [listing EXCEPT !.step = "details", !.batch = {RowOf(id) : id \in ids}]
    BY <1>4 DEF ReadRows
  <2>2. \A id \in ids : id \in Ids /\ Exists(id)
    BY <1>1, <1>4 DEF page_rows, filtered_ids, ExistingIds, TypeOK
  <2> HIDE DEF ids
  <2>3. /\ listing'.step = "details" /\ listing'.batch = {RowOf(id) : id \in ids}
        /\ listing'.kind = listing.kind /\ listing'.page = listing.page
        /\ listing'.items = listing.items
    BY <1>1, <2>1 DEF Listings
  <2>4. \A id : RowOf(id).id = id /\ RowOf(id).place = events[id].place
    BY DEF RowOf
  <2>5. ItemsBehind'
    BY <1>1, <2>3 DEF Inv, ItemsBehind, InProgress, UpTo, ExistingIds, Exists, Offset
  <2>6. BatchAhead'
    <3>0. ASSUME listing.kind = "visible",
                 \A id \in ids : /\ id < nextId
                                 /\ UpTo(id) <= Offset(listing.page + 1)
                                 /\ \A item \in listing.items : item.id < id
          PROVE  BatchAhead'
      <4>1. \A id : UpTo(id)' = UpTo(id)
        BY <1>1 DEF UpTo, ExistingIds, Exists
      <4>2. \A row \in listing'.batch : row.id \in ids
        BY <2>3, <2>4
      <4>3. Offset(listing'.page + 1) = Offset(listing.page + 1)
            /\ Offset(listing.page + 1)' = Offset(listing.page + 1)
        BY <2>3 DEF Offset
      <4>4. nextId' = nextId
        BY <1>1
      <4>5. \A row \in listing'.batch :
              /\ row.id < nextId'
              /\ UpTo(row.id)' <= Offset(listing.page + 1)'
              /\ \A item \in listing'.items : item.id < row.id
        BY <2>3, <3>0, <4>1, <4>2, <4>3, <4>4
      <4> QED
        BY <4>5 DEF BatchAhead
    <3>5. CASE listing.kind # "visible"
      BY <2>3, <3>5 DEF BatchAhead
    <3> SUFFICES ASSUME listing.kind = "visible", NEW id \in ids
                 PROVE  /\ id < nextId
                        /\ UpTo(id) <= Offset(listing.page + 1)
                        /\ \A item \in listing.items : item.id < id
      BY <3>0, <3>5
    <3>1. id \in page_rows(listing.page)
      BY DEF ids
    <3>2. id < nextId
      BY <2>2 DEF Inv, IdsBelow
    <3>3. Offset(listing.page) < UpTo(id) /\ UpTo(id) <= Offset(listing.page + 1)
      BY <3>1, PageRows
    <3>4. ASSUME NEW item \in listing.items PROVE item.id < id
      <4> DEFINE other == item.id
      <4>1. /\ other \in Ids /\ other \in Int /\ id \in Int
            /\ \A j \in Ids : j \in Int
        BY <1>1, <2>2 DEF Listings, Item, Ids
      <4>2. UpTo(other) <= Offset(listing.page)
        BY <1>1 DEF Inv, ItemsBehind, InProgress
      <4> HIDE DEF other
      <4>3. ASSUME id <= other PROVE UpTo(id) <= UpTo(other)
        <5> DEFINE S == {j \in ExistingIds : j <= id}
                   T == {j \in ExistingIds : j <= other}
        <5>0. T \in SUBSET Ids
          BY DEF ExistingIds
        <5>1. S \subseteq T
          <6> SUFFICES ASSUME NEW j \in ExistingIds, j <= id PROVE j <= other
            OBVIOUS
          <6>1. j \in Int
            BY <4>1 DEF ExistingIds
          <6> QED
            BY <4>1, <4>3, <6>1
        <5>2. S \in SUBSET Ids
          BY <5>0, <5>1
        <5>3. Cardinality(S) <= Cardinality(T)
          BY <5>0, <5>1, <5>2, MoreIds
        <5> QED
          BY <5>3 DEF UpTo
      <4>4. UpTo(id) \in Int /\ UpTo(other) \in Int
        <5>1. \A k : {j \in ExistingIds : j <= k} \in SUBSET Ids
          BY SelectedIds
        <5> QED
          BY <5>1, SetsOfIds, QueriesAssumption DEF UpTo
      <4>5. Offset(listing.page) \in Int
        BY <1>1, Offsets DEF Listings
      <4>6. other < id
        BY <3>3, <4>1, <4>2, <4>3, <4>4, <4>5
      <4> QED
        BY <4>6 DEF other
    <3> QED
      BY <3>2, <3>3, <3>4
  <2>7. BatchRows'
    BY <2>3, <2>4 DEF BatchRows
  <2>8. BatchPlaces'
    BY <1>1, <2>2, <2>3, <2>4 DEF BatchPlaces, Exists
  <2> QED
    BY <1>1, <1>2, <2>3, <2>5, <2>6, <2>7, <2>8 DEF Inv, NoEventTwice, FailsOnlyAfterChange
<1> QED
  BY <1>3, <1>4

\* The items of a page are its rows.
LEMMA ItemsOfRows ==
    ASSUME NEW item \in details
    PROVE  /\ item.page = listing.page
           /\ \E row \in listing.batch :
                 /\ item.id = row.id
                 /\ item = [id |-> row.id, deletion_scheduled_at |-> row.deletion_scheduled_at,
                            page |-> listing.page]
BY DEF details

\* A page has no event twice, and none that was listed before.
LEMMA NoneTwice ==
    ASSUME Inv, listing.step = "details", NEW i \in details, NEW j \in details, i # j
    PROVE  i.id # j.id /\ i.page = j.page
BY ItemsOfRows DEF Inv, BatchRows

LEMMA NoneBefore ==
    ASSUME Inv, listing.step = "details", listing.kind = "visible",
           NEW i \in listing.items, NEW j \in details
    PROVE  i.id < j.id /\ i.page < j.page /\ i.id \in Int /\ j.id \in Int
           /\ i.page \in Int /\ j.page \in Int
<1>1. i.id < j.id
  BY ItemsOfRows DEF Inv, BatchAhead
<1>2. i.page < j.page
  BY ItemsOfRows DEF Inv, ItemsBehind, InProgress
<1>3. i \in Item /\ j \in Item
  BY DetailsAreItems DEF Inv, TypeOK
<1> QED
  BY <1>1, <1>2, <1>3 DEF Item, Ids

\* With the next page, a listing still has no event twice.
LEMMA StillNoneTwice ==
    ASSUME Inv, listing.step = "details", listing.kind = "visible"
    PROVE  \A i, j \in listing.items \union details :
               i # j => i.id # j.id /\ (i.page < j.page => i.id < j.id)
<1> SUFFICES ASSUME NEW i \in listing.items \union details,
                    NEW j \in listing.items \union details, i # j
             PROVE  i.id # j.id /\ (i.page < j.page => i.id < j.id)
  OBVIOUS
<1>1. CASE i \in listing.items /\ j \in listing.items
  BY <1>1 DEF Inv, NoEventTwice
<1>2. CASE i \in listing.items /\ j \in details
  BY <1>2, NoneBefore
<1>3. CASE i \in details /\ j \in listing.items
  BY <1>3, NoneBefore
<1>4. CASE i \in details /\ j \in details
  <2>1. i.id # j.id /\ i.page = j.page
    BY <1>4, NoneTwice
  <2>2. i.page \in Int
    BY <1>4, DetailsAreItems DEF Item, Inv
  <2> QED
    BY <2>1, <2>2
<1> QED
  BY <1>1, <1>2, <1>3, <1>4

\* The look at the locations fails, answers, or goes on to the next page.
LEMMA DetailsInv == Inv /\ Details => Inv'
<1> SUFFICES ASSUME Inv, Details PROVE Inv'
  OBVIOUS
<1>1. /\ TypeOK /\ TypeOK' /\ listing \in Listings /\ listing.step = "details"
      /\ UNCHANGED <<now, events, nextId, locations, changed>>
  BY DetailsType DEF Inv, TypeOK, Listings, Details
<1>2. IdsBelow' /\ PlacesThere'
  BY <1>1 DEF Inv, IdsBelow, PlacesThere, Exists
<1>3. CASE LocationGone
  <2>1. listing'.step = "failed" /\ listing'.items = {}
    BY <1>1, <1>3, EndedOK DEF Details, Steps
  <2>2. PICK row \in listing.batch : row.place \notin locations
    BY <1>3 DEF LocationGone
  <2>3. row.id \in Ids
    BY <1>1 DEF Listings, PageRow
  <2>4. changed.moved \/ changed.deleted > 0
    BY <1>1, <2>2, <2>3 DEF Inv, BatchPlaces, PlacesThere
  <2> QED
    BY <1>1, <1>2, <2>1, <2>4 DEF Inv, ItemsBehind, BatchAhead, BatchRows, BatchPlaces,
       NoEventTwice, FailsOnlyAfterChange, InProgress
<1>4. CASE ~LocationGone /\ listing.kind # "visible"
  <2>1. listing' = [listing EXCEPT !.step = "done", !.batch = {}, !.items = details]
    BY <1>4 DEF Details, AfterPage
  <2>2. listing'.step = "done" /\ listing'.items = details
    BY <1>1, <2>1 DEF Listings
  <2>3. \A i \in details : i.page \in Int
    BY <1>1, DetailsAreItems DEF Item
  <2>4. \A i, j \in details : i # j => i.id # j.id /\ (i.page < j.page => i.id < j.id)
    BY <1>1, <2>3, NoneTwice
  <2> QED
    BY <1>1, <1>2, <2>2, <2>4 DEF Inv, ItemsBehind, BatchAhead, BatchRows, BatchPlaces,
       NoEventTwice, FailsOnlyAfterChange, InProgress
<1>5. CASE ~LocationGone /\ listing.kind = "visible" /\ listing.page >= pages(listing.total)
  <2> DEFINE end == Ended("done")
             items == visible_items(listing.items \union details)
  <2>1. listing' = [end EXCEPT !.items = items]
    BY <1>5 DEF Details, AfterPage
  <2>2. end \in Listings /\ end.step = "done"
    BY <1>1, EndedOK DEF Steps
  <2>3. items \subseteq listing.items \union details
    BY DEF visible_items
  <2> HIDE DEF end, items
  <2>4. listing'.step = "done" /\ listing'.items = items
    BY <2>1, <2>2 DEF Listings
  <2>5. \A i, j \in items : i # j => i.id # j.id /\ (i.page < j.page => i.id < j.id)
    BY <1>1, <1>5, <2>3, StillNoneTwice
  <2> QED
    BY <1>1, <1>2, <2>4, <2>5 DEF Inv, ItemsBehind, BatchAhead, BatchRows, BatchPlaces,
       NoEventTwice, FailsOnlyAfterChange, InProgress
<1>6. CASE ~LocationGone /\ listing.kind = "visible" /\ ~(listing.page >= pages(listing.total))
  <2>1. listing' = [listing EXCEPT !.step = "count", !.total = 0, !.batch = {},
                                   !.page = listing.page + 1, !.items = @ \union details]
    BY <1>6 DEF Details, AfterPage, NextPage
  <2>2. /\ listing'.step = "count" /\ listing'.items = listing.items \union details
        /\ listing'.page = listing.page + 1
    BY <1>1, <2>1 DEF Listings
  <2>3. NoEventTwice'
    BY <1>1, <1>6, <2>2, StillNoneTwice DEF NoEventTwice
  <2>4. ASSUME NEW item \in listing.items \union details
        PROVE  /\ item.id < nextId
               /\ item.page < listing.page + 1
               /\ UpTo(item.id) <= Offset(listing.page + 1)
    <3>1. /\ listing.page \in Nat \ {0} /\ item.page \in Int /\ item.id \in Ids
      BY <1>1, DetailsAreItems DEF Listings, Item
    <3>2. CASE item \in details
      <4>1. PICK row \in listing.batch : item.id = row.id
        BY <3>2, ItemsOfRows
      <4>2. item.page = listing.page
        BY <3>2, ItemsOfRows
      <4>3. row.id < nextId /\ UpTo(row.id) <= Offset(listing.page + 1)
        BY <1>1, <1>6 DEF Inv, BatchAhead
      <4> QED
        BY <3>1, <4>1, <4>2, <4>3
    <3>3. CASE item \in listing.items
      <4>1. /\ item.id < nextId /\ item.page < listing.page
            /\ UpTo(item.id) <= Offset(listing.page)
        BY <1>1, <1>6, <3>3 DEF Inv, ItemsBehind, InProgress
      <4>2. /\ Offset(listing.page) \in Int
            /\ Offset(listing.page + 1) = Offset(listing.page) + PageSize
            /\ PageSize \in Nat
        BY <3>1, Offsets, QueriesAssumption
      <4>3. UpTo(item.id) \in Int
        <5>1. \A k : {j \in ExistingIds : j <= k} \in SUBSET Ids
          BY SelectedIds
        <5> QED
          BY <5>1, SetsOfIds, QueriesAssumption DEF UpTo
      <4> QED
        BY <3>1, <4>1, <4>2, <4>3
    <3> QED
      BY <3>2, <3>3
  <2>5. ItemsBehind'
    <3>1. \A id : UpTo(id)' = UpTo(id)
      BY <1>1 DEF UpTo, ExistingIds, Exists
    <3>2. Offset(listing.page)' = Offset(listing.page + 1)
      BY <2>2 DEF Offset
    <3>3. \A item \in listing'.items :
            /\ item.id < nextId'
            /\ item.page < listing'.page
            /\ UpTo(item.id)' <= Offset(listing.page)'
      BY <1>1, <2>2, <2>4, <3>1, <3>2
    <3> QED
      BY <3>3 DEF ItemsBehind
  <2> QED
    BY <1>1, <1>2, <2>2, <2>3, <2>5 DEF Inv, BatchAhead, BatchRows, BatchPlaces,
       FailsOnlyAfterChange
<1> QED
  BY <1>3, <1>4, <1>5, <1>6

LEMMA StepInv == Inv /\ [Next]_vars => Inv'
<1> SUFFICES ASSUME Inv, [Next]_vars PROVE Inv'
  OBVIOUS
<1>1. CASE Tick \/ \E l \in Places : DeleteLocation(l)
  BY <1>1, OtherInv
<1>2. CASE CreateEvent
  BY <1>2, CreateInv
<1>3. CASE DeleteDue
  BY <1>3, DeleteInv
<1>4. ASSUME NEW id \in Ids, UpdateEvent(id) PROVE Inv'
  BY <1>4, UpdateInv
<1>5. CASE GetVisibleEvents \/ GetNonExpiredEvents \/ GetEvent
  BY <1>5, StartInv
<1>6. CASE Query
  BY <1>6, CountInv, ReadRowsInv, DetailsInv DEF Query
<1>7. CASE UNCHANGED vars
  BY <1>7 DEF vars, Inv, TypeOK, IdsBelow, PlacesThere, ItemsBehind, BatchAhead, BatchRows,
     BatchPlaces, NoEventTwice, FailsOnlyAfterChange, InProgress, Exists, UpTo, ExistingIds
<1> QED
  BY <1>1, <1>2, <1>3, <1>4, <1>5, <1>6, <1>7 DEF Next

LEMMA Invariance == Spec => []Inv
BY InitInv, StepInv, PTL DEF Spec

\* However the table changes while a listing reads its pages, no event is listed
\* twice, and the pages are listed by id (get_page, get_visible_events).
THEOREM NoneListedTwice == Spec => []NoEventTwice
BY Invariance, PTL DEF Inv

\* A query fails only if an event was moved or deleted while it ran
\* (_build_event_details).
THEOREM FailureNeedsChange == Spec => []FailsOnlyAfterChange
BY Invariance, PTL DEF Inv

----------------------------------------------------------------------------
(* Ranks: how many of a set of ids come before one of them.                *)

Rank(S, id) == Cardinality({i \in S : i < id})

\* Ranks grow with the ids (ORDER BY id).
LEMMA RanksGrow ==
    ASSUME NEW S \in SUBSET Ids, NEW i \in S, NEW j \in S, i < j
    PROVE  Rank(S, i) < Rank(S, j)
<1> DEFINE A == {k \in S : k < i}
           B == {k \in S : k < j}
<1>1. i \in Int /\ j \in Int /\ i \in Ids /\ \A k \in S : k \in Int
  BY DEF Ids
<1>2. A \in SUBSET Ids /\ B \in SUBSET Ids
  OBVIOUS
<1>3. A \union {i} \subseteq B /\ i \notin A
  <2>1. ASSUME NEW k \in A PROVE k \in B
    BY <1>1, <2>1
  <2>2. i \in B /\ i \notin A
    BY <1>1
  <2> QED
    BY <2>1, <2>2
<1> HIDE DEF A, B
<1>4. Cardinality(A \union {i}) = Cardinality(A) + 1
  BY <1>1, <1>2, <1>3, OneMoreId
<1>5. Cardinality(A \union {i}) <= Cardinality(B)
  BY <1>1, <1>2, <1>3, MoreIds
<1>6. Cardinality(A) \in Int /\ Cardinality(B) \in Int
  BY <1>2, SetsOfIds, QueriesAssumption
<1>7. Cardinality(A) < Cardinality(B)
  BY <1>4, <1>5, <1>6
<1> QED
  BY <1>7 DEF Rank, A, B

\* The ranks of n ids are those from 0 to n - 1.
LEMMA RanksBelow ==
    ASSUME NEW S \in SUBSET Ids, NEW i \in S
    PROVE  Rank(S, i) \in 0..(Cardinality(S) - 1)
<1> DEFINE A == {k \in S : k < i}
<1>1. A \in SUBSET Ids /\ i \in Ids \ A /\ A \union {i} \in SUBSET Ids
      /\ A \union {i} \subseteq S
  <2>1. i \in Int
    BY DEF Ids
  <2>2. A \subseteq S /\ i \notin A
    BY <2>1
  <2> QED
    BY <2>2
<1> HIDE DEF A
<1>2. Cardinality(A) + 1 <= Cardinality(S)
  BY <1>1, OneMoreId, MoreIds
<1>3. Cardinality(A) \in Nat /\ Cardinality(S) \in Nat
  BY <1>1, SetsOfIds, QueriesAssumption
<1>4. Cardinality(A) \in 0..(Cardinality(S) - 1)
  BY <1>2, <1>3
<1> QED
  BY <1>4 DEF Rank, A

\* A set has as many elements as one it is mapped to one to one.
LEMMA AsMany ==
    ASSUME NEW S, NEW T, NEW f \in [S -> T], IsFiniteSet(S),
           \A i, j \in S : f[i] = f[j] => i = j,
           \A t \in T : \E i \in S : f[i] = t
    PROVE  IsFiniteSet(T) /\ Cardinality(S) = Cardinality(T)
<1>1. f \in Bijection(S, T)
  BY DEF Bijection, Injection, Surjection, IsInjective
<1>2. ExistsBijection(S, T)
  BY <1>1 DEF ExistsBijection
<1> QED
  BY <1>2, FS_Bijection

\* Each rank is that of one of the ids.
LEMMA EveryRank ==
    ASSUME NEW S \in SUBSET Ids, NEW r \in 0..(Cardinality(S) - 1)
    PROVE  \E i \in S : Rank(S, i) = r
<1> DEFINE T == 0..(Cardinality(S) - 1)
           f == [i \in S |-> Rank(S, i)]
<1>1. IsFiniteSet(S) /\ Cardinality(S) \in Nat
  BY SetsOfIds, QueriesAssumption
<1>2. IsFiniteSet(T) /\ Cardinality(T) = Cardinality(S)
  BY <1>1, FS_Interval
<1>3. f \in [S -> T]
  BY RanksBelow
<1>4. ASSUME NEW i \in S, NEW j \in S, i # j PROVE f[i] # f[j]
  <2>1. i \in Int /\ j \in Int
    BY DEF Ids
  <2>2. i < j \/ j < i
    BY <1>4, <2>1
  <2>3. Rank(S, i) \in Int /\ Rank(S, j) \in Int
    BY RanksBelow
  <2> QED
    BY <2>2, <2>3, RanksGrow
<1> HIDE DEF T, f
<1>5. f \in Injection(S, T)
  BY <1>3, <1>4 DEF Injection, IsInjective
<1>6. f \in Surjection(S, T)
  BY <1>2, <1>5, FS_Injection
<1>7. \E i \in S : f[i] = r
  BY <1>6 DEF Surjection, T
<1> QED
  BY <1>7 DEF f

\* OFFSET a LIMIT n: as many rows as there are from rank a on, at most n.
LEMMA RowsOfAPage ==
    ASSUME NEW S \in SUBSET Ids, NEW a \in Nat, NEW n \in Nat
    PROVE  LET page == {i \in S : a <= Rank(S, i) /\ Rank(S, i) < a + n}
               rest == Cardinality(S) - a
           IN Cardinality(page) = IF rest < 0 THEN 0 ELSE IF rest < n THEN rest ELSE n
<1> DEFINE page == {i \in S : a <= Rank(S, i) /\ Rank(S, i) < a + n}
           size == Cardinality(S)
           last == IF size < a + n THEN size - 1 ELSE a + n - 1
           T == a..last
           f == [i \in page |-> Rank(S, i)]
<1>1. size \in Nat
  BY SetsOfIds, QueriesAssumption
<1>2. \A i \in S : Rank(S, i) \in 0..(size - 1)
  BY RanksBelow
<1>3. \A i \in page : Rank(S, i) \in T
  BY <1>1, <1>2
<1>4. \A r \in T : \E i \in page : Rank(S, i) = r
  <2> SUFFICES ASSUME NEW r \in T PROVE \E i \in page : Rank(S, i) = r
    OBVIOUS
  <2>1. r \in 0..(size - 1) /\ a <= r /\ r < a + n
    BY <1>1
  <2>2. PICK i \in S : Rank(S, i) = r
    BY <2>1, EveryRank
  <2> QED
    BY <2>1, <2>2
<1>5. ASSUME NEW i \in page, NEW j \in page, i # j PROVE Rank(S, i) # Rank(S, j)
  <2>1. i \in Int /\ j \in Int
    BY DEF Ids
  <2>2. i < j \/ j < i
    BY <1>5, <2>1
  <2>3. Rank(S, i) \in Int /\ Rank(S, j) \in Int
    BY <1>2
  <2> QED
    BY <2>2, <2>3, RanksGrow
<1>6. page \in SUBSET Ids
  OBVIOUS
<1>7. IsFiniteSet(page)
  BY <1>6, SetsOfIds
<1> HIDE DEF page, T
<1>8. Cardinality(page) = Cardinality(T)
  <2>1. f \in [page -> T]
    BY <1>3
  <2>2. \A i, j \in page : f[i] = f[j] => i = j
    BY <1>5
  <2>3. \A t \in T : \E i \in page : f[i] = t
    BY <1>4
  <2> HIDE DEF f
  <2> QED
    BY <1>7, <2>1, <2>2, <2>3, AsMany
<1>9. Cardinality(T) = IF a > last THEN 0 ELSE last - a + 1
  <2>1. a \in Int /\ last \in Int
    BY <1>1
  <2> HIDE DEF last
  <2> QED
    BY <2>1, FS_Interval DEF T
<1>10. Cardinality(page) = IF size - a < 0 THEN 0 ELSE IF size - a < n THEN size - a ELSE n
  BY <1>1, <1>8, <1>9
<1> QED
  BY <1>10 DEF page

----------------------------------------------------------------------------
(* A page adds up.                                                         *)

\* Unless events have changed, the total is of the events there are, and the
\* rows are as many as it leaves for the page.
PageCounted ==
    listing.kind = "page" /\ ~changed.any =>
        /\ listing.step = "rows" => listing.total = Cardinality(filtered_ids)
        /\ listing.step = "details" =>
               Cardinality(listing.batch) = Left(listing.total, listing.page)

LEMMA PageInit == Init => PageCounted /\ PageAddsUp
BY DEF Init, NewListing, PageCounted, PageAddsUp

\* A change of the events during a query is remembered.
LEMMA PageTableStep ==
    ASSUME Inv, PageAddsUp, listing' = listing, NEW c \in Changes, Remember(c)
    PROVE  PageCounted' /\ PageAddsUp'
<1>1. CASE InProgress
  <2>1. changed'.any
    BY <1>1 DEF Remember, Changes
  <2> QED
    BY <2>1 DEF PageCounted, PageAddsUp
<1>2. CASE ~InProgress
  BY <1>2 DEF Remember, InProgress, PageCounted, PageAddsUp, Left, Offset
<1> QED
  BY <1>1, <1>2

\* The rows of a page are as many as the events leave for it.
LEMMA PageSizes ==
    ASSUME Inv
    PROVE  Cardinality(page_rows(listing.page))
             = Left(Cardinality(filtered_ids), listing.page)
<1>1. filtered_ids \in SUBSET Ids
  BY SelectedIds
<1>2. Offset(listing.page) \in Nat /\ PageSize \in Nat
  BY Offsets, QueriesAssumption DEF Inv, TypeOK
<1>3. page_rows(listing.page) =
        {i \in filtered_ids : /\ Offset(listing.page) <= Rank(filtered_ids, i)
                              /\ Rank(filtered_ids, i) < Offset(listing.page) + PageSize}
  BY DEF page_rows, Before, Rank
<1> DEFINE S == filtered_ids
           a == Offset(listing.page)
<1> HIDE DEF S, a
<1>4. S \in SUBSET Ids /\ a \in Nat
  BY <1>1, <1>2 DEF S, a
<1>5. LET page == {i \in S : a <= Rank(S, i) /\ Rank(S, i) < a + PageSize}
          rest == Cardinality(S) - a
      IN Cardinality(page) =
           IF rest < 0 THEN 0 ELSE IF rest < PageSize THEN rest ELSE PageSize
  BY <1>2, <1>4, RowsOfAPage
<1> QED
  BY <1>3, <1>5 DEF Left, S, a

\* A row for each id.
LEMMA RowsOfIds ==
    ASSUME NEW ids \in SUBSET Ids
    PROVE  Cardinality({RowOf(id) : id \in ids}) = Cardinality(ids)
<1> DEFINE T == {RowOf(id) : id \in ids}
           f == [id \in ids |-> RowOf(id)]
<1>1. f \in [ids -> T] /\ \A t \in T : \E id \in ids : f[id] = t
  OBVIOUS
<1>2. \A i, j \in ids : f[i] = f[j] => i = j
  BY DEF RowOf
<1> HIDE DEF T, f
<1>3. Cardinality(ids) = Cardinality(T)
  BY <1>1, <1>2, SetsOfIds, AsMany
<1> QED
  BY <1>3 DEF T

\* An item for each row.
LEMMA ItemsAreRows ==
    ASSUME Inv, listing.step = "details"
    PROVE  Cardinality(details) = Cardinality(listing.batch)
<1> DEFINE ids == {row.id : row \in listing.batch}
           f == [row \in listing.batch |-> row.id]
           g == [item \in details |-> item.id]
<1>1. ids \in SUBSET Ids
  BY DEF Inv, TypeOK, PageRow
<1>2. IsFiniteSet(ids)
  BY <1>1, SetsOfIds
<1>3. /\ f \in [listing.batch -> ids]
      /\ \A i, j \in listing.batch : f[i] = f[j] => i = j
      /\ \A id \in ids : \E row \in listing.batch : f[row] = id
  BY DEF Inv, BatchRows
<1>4. /\ g \in [details -> ids]
      /\ \A i, j \in details : g[i] = g[j] => i = j
      /\ \A id \in ids : \E item \in details : g[item] = id
  <2>1. \A item \in details : item.id \in ids
    BY ItemsOfRows
  <2>2. \A i, j \in details : i.id = j.id => i = j
    BY NoneTwice
  <2>3. ASSUME NEW row \in listing.batch PROVE \E item \in details : item.id = row.id
    <3>1. [id |-> row.id, deletion_scheduled_at |-> row.deletion_scheduled_at,
           page |-> listing.page] \in details
      BY DEF details
    <3> QED
      BY <3>1
  <2> QED
    BY <2>1, <2>2, <2>3
<1> HIDE DEF ids, f, g
<1>5. f \in Injection(listing.batch, ids) /\ g \in Injection(details, ids)
  BY <1>3, <1>4 DEF Injection, IsInjective
<1>6. IsFiniteSet(listing.batch) /\ IsFiniteSet(details)
  BY <1>2, <1>5, FS_Injection
<1>7. Cardinality(listing.batch) = Cardinality(ids)
  BY <1>3, <1>6, AsMany
<1>8. Cardinality(details) = Cardinality(ids)
  BY <1>4, <1>6, AsMany
<1> QED
  BY <1>7, <1>8

LEMMA PageStep ==
    ASSUME Inv, Inv', PageCounted, PageAddsUp, [Next]_vars
    PROVE  PageCounted' /\ PageAddsUp'
<1>0. listing \in Listings /\ changed \in Changes
  BY DEF Inv, TypeOK, Listings
<1>1. CASE Tick \/ \E l \in Places : DeleteLocation(l)
  <2>1. UNCHANGED <<events, listing, changed>>
    BY <1>1 DEF Tick, DeleteLocation
  <2> QED
    BY <2>1 DEF PageCounted, PageAddsUp, Left, Offset, filtered_ids, ExistingIds, Exists
<1>2. CASE CreateEvent
  <2>1. [changed EXCEPT !.hidden = @ \union {nextId}] \in Changes
    BY <1>0, <1>2 DEF CreateEvent, Changes
  <2> QED
    BY <1>2, <2>1, PageTableStep DEF CreateEvent
<1>3. CASE DeleteDue
  <2> DEFINE gone == {id \in ExistingIds : due(events[id], now)}
  <2>1. gone \in SUBSET Ids
    BY SelectedIds
  <2>2. Cardinality(gone) \in Nat
    BY <2>1, SetsOfIds, QueriesAssumption
  <2>3. /\ Remember([changed EXCEPT !.deleted = @ + Cardinality(gone),
                                    !.hidden = @ \union gone])
        /\ listing' = listing
    BY <1>3 DEF DeleteDue
  <2> HIDE DEF gone
  <2>4. [changed EXCEPT !.deleted = @ + Cardinality(gone), !.hidden = @ \union gone] \in Changes
    <3>1. /\ changed.deleted + Cardinality(gone) \in Nat
          /\ changed.hidden \union gone \in SUBSET Ids
      BY <1>0, <2>1, <2>2 DEF Changes
    <3> QED
      BY <1>0, <3>1 DEF Changes
  <2> QED
    BY <2>3, <2>4, PageTableStep
<1>4. ASSUME NEW id \in Ids, UpdateEvent(id) PROVE PageCounted' /\ PageAddsUp'
  <2>1. PICK l \in locations :
          Remember([changed EXCEPT
                 !.moved = @ \/ l # events[id].place,
                 !.hidden = IF visible(events'[id], listing.started) THEN @ ELSE @ \union {id}])
    BY <1>4 DEF UpdateEvent
  <2>2. [changed EXCEPT
           !.moved = @ \/ l # events[id].place,
           !.hidden = IF visible(events'[id], listing.started) THEN @ ELSE @ \union {id}]
          \in Changes
    BY <1>0, <1>4 DEF Changes
  <2>3. listing' = listing
    BY <1>4 DEF UpdateEvent
  <2> QED
    BY <2>1, <2>2, <2>3, PageTableStep
<1>5. CASE GetVisibleEvents \/ GetNonExpiredEvents \/ GetEvent
  <2>1. PICK kind \in Kinds, page \in Nat : Start(kind, page)
    BY <1>5 DEF GetVisibleEvents, GetNonExpiredEvents, GetEvent, Kinds, Ids
  <2>2. listing'.kind = kind /\ listing'.step = IF kind = "event" THEN "rows" ELSE "count"
    BY <2>1 DEF Start, NewListing
  <2> QED
    BY <2>2 DEF PageCounted, PageAddsUp
<1>6. CASE Count
  <2>1. /\ listing'.step = "rows" /\ listing'.total = Cardinality(filtered_ids)
        /\ listing'.kind = listing.kind /\ listing'.started = listing.started
        /\ events' = events
    BY <1>0, <1>6 DEF Count, Listings
  <2>2. filtered_ids' = filtered_ids
    BY <2>1 DEF filtered_ids, ExistingIds, Exists
  <2> QED
    BY <2>1, <2>2 DEF PageCounted, PageAddsUp
<1>7. CASE ReadRows
  <2>1. CASE listing.kind = "event"
    <3>1. listing'.kind = "event"
      BY <1>0, <1>7, <2>1 DEF ReadRows, Ended, NewListing, Listings
    <3> QED
      BY <3>1 DEF PageCounted, PageAddsUp
  <2>2. CASE listing.kind # "event"
    <3> DEFINE ids == page_rows(listing.page)
    <3>1. listing' = [listing EXCEPT !.step = "details", !.batch = {RowOf(id) : id \in ids}]
      BY <1>7, <2>2 DEF ReadRows
    <3>2. ids \in SUBSET Ids
      BY SelectedIds DEF page_rows
    <3>3. Cardinality(ids) = Left(Cardinality(filtered_ids), listing.page)
      BY PageSizes
    <3> HIDE DEF ids
    <3>4. /\ listing'.step = "details" /\ listing'.batch = {RowOf(id) : id \in ids}
          /\ listing'.kind = listing.kind /\ listing'.page = listing.page
          /\ listing'.total = listing.total
      BY <1>0, <3>1 DEF Listings
    <3>5. Cardinality(listing'.batch) = Cardinality(ids)
      BY <3>2, <3>4, RowsOfIds
    <3>6. listing.step = "rows" /\ changed' = changed
      BY <1>7 DEF ReadRows
    <3> QED
      BY <3>3, <3>4, <3>5, <3>6 DEF PageCounted, PageAddsUp, Left, Offset
  <2> QED
    BY <2>1, <2>2
<1>8. CASE Details
  <2>1. changed' = changed /\ listing.step = "details"
    BY <1>8 DEF Details
  <2>2. CASE listing.kind # "page"
    <3>1. listing'.kind = listing.kind
      BY <1>0, <1>8 DEF Details, AfterPage, NextPage, Ended, NewListing, Listings
    <3> QED
      BY <2>2, <3>1 DEF PageCounted, PageAddsUp
  <2>3. CASE listing.kind = "page" /\ LocationGone
    <3>1. listing'.step = "failed"
      BY <1>0, <1>8, <2>3, EndedOK DEF Details, Steps, Inv
    <3> QED
      BY <3>1 DEF PageCounted, PageAddsUp
  <2>4. CASE listing.kind = "page" /\ ~LocationGone
    <3>1. listing' = [listing EXCEPT !.step = "done", !.batch = {}, !.items = details]
      BY <1>8, <2>4 DEF Details, AfterPage
    <3>2. /\ listing'.step = "done" /\ listing'.items = details
          /\ listing'.total = listing.total /\ listing'.page = listing.page
      BY <1>0, <3>1 DEF Listings
    <3>3. Cardinality(listing'.items) = Cardinality(listing.batch)
      BY <2>1, <3>2, ItemsAreRows
    <3> QED
      BY <2>1, <2>4, <3>2, <3>3 DEF PageCounted, PageAddsUp, Left, Offset
  <2> QED
    BY <2>2, <2>3, <2>4
<1>9. CASE UNCHANGED vars
  BY <1>9 DEF vars, PageCounted, PageAddsUp, Left, Offset, filtered_ids, ExistingIds, Exists
<1> QED
  BY <1>1, <1>2, <1>3, <1>4, <1>5, <1>6, <1>7, <1>8, <1>9 DEF Next, Query

\* For any table and page size, the items of a page are as many as its total
\* leaves for it, unless events changed between its two statements (get_page).
THEOREM PagesAddUp == Spec => []PageAddsUp
<1>1. Init => PageCounted /\ PageAddsUp
  BY PageInit
<1>2. Inv /\ Inv' /\ PageCounted /\ PageAddsUp /\ [Next]_vars => (PageCounted /\ PageAddsUp)'
  BY PageStep
<1> QED
  BY <1>1, <1>2, Invariance, PTL DEF Spec

----------------------------------------------------------------------------
(* How many events a listing misses.                                       *)

\* The events that have been there and visible since the query started.
Stable == Ids \ changed.hidden

\* What the query has read, with the page in hand.
Read == Listed \union {row.id : row \in listing.batch}

\* The page from whose offset on the rows are still to be read.
Reached == IF listing.step = "details" THEN listing.page + 1 ELSE listing.page

\* The events before this offset that will not be read: a deletion moved them.
PassedBy == {id \in Stable \ Read : UpTo(id) <= Offset(Reached)}

StableThere ==
    InProgress => \A id \in Stable : Exists(id) /\ visible(events[id], listing.started)

ReadVisible ==
    InProgress => \A row \in listing.batch \union listing.items :
        row.id \in Stable => visible(row, listing.started)

TotalCovers ==
    listing.kind = "visible" /\ listing.step \in {"rows", "details"} =>
        \A id \in Stable : UpTo(id) <= listing.total

PassedByFew ==
    listing.kind = "visible" /\ InProgress => Cardinality(PassedBy) <= changed.deleted

BatchEmpty == listing.step # "details" => listing.batch = {}

MissInv ==
    /\ BatchEmpty
    /\ StableThere
    /\ ReadVisible
    /\ TotalCovers
    /\ PassedByFew
    /\ MissesAtMostDeleted

LEMMA MissInit == Init => MissInv
BY DEF Init, NewListing, MissInv, BatchEmpty, StableThere, ReadVisible, TotalCovers,
   PassedByFew, MissesAtMostDeleted, InProgress

LEMMA UpToIsNat == \A id : UpTo(id) \in Nat
<1>1. \A id : {i \in ExistingIds : i <= id} \in SUBSET Ids
  BY SelectedIds
<1> QED
  BY <1>1, SetsOfIds, QueriesAssumption DEF UpTo

\* An event is one more than come before it.
LEMMA UpToIsRank ==
    ASSUME NEW id \in ExistingIds
    PROVE  UpTo(id) = Rank(ExistingIds, id) + 1
<1> DEFINE A == {i \in ExistingIds : i < id}
<1>1. id \in Int /\ \A i \in ExistingIds : i \in Int
  BY DEF ExistingIds, Ids
<1>2. {i \in ExistingIds : i <= id} = A \union {id}
  <2>1. \A i \in ExistingIds : i <= id <=> (i < id \/ i = id)
    BY <1>1
  <2> QED
    BY <2>1
<1>3. A \in SUBSET Ids /\ id \in Ids \ A
  BY <1>1 DEF ExistingIds
<1> HIDE DEF A
<1>4. Cardinality(A \union {id}) = Cardinality(A) + 1
  BY <1>3, OneMoreId
<1> QED
  BY <1>2, <1>4 DEF UpTo, Rank, A

\* Outside a query nothing is remembered.
LEMMA RestingStep ==
    ASSUME MissInv, ~InProgress, listing' = listing, changed' = changed
    PROVE  MissInv'
BY DEF MissInv, BatchEmpty, StableThere, ReadVisible, TotalCovers, PassedByFew,
   MissesAtMostDeleted, InProgress, Missed, Listed

\* A change of the table during a query that only makes fewer events stable,
\* and moves none that stays so.
LEMMA StillStable ==
    ASSUME Inv, Inv', MissInv, InProgress, listing' = listing,
           changed'.deleted = changed.deleted, Stable' \subseteq Stable,
           \A id \in Stable' : /\ Exists(id)' /\ visible(events'[id], listing.started)
                               /\ UpTo(id)' = UpTo(id)
    PROVE  MissInv'
<1>1. BatchEmpty' /\ StableThere' /\ ReadVisible' /\ MissesAtMostDeleted'
  BY DEF MissInv, BatchEmpty, StableThere, ReadVisible, MissesAtMostDeleted, InProgress
<1>2. TotalCovers'
  BY DEF MissInv, TotalCovers
<1>3. PassedByFew'
  <2> SUFFICES ASSUME listing.kind = "visible"
               PROVE  Cardinality(PassedBy') <= changed.deleted
    BY DEF PassedByFew
  <2>1. Read' = Read /\ Reached' = Reached /\ Offset(Reached)' = Offset(Reached)
    BY DEF Read, Reached, Listed, Offset
  <2>2. PassedBy' \subseteq PassedBy
    BY <2>1 DEF PassedBy
  <2>3. PassedBy \in SUBSET Ids /\ PassedBy' \in SUBSET Ids
    BY <2>2 DEF PassedBy, Stable
  <2>4. Cardinality(PassedBy') <= Cardinality(PassedBy)
    BY <2>2, <2>3, MoreIds
  <2>5. Cardinality(PassedBy) <= changed.deleted
    BY DEF MissInv, PassedByFew
  <2>6. Cardinality(PassedBy') \in Int /\ Cardinality(PassedBy) \in Int
        /\ changed.deleted \in Int
    BY <2>3, SetsOfIds, QueriesAssumption DEF Inv, TypeOK, Changes
  <2> QED
    BY <2>4, <2>5, <2>6
<1> QED
  BY <1>1, <1>2, <1>3 DEF MissInv

LEMMA MissCreate ==
    ASSUME Inv, Inv', MissInv, CreateEvent
    PROVE  MissInv'
<1>1. PICK d \in DeletionDates, l \in locations :
          events' = [events EXCEPT ![nextId] = [deletion_scheduled_at |-> d, place |-> l]]
  BY DEF CreateEvent
<1>2. /\ nextId \in Ids /\ listing' = listing
      /\ Remember([changed EXCEPT !.hidden = @ \union {nextId}])
  BY DEF CreateEvent
<1>3. CASE ~InProgress
  BY <1>2, <1>3, RestingStep DEF Remember
<1>4. CASE InProgress
  <2>1. changed'.hidden = changed.hidden \union {nextId} /\ changed'.deleted = changed.deleted
    BY <1>2, <1>4 DEF Remember, Inv, TypeOK, Changes
  <2>2. Stable' \subseteq Stable /\ nextId \notin Stable'
    BY <2>1 DEF Stable
  <2>3. \A id \in Ids : id # nextId => events'[id] = events[id]
    BY <1>1 DEF Inv, TypeOK
  <2>4. ASSUME NEW id \in Stable'
        PROVE  /\ Exists(id)' /\ visible(events'[id], listing.started)
               /\ UpTo(id)' = UpTo(id)
    <3>1. id \in Stable /\ id \in Ids /\ id # nextId
      BY <2>2, <2>4 DEF Stable
    <3>2. Exists(id) /\ visible(events[id], listing.started)
      BY <1>4, <3>1 DEF MissInv, StableThere
    <3>3. id < nextId /\ id \in Int /\ nextId \in Int /\ \A i \in Ids : i \in Int
      BY <1>2, <3>1, <3>2 DEF Inv, IdsBelow, Ids
    <3>4. \A i \in Ids : i <= id => (Exists(i)' <=> Exists(i))
      BY <2>3, <3>3 DEF Exists
    <3>5. {i \in ExistingIds' : i <= id} = {i \in ExistingIds : i <= id}
      BY <3>4 DEF ExistingIds
    <3> QED
      BY <2>3, <3>1, <3>2, <3>5 DEF UpTo, Exists
  <2> QED
    BY <1>2, <1>4, <2>1, <2>2, <2>4, StillStable
<1> QED
  BY <1>3, <1>4

LEMMA MissUpdate ==
    ASSUME Inv, Inv', MissInv, NEW e \in Ids, UpdateEvent(e)
    PROVE  MissInv'
<1>1. PICK d \in DeletionDates, l \in locations :
          /\ events' = [events EXCEPT ![e] = [deletion_scheduled_at |-> d, place |-> l]]
          /\ Remember([changed EXCEPT
                 !.moved = @ \/ l # events[e].place,
                 !.hidden = IF visible(events'[e], listing.started) THEN @ ELSE @ \union {e}])
  BY DEF UpdateEvent
<1>2. Exists(e) /\ listing' = listing
  BY DEF UpdateEvent
<1>3. CASE ~InProgress
  BY <1>1, <1>2, <1>3, RestingStep DEF Remember
<1>4. CASE InProgress
  <2>1. /\ changed'.hidden = IF visible(events'[e], listing.started)
                             THEN changed.hidden ELSE changed.hidden \union {e}
        /\ changed'.deleted = changed.deleted
    BY <1>1, <1>4 DEF Remember, Inv, TypeOK, Changes
  <2>2. Stable' \subseteq Stable /\ (e \in Stable' => visible(events'[e], listing.started))
    BY <2>1 DEF Stable
  <2>3. events'[e] = [deletion_scheduled_at |-> d, place |-> l] /\ l \in Places
    BY <1>1 DEF Inv, TypeOK
  <2>4. \A id \in Ids : id # e => events'[id] = events[id]
    BY <1>1 DEF Inv, TypeOK
  <2>5. Exists(e)'
    BY <2>3, RowAssumption DEF Exists, Row
  <2>6. ExistingIds' = ExistingIds
    BY <1>2, <2>4, <2>5 DEF ExistingIds, Exists
  <2>7. ASSUME NEW id \in Stable'
        PROVE  /\ Exists(id)' /\ visible(events'[id], listing.started)
               /\ UpTo(id)' = UpTo(id)
    <3>1. id \in Stable /\ id \in Ids
      BY <2>2, <2>7 DEF Stable
    <3>2. Exists(id) /\ visible(events[id], listing.started)
      BY <1>4, <3>1 DEF MissInv, StableThere
    <3>3. UpTo(id)' = UpTo(id)
      BY <2>6 DEF UpTo
    <3>4. CASE id = e
      BY <2>2, <2>5, <2>7, <3>3, <3>4
    <3>5. CASE id # e
      BY <2>4, <3>1, <3>2, <3>3, <3>5 DEF Exists
    <3> QED
      BY <3>4, <3>5
  <2> QED
    BY <1>2, <1>4, <2>1, <2>2, <2>7, StillStable
<1> QED
  BY <1>3, <1>4

\* A deletion of k events moves at most k events past an offset.
LEMMA DeletionPasses ==
    ASSUME Inv, Inv', NEW gone \in SUBSET ExistingIds, ExistingIds' = ExistingIds \ gone,
           NEW o \in Nat
    PROVE  LET new == {id \in ExistingIds' : UpTo(id)' <= o /\ o < UpTo(id)}
           IN  Cardinality(new) <= Cardinality(gone)
<1> DEFINE new == {id \in ExistingIds' : UpTo(id)' <= o /\ o < UpTo(id)}
           k == Cardinality(gone)
           T == (o + 1)..(o + k)
           f == [id \in new |-> UpTo(id)]
<1>1. ExistingIds \in SUBSET Ids /\ gone \in SUBSET Ids /\ ExistingIds' \subseteq ExistingIds
  BY SelectedIds
<1>2. k \in Nat
  BY <1>1, SetsOfIds, QueriesAssumption
<1>3. \A id : UpTo(id) \in Nat
  BY UpToIsNat
<1>4. ASSUME NEW id \in new PROVE UpTo(id) \in T
  <2> DEFINE A == {i \in ExistingIds : i <= id}
             B == {i \in ExistingIds' : i <= id}
  <2>1. A \subseteq B \union gone /\ A \in SUBSET Ids /\ B \in SUBSET Ids
    BY <1>1
  <2>2. UpTo(id) = Cardinality(A) /\ UpTo(id)' = Cardinality(B)
    BY DEF UpTo
  <2> HIDE DEF A, B
  <2>3. Cardinality(A) <= Cardinality(B \union gone)
    BY <1>1, <2>1, MoreIds
  <2>4. /\ IsFiniteSet(B) /\ IsFiniteSet(gone)
        /\ Cardinality(A) \in Int /\ Cardinality(B) \in Int
        /\ Cardinality(B \intersect gone) \in Nat
    <3>1. B \intersect gone \in SUBSET Ids
      BY <2>1
    <3> QED
      BY <1>1, <2>1, <3>1, SetsOfIds, QueriesAssumption
  <2>5. Cardinality(B \union gone) = Cardinality(B) + k - Cardinality(B \intersect gone)
    BY <2>4, FS_Union
  <2>6. Cardinality(A) <= Cardinality(B) + k
    BY <1>2, <2>3, <2>4, <2>5
  <2>7. UpTo(id)' <= o /\ o < UpTo(id)
    BY <1>4
  <2> QED
    BY <1>2, <2>2, <2>4, <2>6, <2>7
<1>5. ASSUME NEW i \in new, NEW j \in new, i # j PROVE UpTo(i) # UpTo(j)
  <2>1. i \in ExistingIds /\ j \in ExistingIds /\ i \in Int /\ j \in Int
    BY <1>1 DEF Ids
  <2>2. i < j \/ j < i
    BY <1>5, <2>1
  <2> HIDE DEF new
  <2>3. UpTo(i) = Rank(ExistingIds, i) + 1 /\ UpTo(j) = Rank(ExistingIds, j) + 1
    BY <2>1, UpToIsRank
  <2>4. Rank(ExistingIds, i) \in Int /\ Rank(ExistingIds, j) \in Int
    <3>1. UpTo(i) \in Nat /\ UpTo(j) \in Nat
      BY <1>3
    <3>2. \A n \in 0..(Cardinality(ExistingIds) - 1) : n \in Int
      OBVIOUS
    <3> QED
      BY <1>1, <2>1, <3>2, RanksBelow
  <2>5. Rank(ExistingIds, i) < Rank(ExistingIds, j)
        \/ Rank(ExistingIds, j) < Rank(ExistingIds, i)
    BY <1>1, <2>1, <2>2, RanksGrow
  <2> QED
    BY <2>3, <2>4, <2>5
<1>6. IsFiniteSet(T) /\ Cardinality(T) = k
  <2>1. o + 1 \in Int /\ o + k \in Int
    BY <1>2
  <2>2. Cardinality(T) = IF o + 1 > o + k THEN 0 ELSE (o + k) - (o + 1) + 1
    BY <2>1, FS_Interval
  <2> QED
    BY <1>2, <2>1, <2>2, FS_Interval
<1>7. f \in Injection(new, T)
  <2>1. f \in [new -> T]
    BY <1>4
  <2>2. \A i, j \in new : f[i] = f[j] => i = j
    BY <1>5
  <2> HIDE DEF new, T, f
  <2> QED
    BY <2>1, <2>2 DEF Injection, IsInjective
<1> HIDE DEF f, T, new
<1>8. Cardinality(new) <= k
  BY <1>6, <1>7, FS_Injection
<1> QED
  BY <1>8 DEF new

LEMMA MissDelete ==
    ASSUME Inv, Inv', MissInv, DeleteDue
    PROVE  MissInv'
<1> DEFINE gone == {id \in ExistingIds : due(events[id], now)}
<1>1. /\ gone \in SUBSET ExistingIds /\ gone \in SUBSET Ids
      /\ events' = [id \in Ids |-> IF id \in gone THEN None ELSE events[id]]
      /\ Remember([changed EXCEPT !.deleted = @ + Cardinality(gone), !.hidden = @ \union gone])
      /\ listing' = listing
  BY SelectedIds DEF DeleteDue
<1> HIDE DEF gone
<1>2. CASE ~InProgress
  BY <1>1, <1>2, RestingStep DEF Remember
<1>3. CASE InProgress
  <2>1. /\ changed'.hidden = changed.hidden \union gone
        /\ changed'.deleted = changed.deleted + Cardinality(gone)
    BY <1>1, <1>3 DEF Remember, Inv, TypeOK, Changes
  <2>2. Stable' = Stable \ gone
    BY <2>1 DEF Stable
  <2>3. ExistingIds' = ExistingIds \ gone
    BY <1>1 DEF ExistingIds, Exists
  <2>4. \A id \in Stable : id \in Ids /\ Exists(id) /\ visible(events[id], listing.started)
    BY <1>3 DEF MissInv, StableThere, Stable
  <2>5. StableThere'
    BY <1>1, <2>2, <2>4 DEF StableThere, Exists
  <2>6. BatchEmpty' /\ ReadVisible' /\ MissesAtMostDeleted'
    BY <1>1, <1>3, <2>2 DEF MissInv, BatchEmpty, ReadVisible, MissesAtMostDeleted, InProgress
  <2>7. \A id \in Stable' : UpTo(id)' <= UpTo(id)
    <3> SUFFICES ASSUME NEW id \in Stable' PROVE UpTo(id)' <= UpTo(id)
      OBVIOUS
    <3> DEFINE A == {i \in ExistingIds : i <= id}
               B == {i \in ExistingIds' : i <= id}
    <3>1. B \subseteq A /\ A \in SUBSET Ids /\ B \in SUBSET Ids
      BY <2>3, SelectedIds
    <3>2. Cardinality(B) <= Cardinality(A)
      BY <3>1, MoreIds
    <3> QED
      BY <3>2 DEF UpTo
  <2>8. TotalCovers'
    <3> SUFFICES ASSUME listing.kind = "visible", listing.step \in {"rows", "details"},
                        NEW id \in Stable'
                 PROVE  UpTo(id)' <= listing.total
      BY <1>1 DEF TotalCovers
    <3>1. UpTo(id) <= listing.total /\ UpTo(id)' <= UpTo(id)
      BY <2>2, <2>7 DEF MissInv, TotalCovers
    <3>2. UpTo(id) \in Int /\ UpTo(id)' \in Int /\ listing.total \in Int
      <4>1. {i \in ExistingIds' : i <= id} \in SUBSET Ids
        BY <2>3, SelectedIds
      <4>2. UpTo(id)' \in Int
        BY <4>1, SetsOfIds, QueriesAssumption DEF UpTo
      <4>3. listing.total \in Int
        BY QueriesAssumption DEF Inv, TypeOK
      <4> QED
        BY <4>2, <4>3, UpToIsNat
    <3> QED
      BY <3>1, <3>2
  <2>9. PassedByFew'
    <3>0. ASSUME Cardinality(PassedBy)' <= changed'.deleted PROVE PassedByFew'
      BY <3>0 DEF PassedByFew
    <3> SUFFICES ASSUME listing.kind = "visible"
                 PROVE  Cardinality(PassedBy') <= changed'.deleted
      BY <1>1, <3>0 DEF PassedByFew
    <3> DEFINE o == Offset(Reached)
               new == {id \in ExistingIds' : UpTo(id)' <= o /\ o < UpTo(id)}
    <3>1. Read' = Read /\ Offset(Reached)' = o
      BY <1>1 DEF Read, Reached, Listed, Offset
    <3>2. o \in Nat
      <4>1. listing.page \in Nat \ {0} /\ listing.page + 1 \in Nat \ {0}
        BY DEF Inv, TypeOK
      <4> QED
        BY <4>1, Offsets DEF Reached
    <3>3. Cardinality(new) <= Cardinality(gone)
      BY <1>1, <2>3, <3>2, DeletionPasses
    <3>4. PassedBy' \subseteq PassedBy \union new
      <4> SUFFICES ASSUME NEW id \in PassedBy', id \notin PassedBy
                   PROVE  id \in new
        OBVIOUS
      <4>1. id \in Stable /\ id \notin gone /\ id \notin Read /\ UpTo(id)' <= o
        BY <2>2, <3>1 DEF PassedBy
      <4>2. ~(UpTo(id) <= o)
        BY <4>1 DEF PassedBy
      <4>3. o < UpTo(id)
        BY <3>2, <4>2, UpToIsNat
      <4>4. id \in ExistingIds'
        BY <2>3, <2>4, <4>1 DEF ExistingIds
      <4> QED
        BY <4>1, <4>3, <4>4
    <3>5. PassedBy \in SUBSET Ids /\ new \in SUBSET Ids /\ PassedBy' \in SUBSET Ids
      <4>1. PassedBy \in SUBSET Ids /\ new \in SUBSET Ids
        BY <2>3, SelectedIds DEF PassedBy, Stable
      <4> QED
        BY <3>4, <4>1
    <3>6. Cardinality(PassedBy) <= changed.deleted
      BY <1>3 DEF MissInv, PassedByFew
    <3> HIDE DEF o, new
    <3>7. Cardinality(PassedBy') <= Cardinality(PassedBy \union new)
      BY <3>4, <3>5, MoreIds
    <3>8. Cardinality(PassedBy \union new)
            = Cardinality(PassedBy) + Cardinality(new) - Cardinality(PassedBy \intersect new)
      BY <3>5, SetsOfIds, FS_Union
    <3>9. /\ Cardinality(PassedBy') \in Int /\ Cardinality(PassedBy) \in Int
          /\ Cardinality(new) \in Int /\ Cardinality(PassedBy \intersect new) \in Nat
          /\ Cardinality(gone) \in Int /\ changed.deleted \in Int
      <4>1. PassedBy \intersect new \in SUBSET Ids
        BY <3>5
      <4> QED
        BY <1>1, <3>5, <4>1, SetsOfIds, QueriesAssumption DEF Inv, TypeOK, Changes
    <3> QED
      BY <2>1, <3>3, <3>6, <3>7, <3>8, <3>9
  <2> QED
    BY <2>5, <2>6, <2>8, <2>9 DEF MissInv
<1> QED
  BY <1>2, <1>3

\* The clock and the cleanup of locations change nothing a listing depends on.
LEMMA MissOther ==
    ASSUME MissInv, UNCHANGED <<events, listing, changed>>
    PROVE  MissInv'
<1>1. \A id : UpTo(id)' = UpTo(id) /\ (Exists(id)' <=> Exists(id))
  BY DEF UpTo, ExistingIds, Exists
<1>2. PassedBy' = PassedBy /\ Stable' = Stable
  BY <1>1 DEF PassedBy, Stable, Read, Listed, Reached, Offset
<1> QED
  BY <1>1, <1>2 DEF MissInv, BatchEmpty, StableThere, ReadVisible, TotalCovers, PassedByFew,
     MissesAtMostDeleted, InProgress, Missed, Listed

\* No event comes before the first offset.
LEMMA NoneBeforeFirst ==
    ASSUME NEW id \in ExistingIds
    PROVE  ~(UpTo(id) <= Offset(1))
<1>1. UpTo(id) = Rank(ExistingIds, id) + 1
  BY UpToIsRank
<1>2. Rank(ExistingIds, id) \in Nat
  <2>1. {i \in ExistingIds : i < id} \in SUBSET Ids
    BY SelectedIds
  <2> QED
    BY <2>1, SetsOfIds, QueriesAssumption DEF Rank
<1>3. Offset(1) = 0
  BY QueriesAssumption DEF Offset
<1> QED
  BY <1>1, <1>2, <1>3

\* A query starts with the events that are there and visible, none passed by.
LEMMA MissStart ==
    ASSUME Inv, NEW kind \in Kinds, NEW page, kind = "visible" => page = 1,
           Start(kind, page)
    PROVE  MissInv'
<1>1. /\ listing' = NewListing(kind, page) /\ changed' = NoChange
      /\ UNCHANGED <<now, events, nextId, locations>>
  BY DEF Start
<1>2. /\ listing'.kind = kind /\ listing'.page = page /\ listing'.started = now
      /\ listing'.batch = {} /\ listing'.items = {}
      /\ listing'.step = IF kind = "event" THEN "rows" ELSE "count"
  BY <1>1 DEF NewListing
<1>3. \A id \in Stable' : id \in Ids /\ Exists(id)' /\ visible(events'[id], now)
  BY <1>1 DEF Stable, NoChange, Exists
<1>4. changed'.deleted = 0
  BY <1>1 DEF NoChange
<1>5. PassedByFew'
  <2>0. ASSUME kind = "visible", PassedBy' = {} PROVE PassedByFew'
    <3>1. Cardinality(PassedBy)' = 0
      BY <2>0, FS_EmptySet
    <3> QED
      BY <1>4, <3>1 DEF PassedByFew
  <2>1. CASE kind # "visible"
    BY <1>2, <2>1 DEF PassedByFew
  <2> SUFFICES ASSUME kind = "visible" PROVE PassedBy' = {}
    BY <2>0, <2>1
  <2>2. Offset(Reached)' = Offset(1)
    BY <1>2 DEF Reached, Offset
  <2>3. \A id : UpTo(id)' = UpTo(id)
    BY <1>1 DEF UpTo, ExistingIds, Exists
  <2>4. \A id \in Stable' : id \in ExistingIds
    BY <1>1, <1>3 DEF ExistingIds, Exists
  <2> QED
    BY <2>2, <2>3, <2>4, NoneBeforeFirst DEF PassedBy
<1>6. BatchEmpty' /\ StableThere' /\ ReadVisible' /\ TotalCovers' /\ MissesAtMostDeleted'
  BY <1>2, <1>3 DEF BatchEmpty, StableThere, ReadVisible, TotalCovers, MissesAtMostDeleted
<1> QED
  BY <1>5, <1>6 DEF MissInv

\* The count of a listing is of all the events there are.
LEMMA MissCount ==
    ASSUME Inv, MissInv, Count
    PROVE  MissInv'
<1>1. /\ listing \in Listings /\ listing.step = "count"
      /\ UNCHANGED <<now, events, nextId, locations, changed>>
      /\ listing' = [listing EXCEPT !.step = "rows", !.total = Cardinality(filtered_ids)]
  BY DEF Inv, TypeOK, Listings, Count
<1>2. /\ listing'.step = "rows" /\ listing'.total = Cardinality(filtered_ids)
      /\ listing'.kind = listing.kind /\ listing'.page = listing.page
      /\ listing'.started = listing.started
      /\ listing'.batch = listing.batch /\ listing'.items = listing.items
  BY <1>1 DEF Listings
<1>3. \A id : UpTo(id)' = UpTo(id) /\ (Exists(id)' <=> Exists(id))
  BY <1>1 DEF UpTo, ExistingIds, Exists
<1>4. PassedBy' = PassedBy /\ Stable' = Stable
  BY <1>1, <1>2, <1>3 DEF PassedBy, Stable, Read, Listed, Reached, Offset
<1>5. TotalCovers'
  <2>1. ASSUME listing.kind = "visible", NEW id PROVE UpTo(id) <= Cardinality(filtered_ids)
    <3>1. filtered_ids = ExistingIds
      BY <2>1 DEF filtered_ids, apply_deletion_filter, NoFilters, Filters
    <3>2. {i \in ExistingIds : i <= id} \subseteq ExistingIds
      OBVIOUS
    <3> QED
      BY <3>1, <3>2, SelectedIds, MoreIds DEF UpTo
  <2> QED
    BY <1>2, <1>3, <2>1 DEF TotalCovers
<1> QED
  BY <1>1, <1>2, <1>3, <1>4, <1>5 DEF MissInv, BatchEmpty, StableThere, ReadVisible,
     PassedByFew, MissesAtMostDeleted, InProgress

\* A page has every event between its offset and the next.
LEMMA WholePage ==
    ASSUME Inv, listing.kind = "visible", NEW id \in ExistingIds,
           UpTo(id) <= Offset(listing.page + 1), ~(UpTo(id) <= Offset(listing.page))
    PROVE  id \in page_rows(listing.page)
<1>1. filtered_ids = ExistingIds
  BY DEF filtered_ids, apply_deletion_filter, NoFilters, Filters
<1>2. UpTo(id) = Before(id) + 1
  BY <1>1, UpToIsRank DEF Before, Rank
<1>3. Before(id) \in Nat
  <2>1. {i \in ExistingIds : i < id} \in SUBSET Ids
    BY SelectedIds
  <2> QED
    BY <1>1, <2>1, SetsOfIds, QueriesAssumption DEF Before
<1>4. /\ Offset(listing.page) \in Nat
      /\ Offset(listing.page + 1) = Offset(listing.page) + PageSize
  BY Offsets DEF Inv, TypeOK
<1>5. Offset(listing.page) <= Before(id) /\ Before(id) < Offset(listing.page) + PageSize
  BY <1>2, <1>3, <1>4, QueriesAssumption
<1> QED
  BY <1>1, <1>5 DEF page_rows

\* The rows of a page are visible if they are stable, and the page passes by
\* none that it does not have.
LEMMA MissRead ==
    ASSUME Inv, MissInv, ReadRows
    PROVE  MissInv'
<1> DEFINE ids == IF listing.kind = "event" THEN {listing.page} ELSE page_rows(listing.page)
<1>1. /\ TypeOK /\ listing \in Listings /\ listing.step = "rows" /\ listing.batch = {}
      /\ UNCHANGED <<now, events, nextId, locations, changed>>
  BY DEF Inv, TypeOK, Listings, ReadRows, MissInv, BatchEmpty
<1>2. CASE listing.kind = "event" /\ ~Exists(listing.page)
  <2>1. listing' = Ended("done")
    BY <1>2 DEF ReadRows
  <2>2. listing'.step = "done" /\ listing'.kind = "event" /\ listing'.batch = {}
    BY <1>2, <2>1 DEF Ended, NewListing
  <2> QED
    BY <2>2 DEF MissInv, BatchEmpty, StableThere, ReadVisible, TotalCovers, PassedByFew,
       MissesAtMostDeleted, InProgress
<1>3. CASE ~(listing.kind = "event" /\ ~Exists(listing.page))
  <2>1. listing' = [listing EXCEPT !.step = "details", !.batch = {RowOf(id) : id \in ids}]
    BY <1>3 DEF ReadRows
  <2>2. listing.kind = "visible" => ids = page_rows(listing.page)
    OBVIOUS
  <2> HIDE DEF ids
  <2>3. /\ listing'.step = "details" /\ listing'.batch = {RowOf(id) : id \in ids}
        /\ listing'.kind = listing.kind /\ listing'.page = listing.page
        /\ listing'.started = listing.started /\ listing'.total = listing.total
        /\ listing'.items = listing.items
    BY <1>1, <2>1 DEF Listings
  <2>4. \A id : RowOf(id).id = id
                /\ RowOf(id).deletion_scheduled_at = events[id].deletion_scheduled_at
    BY DEF RowOf
  <2>5. \A id : UpTo(id)' = UpTo(id) /\ (Exists(id)' <=> Exists(id))
    BY <1>1 DEF UpTo, ExistingIds, Exists
  <2>6. /\ Stable' = Stable
        /\ \A id \in Stable : id \in Ids /\ Exists(id) /\ visible(events[id], listing.started)
    BY <1>1 DEF Stable, MissInv, StableThere, InProgress
  <2>7. ReadVisible'
    <3>1. ASSUME NEW row \in listing'.batch, row.id \in Stable
          PROVE  visible(row, listing.started)
      <4>1. PICK id \in ids : row = RowOf(id)
        BY <2>3
      <4>2. id \in Stable
        BY <2>4, <3>1, <4>1
      <4> QED
        BY <2>4, <2>6, <4>1, <4>2 DEF visible
    <3>2. \A item \in listing.items : item.id \in Stable => visible(item, listing.started)
      BY <1>1 DEF MissInv, ReadVisible, InProgress
    <3> QED
      BY <2>3, <2>6, <3>1, <3>2 DEF ReadVisible
  <2>8. PassedByFew'
    <3>0. ASSUME Cardinality(PassedBy)' <= changed'.deleted PROVE PassedByFew'
      BY <3>0 DEF PassedByFew
    <3>1. CASE listing.kind # "visible"
      BY <2>3, <3>1 DEF PassedByFew
    <3> SUFFICES ASSUME listing.kind = "visible"
                 PROVE  Cardinality(PassedBy') <= changed.deleted
      BY <1>1, <3>0, <3>1
    <3>2. Offset(Reached)' = Offset(listing.page + 1) /\ Offset(Reached) = Offset(listing.page)
      BY <1>1, <2>3 DEF Reached, Offset
    <3>3. Read = Listed /\ Read' = Listed \union ids
      <4>1. {row.id : row \in listing'.batch} = ids
        BY <2>3, <2>4
      <4> QED
        BY <1>1, <2>3, <4>1 DEF Read, Listed
    <3>4. PassedBy' \subseteq PassedBy
      <4> SUFFICES ASSUME NEW id \in PassedBy' PROVE id \in PassedBy
        OBVIOUS
      <4>1. /\ id \in Stable /\ id \notin Listed /\ id \notin ids
            /\ UpTo(id) <= Offset(listing.page + 1)
        BY <2>5, <2>6, <3>2, <3>3 DEF PassedBy
      <4>2. id \in ExistingIds
        BY <2>6, <4>1 DEF ExistingIds
      <4>3. UpTo(id) <= Offset(listing.page)
        BY <2>2, <4>1, <4>2, WholePage
      <4> QED
        BY <3>2, <3>3, <4>1, <4>3 DEF PassedBy
    <3>5. PassedBy \in SUBSET Ids /\ PassedBy' \in SUBSET Ids
      BY <3>4 DEF PassedBy, Stable
    <3>6. Cardinality(PassedBy') <= Cardinality(PassedBy)
      BY <3>4, <3>5, MoreIds
    <3>7. Cardinality(PassedBy) <= changed.deleted
      BY <1>1 DEF MissInv, PassedByFew, InProgress
    <3>8. /\ Cardinality(PassedBy') \in Int /\ Cardinality(PassedBy) \in Int
          /\ changed.deleted \in Int
      BY <1>1, <3>5, SetsOfIds, QueriesAssumption DEF TypeOK, Changes
    <3> QED
      BY <3>6, <3>7, <3>8
  <2>9. TotalCovers'
    BY <1>1, <2>3, <2>5, <2>6 DEF MissInv, TotalCovers
  <2>10. BatchEmpty' /\ StableThere' /\ MissesAtMostDeleted'
    BY <1>1, <2>3, <2>5, <2>6 DEF BatchEmpty, StableThere, MissesAtMostDeleted
  <2> QED
    BY <2>7, <2>8, <2>9, <2>10 DEF MissInv
<1> QED
  BY <1>2, <1>3

\* The last page reaches the total.
LEMMA PagesCover ==
    ASSUME NEW n \in Nat, NEW page \in Nat \ {0}, page >= pages(n)
    PROVE  n <= Offset(page + 1)
<1>1. PageSize \in Nat /\ PageSize > 0
  BY QueriesAssumption
<1> DEFINE q == pages(n)
<1>2. q \in Nat /\ n <= q * PageSize
  BY <1>1 DEF pages
<1> HIDE DEF q
<1>3. PICK d \in Nat : page = q + d
  <2>1. page - q \in Nat /\ page = q + (page - q)
    BY <1>2 DEF q
  <2> QED
    BY <2>1
<1>4. page * PageSize = q * PageSize + d * PageSize /\ d * PageSize \in Nat
      /\ q * PageSize \in Nat
  BY <1>1, <1>2, <1>3
<1>5. Offset(page + 1) = page * PageSize
  BY <1>1 DEF Offset
<1> QED
  BY <1>2, <1>4, <1>5

\* Of what has been read, a listing drops no event that was visible all the time.
LEMMA ReadIsListed ==
    ASSUME Inv, MissInv, listing.step = "details", NEW id \in Stable \intersect Read
    PROVE  \E item \in visible_items(listing.items \union details) : item.id = id
<1>1. ReadVisible
  BY DEF MissInv
<1>2. CASE id \in Listed
  <2>1. PICK item \in listing.items : item.id = id
    BY <1>2 DEF Listed
  <2>2. visible(item, listing.started)
    BY <1>1, <2>1 DEF ReadVisible, InProgress
  <2> QED
    BY <2>1, <2>2 DEF visible_items
<1>3. CASE id \notin Listed
  <2>1. PICK row \in listing.batch : row.id = id
    BY <1>3 DEF Read
  <2>2. visible(row, listing.started)
    BY <1>1, <2>1 DEF ReadVisible, InProgress
  <2> DEFINE item == [id |-> row.id, deletion_scheduled_at |-> row.deletion_scheduled_at,
                      page |-> listing.page]
  <2>3. item \in details
    BY DEF details
  <2>4. visible(item, listing.started) /\ item.id = id
    BY <2>1, <2>2 DEF visible
  <2> HIDE DEF item
  <2> QED
    BY <2>3, <2>4 DEF visible_items
<1> QED
  BY <1>2, <1>3

\* At the end, what is missed is what was passed by.
LEMMA MissEnd ==
    ASSUME Inv, MissInv, Details, ~LocationGone, listing.kind = "visible",
           listing.page >= pages(listing.total)
    PROVE  MissInv'
<1>1. /\ TypeOK /\ listing \in Listings /\ listing.step = "details"
      /\ UNCHANGED <<now, events, nextId, locations, changed>>
  BY DEF Inv, TypeOK, Listings, Details
<1> DEFINE end == Ended("done")
           items == visible_items(listing.items \union details)
<1>2. listing' = [end EXCEPT !.items = items]
  BY DEF Details, AfterPage
<1>3. end \in Listings /\ end.step = "done" /\ end.batch = {}
  BY <1>1, EndedOK DEF Steps, Ended, NewListing
<1>4. \A id \in Stable \intersect Read : \E item \in items : item.id = id
  BY <1>1, ReadIsListed
<1> HIDE DEF end, items
<1>5. listing'.step = "done" /\ listing'.items = items /\ listing'.batch = {}
  BY <1>2, <1>3 DEF Listings
<1>6. Missed' \subseteq PassedBy
  <2> SUFFICES ASSUME NEW id \in Missed' PROVE id \in PassedBy
    OBVIOUS
  <2>1. id \in Stable /\ \A item \in items : item.id # id
    BY <1>1, <1>5 DEF Missed, Listed, Stable
  <2>2. id \notin Read
    BY <1>4, <2>1
  <2>3. UpTo(id) <= listing.total
    BY <1>1, <2>1 DEF MissInv, TotalCovers
  <2>4. /\ listing.total \in Nat /\ listing.page \in Nat \ {0}
        /\ listing.page + 1 \in Nat \ {0}
    BY <1>1, QueriesAssumption DEF Listings
  <2>5. listing.total <= Offset(listing.page + 1) /\ Offset(listing.page + 1) \in Nat
    BY <2>4, PagesCover, Offsets
  <2>6. UpTo(id) <= Offset(Reached)
    BY <1>1, <2>3, <2>4, <2>5, UpToIsNat DEF Reached
  <2> QED
    BY <2>1, <2>2, <2>6 DEF PassedBy
<1>7. PassedBy \in SUBSET Ids /\ Missed' \in SUBSET Ids
  BY <1>6 DEF PassedBy, Stable
<1>8. Cardinality(Missed') <= Cardinality(PassedBy)
  BY <1>6, <1>7, MoreIds
<1>9. Cardinality(PassedBy) <= changed.deleted
  BY <1>1 DEF MissInv, PassedByFew, InProgress
<1>10. /\ Cardinality(Missed') \in Int /\ Cardinality(PassedBy) \in Int
       /\ changed.deleted \in Int
  BY <1>1, <1>7, SetsOfIds, QueriesAssumption DEF TypeOK, Changes
<1>11. Cardinality(Missed)' <= changed'.deleted
  BY <1>1, <1>8, <1>9, <1>10
<1> QED
  BY <1>5, <1>11 DEF MissInv, BatchEmpty, StableThere, ReadVisible, TotalCovers, PassedByFew,
     MissesAtMostDeleted, InProgress

\* With the next page, nothing more is passed by.
LEMMA MissNext ==
    ASSUME Inv, MissInv, Details, ~LocationGone, listing.kind = "visible",
           ~(listing.page >= pages(listing.total))
    PROVE  MissInv'
<1>1. /\ TypeOK /\ listing \in Listings /\ listing.step = "details"
      /\ UNCHANGED <<now, events, nextId, locations, changed>>
  BY DEF Inv, TypeOK, Listings, Details
<1>2. listing' = [listing EXCEPT !.step = "count", !.total = 0, !.batch = {},
                                 !.page = listing.page + 1, !.items = @ \union details]
  BY DEF Details, AfterPage, NextPage
<1>3. /\ listing'.step = "count" /\ listing'.items = listing.items \union details
      /\ listing'.page = listing.page + 1 /\ listing'.batch = {}
      /\ listing'.kind = listing.kind /\ listing'.started = listing.started
  BY <1>1, <1>2 DEF Listings
<1>4. \A id : UpTo(id)' = UpTo(id) /\ (Exists(id)' <=> Exists(id))
  BY <1>1 DEF UpTo, ExistingIds, Exists
<1>5. Stable' = Stable
  BY <1>1 DEF Stable
<1>6. Read' = Read
  <2>1. {item.id : item \in details} = {row.id : row \in listing.batch}
    <3>1. ASSUME NEW item \in details PROVE \E row \in listing.batch : item.id = row.id
      BY ItemsOfRows
    <3>2. ASSUME NEW row \in listing.batch PROVE \E item \in details : item.id = row.id
      <4>1. [id |-> row.id, deletion_scheduled_at |-> row.deletion_scheduled_at,
             page |-> listing.page] \in details
        BY DEF details
      <4> QED
        BY <4>1
    <3> QED
      BY <3>1, <3>2
  <2>2. Listed' = Listed \union {item.id : item \in details}
    BY <1>3 DEF Listed
  <2>3. {row.id : row \in listing'.batch} = {}
    BY <1>3
  <2> QED
    BY <2>1, <2>2, <2>3 DEF Read
<1>7. Offset(Reached)' = Offset(Reached)
  BY <1>1, <1>3 DEF Reached, Offset
<1>8. PassedBy' = PassedBy
  BY <1>4, <1>5, <1>6, <1>7 DEF PassedBy
<1>9. ReadVisible'
  <2>1. ASSUME NEW item \in details, item.id \in Stable
        PROVE  visible(item, listing.started)
    <3>1. PICK row \in listing.batch :
            item = [id |-> row.id, deletion_scheduled_at |-> row.deletion_scheduled_at,
                    page |-> listing.page]
      BY DEF details
    <3>2. item.id = row.id /\ item.deletion_scheduled_at = row.deletion_scheduled_at
      BY <3>1
    <3>3. visible(row, listing.started)
      BY <1>1, <2>1, <3>2 DEF MissInv, ReadVisible, InProgress
    <3> QED
      BY <3>2, <3>3 DEF visible
  <2>2. \A item \in listing.items : item.id \in Stable => visible(item, listing.started)
    BY <1>1 DEF MissInv, ReadVisible, InProgress
  <2> QED
    BY <1>3, <1>5, <2>1, <2>2 DEF ReadVisible
<1>10. StableThere'
  BY <1>1, <1>3, <1>4, <1>5 DEF MissInv, StableThere, InProgress
<1>11. PassedByFew'
  BY <1>1, <1>3, <1>8 DEF MissInv, PassedByFew, InProgress
<1>12. BatchEmpty' /\ TotalCovers' /\ MissesAtMostDeleted'
  BY <1>3 DEF BatchEmpty, TotalCovers, MissesAtMostDeleted
<1> QED
  BY <1>9, <1>10, <1>11, <1>12 DEF MissInv

\* A query that fails, or is no listing of the visible events, is over.
LEMMA MissDetails ==
    ASSUME Inv, MissInv, Details
    PROVE  MissInv'
<1>1. listing \in Listings /\ listing.step = "details" /\ TypeOK
  BY DEF Inv, TypeOK, Listings, Details
<1>2. CASE LocationGone
  <2>1. listing' = Ended("failed")
    BY <1>2 DEF Details
  <2>2. listing'.step = "failed" /\ listing'.batch = {}
    BY <2>1 DEF Ended, NewListing
  <2> QED
    BY <2>2 DEF MissInv, BatchEmpty, StableThere, ReadVisible, TotalCovers, PassedByFew,
       MissesAtMostDeleted, InProgress
<1>3. CASE ~LocationGone /\ listing.kind # "visible"
  <2>1. listing' = [listing EXCEPT !.step = "done", !.batch = {}, !.items = details]
    BY <1>3 DEF Details, AfterPage
  <2>2. listing'.step = "done" /\ listing'.batch = {} /\ listing'.kind = listing.kind
    BY <1>1, <2>1 DEF Listings
  <2> QED
    BY <1>3, <2>2 DEF MissInv, BatchEmpty, StableThere, ReadVisible, TotalCovers,
       PassedByFew, MissesAtMostDeleted, InProgress
<1> QED
  BY <1>2, <1>3, MissEnd, MissNext

LEMMA MissStep ==
    ASSUME Inv, Inv', MissInv, [Next]_vars
    PROVE  MissInv'
<1>1. CASE Tick \/ \E l \in Places : DeleteLocation(l)
  BY <1>1, MissOther DEF Tick, DeleteLocation
<1>2. CASE CreateEvent
  BY <1>2, MissCreate
<1>3. CASE DeleteDue
  BY <1>3, MissDelete
<1>4. ASSUME NEW id \in Ids, UpdateEvent(id) PROVE MissInv'
  BY <1>4, MissUpdate
<1>5. CASE GetVisibleEvents
  <2>1. Start("visible", 1) /\ "visible" \in Kinds
    BY <1>5 DEF GetVisibleEvents, Kinds
  <2> QED
    BY <2>1, MissStart
<1>6. CASE GetNonExpiredEvents \/ GetEvent
  <2>1. PICK kind \in {"page", "event"}, page \in Nat : Start(kind, page)
    BY <1>6 DEF GetNonExpiredEvents, GetEvent, Ids
  <2>2. kind \in Kinds /\ kind # "visible"
    BY DEF Kinds
  <2> QED
    BY <2>1, <2>2, MissStart
<1>7. CASE Count
  BY <1>7, MissCount
<1>8. CASE ReadRows
  BY <1>8, MissRead
<1>9. CASE Details
  BY <1>9, MissDetails
<1>10. CASE UNCHANGED vars
  BY <1>10, MissOther DEF vars
<1> QED
  BY <1>1, <1>2, <1>3, <1>4, <1>5, <1>6, <1>7, <1>8, <1>9, <1>10 DEF Next, Query

\* For any table, page size and order of changes, a listing of the visible
\* events misses no more of those that were there and visible all the time than
\* were deleted while it ran (get_visible_events).
THEOREM FewMissed == Spec => []MissesAtMostDeleted
<1>1. Init => MissInv
  BY MissInit
<1>2. Inv /\ Inv' /\ MissInv /\ [Next]_vars => MissInv'
  BY MissStep
<1>3. MissInv => MissesAtMostDeleted
  BY DEF MissInv
<1> QED
  BY <1>1, <1>2, <1>3, Invariance, PTL DEF Spec

\* A listing during which nothing is deleted misses nothing.
CompleteUnlessDeleted ==
    listing.step = "done" /\ listing.kind = "visible" /\ changed.deleted = 0 => Missed = {}

\* So while nothing is deleted a listing has every event that was there and
\* visible all the time, however many are created and updated meanwhile
\* (get_visible_events).
THEOREM NoneMissedUnlessDeleted == Spec => []CompleteUnlessDeleted
<1>1. TypeOK /\ MissesAtMostDeleted => CompleteUnlessDeleted
  <2> SUFFICES ASSUME TypeOK, Cardinality(Missed) <= 0 PROVE Missed = {}
    BY DEF MissesAtMostDeleted, CompleteUnlessDeleted
  <2>1. Missed \in SUBSET Ids
    BY DEF Missed
  <2>2. IsFiniteSet(Missed) /\ Cardinality(Missed) \in Nat
    BY <2>1, SetsOfIds, QueriesAssumption
  <2>3. Cardinality(Missed) = 0
    BY <2>2
  <2> QED
    BY <2>2, <2>3, FS_EmptySet
<1> QED
  BY <1>1, TypeCorrectness, FewMissed, PTL

----------------------------------------------------------------------------
(* A query comes to its end.                                               *)

\* How many steps a query has still to do at most: three for a page.
StepsOfPage == IF listing.step = "count" THEN 3 ELSE IF listing.step = "rows" THEN 2 ELSE 1

StepsLeft ==
    IF listing.kind = "visible" THEN 3 * (pages(MaxEvents) - listing.page) + StepsOfPage
                                ELSE StepsOfPage

StepsBounded == InProgress => StepsLeft \in 1..(3 * pages(MaxEvents))

\* A step of the query is one less, or its end, and nothing else holds it up.
Advances ==
    InProgress =>
        IF Query THEN InProgress' => StepsLeft' = StepsLeft - 1
                 ELSE listing' = listing

LEMMA StepsAreBounded == ASSUME TypeOK PROVE StepsBounded
<1> DEFINE last == pages(MaxEvents)
<1>1. last \in Nat /\ 1 <= last
  BY PagesGrow, FirstPage, QueriesAssumption
<1>2. listing.page \in Nat \ {0} /\ (listing.kind = "visible" => listing.page <= last)
  BY DEF TypeOK
<1>3. StepsOfPage \in 1..3
  BY DEF StepsOfPage
<1> HIDE DEF last
<1>4. StepsLeft = IF listing.kind = "visible" THEN 3 * (last - listing.page) + StepsOfPage
                                              ELSE StepsOfPage
  BY DEF StepsLeft, last
<1>5. StepsLeft \in 1..(3 * last)
  BY <1>1, <1>2, <1>3, <1>4
<1> QED
  BY <1>5 DEF StepsBounded, last

LEMMA StepAdvances ==
    ASSUME TypeOK, TypeOK', [Next]_vars
    PROVE  Advances
<1> SUFFICES ASSUME InProgress
             PROVE  IF Query THEN InProgress' => StepsLeft' = StepsLeft - 1
                             ELSE listing' = listing
  BY DEF Advances
<1>1. listing \in Listings /\ listing' \in Listings
  BY DEF TypeOK, Listings
<1>2. CASE ~Query
  <2>1. CASE UNCHANGED vars
    BY <2>1, <1>2 DEF vars
  <2>2. CASE Next
    BY <1>2, <2>2 DEF Next, Tick, CreateEvent, DeleteDue, UpdateEvent, DeleteLocation,
       GetVisibleEvents, GetNonExpiredEvents, GetEvent, Start
  <2> QED
    BY <1>2, <2>1, <2>2
<1> SUFFICES ASSUME Query, InProgress' PROVE StepsLeft' = StepsLeft - 1
  BY <1>2
<1>3. CASE Count
  <2>1. /\ listing.step = "count" /\ listing'.step = "rows"
        /\ listing'.kind = listing.kind /\ listing'.page = listing.page
    BY <1>1, <1>3 DEF Count, Listings
  <2>2. StepsOfPage = 3 /\ StepsOfPage' = 2
    BY <2>1 DEF StepsOfPage
  <2>3. 3 * (pages(MaxEvents) - listing.page) \in Int
    BY <1>1, PagesGrow, QueriesAssumption DEF Listings
  <2> QED
    BY <2>1, <2>2, <2>3 DEF StepsLeft, pages
<1>4. CASE ReadRows
  <2> DEFINE ids == IF listing.kind = "event" THEN {listing.page} ELSE page_rows(listing.page)
  <2>1. listing.step = "rows"
    BY <1>4 DEF ReadRows
  <2>2. ~(listing.kind = "event" /\ ~Exists(listing.page))
    <3> SUFFICES ASSUME listing' = Ended("done") PROVE FALSE
      BY <1>4 DEF ReadRows
    <3>1. listing'.step = "done"
      BY EndedOK DEF Steps
    <3> QED
      BY <3>1 DEF InProgress
  <2>3. listing' = [listing EXCEPT !.step = "details", !.batch = {RowOf(id) : id \in ids}]
    BY <1>4, <2>2 DEF ReadRows
  <2> HIDE DEF ids
  <2>4. /\ listing'.step = "details"
        /\ listing'.kind = listing.kind /\ listing'.page = listing.page
    BY <1>1, <2>3 DEF Listings
  <2>5. StepsOfPage = 2 /\ StepsOfPage' = 1
    BY <2>1, <2>4 DEF StepsOfPage
  <2>6. 3 * (pages(MaxEvents) - listing.page) \in Int
    BY <1>1, PagesGrow, QueriesAssumption DEF Listings
  <2> QED
    BY <2>4, <2>5, <2>6 DEF StepsLeft, pages
<1>5. CASE Details
  <2>1. listing.step = "details"
    BY <1>5 DEF Details
  <2>2. ~LocationGone
    <3> SUFFICES ASSUME listing' = Ended("failed") PROVE FALSE
      BY <1>5 DEF Details
    <3>1. listing'.step = "failed"
      BY EndedOK DEF Steps
    <3> QED
      BY <3>1 DEF InProgress
  <2>3. listing' = AfterPage
    BY <1>5, <2>2 DEF Details
  <2>4. listing.kind = "visible"
    <3> SUFFICES ASSUME listing' = [listing EXCEPT !.step = "done", !.batch = {}, !.items = details]
                 PROVE  FALSE
      BY <2>3 DEF AfterPage
    <3>1. listing'.step = "done"
      BY <1>1 DEF Listings
    <3> QED
      BY <3>1 DEF InProgress
  <2>5. ~(listing.page >= pages(listing.total))
    <3> DEFINE end == Ended("done")
               items == visible_items(listing.items \union details)
    <3> SUFFICES ASSUME listing' = [end EXCEPT !.items = items] PROVE FALSE
      BY <2>3, <2>4 DEF AfterPage
    <3>1. end \in Listings /\ end.step = "done"
      BY <1>1, EndedOK DEF Steps
    <3> HIDE DEF end, items
    <3>2. listing'.step = "done"
      BY <3>1 DEF Listings
    <3> QED
      BY <3>2 DEF InProgress
  <2>6. listing' = [listing EXCEPT !.step = "count", !.total = 0, !.batch = {},
                                   !.page = listing.page + 1, !.items = @ \union details]
    BY <2>3, <2>4, <2>5 DEF AfterPage, NextPage
  <2>7. /\ listing'.step = "count" /\ listing'.kind = "visible"
        /\ listing'.page = listing.page + 1
    BY <1>1, <2>4, <2>6 DEF Listings
  <2>8. StepsOfPage = 1 /\ StepsOfPage' = 3
    BY <2>1, <2>7 DEF StepsOfPage
  <2>9. pages(MaxEvents) \in Int /\ listing.page \in Int
    BY <1>1, PagesGrow, QueriesAssumption DEF Listings
  <2> DEFINE last == pages(MaxEvents)
  <2>10. /\ StepsLeft = 3 * (last - listing.page) + 1
         /\ StepsLeft' = 3 * (last - (listing.page + 1)) + 3
    BY <2>4, <2>7, <2>8 DEF StepsLeft, pages
  <2> HIDE DEF last
  <2>11. last \in Int
    BY <2>9 DEF last
  <2> QED
    BY <2>9, <2>10, <2>11
<1> QED
  BY <1>3, <1>4, <1>5 DEF Query

\* However the table grows while it runs, a query has at most three steps for
\* each page there can be: each is nearer to the end, no step of anything else
\* puts it off, and no page past the last is asked for (get_visible_events).
THEOREM QueryAdvances == Spec => []StepsBounded /\ [][Advances]_vars
<1>1. TypeOK => StepsBounded
  BY StepsAreBounded
<1>2. TypeOK /\ TypeOK' /\ [Next]_vars => [Advances]_vars
  BY StepAdvances
<1> QED
  BY <1>1, <1>2, TypeCorrectness, PTL DEF Spec

============================================================================
