------------------------ MODULE LocationCatalogProofs -----------------------
(***************************************************************************)
(* Theorems about LocationCatalog: the foreign key and the description of  *)
(* every location for any number of API processes, the notifications for   *)
(* one.                                                                    *)
(***************************************************************************)
EXTENDS LocationCatalog, TLAPS

\* What a handler in progress holds.
Holds(q) ==
    /\ q.step # "idle" => q.location \in LocationIds
    /\ q.step = "resolved" => /\ q.op \in {"create", "move"}
                              /\ q.op = "move" => q.event \in EventIds
    /\ q.step \in {"changed", "loaded", "committed"} => q.entity \in Location
    /\ q.step = "loaded" => q.row \in Columns

\* The rest of Inv is about the tables; this is about the requests.
RequestsOK ==
    /\ request \in [Workers -> Request]
    /\ \A w \in Workers : Holds(request[w])

Inv ==
    /\ TypeOK
    /\ RequestsOK
    /\ NoEventWithoutLocation
    /\ EveryLocationDescribed

LEMMA IdleLemma == Idle \in Request /\ Holds(Idle)
  BY DEF Idle, Request, Holds, Steps

LEMMA LocationLemma == \A c \in Location : c \in Columns /\ Described(c)
  BY DEF Location

LEMMA InitInv == Init => Inv
  <1> SUFFICES ASSUME Init PROVE Inv
    OBVIOUS
  <1>1. RequestsOK
    BY IdleLemma DEF Init, RequestsOK
  <1>2. TypeOK
    BY <1>1, BoundsAssumption DEF Init, TypeOK, RequestsOK, LocationIds, EventIds, Idle
  <1> QED
    BY <1>1, <1>2 DEF Init, Inv, NoEventWithoutLocation, EveryLocationDescribed, Exists

----------------------------------------------------------------------------
(* Steps of a handler that leave the tables alone.                         *)

LEMMA RequestLemma ==
    ASSUME RequestsOK, NEW w \in Workers, NEW q \in Request, Holds(q),
           request' = [request EXCEPT ![w] = q]
    PROVE  RequestsOK'
  BY DEF RequestsOK

LEMMA DoneLemma ==
    ASSUME RequestsOK, NEW w \in Workers, Done(w)
    PROVE  RequestsOK'
  BY IdleLemma, RequestLemma DEF Done

LEMMA QuietLemma ==
    ASSUME Inv, RequestsOK', UNCHANGED <<now, rowVars, eventVars, selected>>,
           published' \in [LocationIds -> Columns \union {None}],
           missed' \subseteq LocationIds
    PROVE  Inv'
  <1>1. TypeOK'
    BY DEF Inv, TypeOK, RequestsOK, Holds, rowVars, eventVars
  <1> QED
    BY <1>1 DEF Inv, NoEventWithoutLocation, EveryLocationDescribed, Exists,
                rowVars, eventVars

LEMMA MoveLemma ==
    ASSUME Inv, NEW w \in Workers, NEW q \in Request, Holds(q),
           request' = [request EXCEPT ![w] = q],
           UNCHANGED <<now, rowVars, eventVars, selected, noticeVars>>
    PROVE  Inv'
  <1>1. RequestsOK'
    BY RequestLemma DEF Inv
  <1> QED
    BY <1>1, QuietLemma DEF Inv, TypeOK, noticeVars

LEMMA EndLemma ==
    ASSUME Inv, NEW w \in Workers, Done(w),
           UNCHANGED <<now, rowVars, eventVars, selected, noticeVars>>
    PROVE  Inv'
  BY IdleLemma, MoveLemma DEF Done

\* A request arrives that looks at a location or an event.
LEMMA ReceiveInv ==
    ASSUME Inv, NEW w \in Workers,
           FindLocation(w) \/ FindEvent(w) \/ ApplyChanges(w)
    PROVE  Inv'
<1>1. CASE FindLocation(w)
  <2>1. PICK l \in LocationIds :
            request' = [request EXCEPT ![w] =
                [Idle EXCEPT !.step = "resolved", !.op = "create", !.location = l]]
    BY <1>1 DEF FindLocation
  <2> DEFINE q == [Idle EXCEPT !.step = "resolved", !.op = "create", !.location = l]
  <2>2. q \in Request /\ Holds(q)
    BY DEF Idle, Request, Holds, Steps
  <2> QED
    BY <1>1, <2>1, <2>2, MoveLemma DEF FindLocation
<1>2. CASE FindEvent(w)
  <2>1. PICK e \in EventIds, l \in LocationIds :
            request' = [request EXCEPT ![w] =
                [Idle EXCEPT !.step = "resolved", !.op = "move",
                             !.location = l, !.event = e]]
    BY <1>2 DEF FindEvent
  <2> DEFINE q == [Idle EXCEPT !.step = "resolved", !.op = "move",
                               !.location = l, !.event = e]
  <2>2. q \in Request /\ Holds(q)
    BY DEF Idle, Request, Holds, Steps
  <2> QED
    BY <1>2, <2>1, <2>2, MoveLemma DEF FindEvent
<1>3. CASE ApplyChanges(w)
  <2>1. PICK l \in LocationIds, c \in Location :
            request' = [request EXCEPT ![w] =
                [Idle EXCEPT !.step = "changed", !.op = "update",
                             !.location = l, !.entity = c]]
    BY <1>3 DEF ApplyChanges
  <2> DEFINE q == [Idle EXCEPT !.step = "changed", !.op = "update",
                               !.location = l, !.entity = c]
  <2>2. q \in Request /\ Holds(q)
    BY DEF Idle, Request, Holds, Steps
  <2> QED
    BY <1>3, <2>1, <2>2, MoveLemma DEF ApplyChanges
<1> QED
  BY <1>1, <1>2, <1>3

LEMMA LoadInv == ASSUME Inv, NEW w \in Workers, LoadLocation(w) PROVE Inv'
<1> DEFINE l == request[w].location
<1>1. UNCHANGED <<now, rowVars, eventVars, selected, noticeVars>>
  BY DEF LoadLocation
<1>2. /\ request[w] \in Request /\ request[w].step = "changed"
      /\ l \in LocationIds /\ request[w].entity \in Location
  BY DEF Inv, RequestsOK, Holds, LoadLocation
<1>3. CASE Exists(l)
  <2> DEFINE q == [request[w] EXCEPT !.step = "loaded", !.row = locations[l]]
  <2>1. locations[l] \in Columns
    BY <1>2, <1>3 DEF Inv, TypeOK, Exists
  <2>2. q \in Request /\ Holds(q)
    BY <1>2, <2>1 DEF Request, Holds, Steps
  <2>3. request' = [request EXCEPT ![w] = q]
    BY <1>3 DEF LoadLocation, Inv, RequestsOK
  <2> QED
    BY <1>1, <2>2, <2>3, MoveLemma
<1>4. CASE ~Exists(l)
  BY <1>1, <1>4, EndLemma DEF LoadLocation
<1> QED
  BY <1>3, <1>4

\* A request ends without touching a table.
LEMMA EndInv ==
    ASSUME Inv, NEW w \in Workers, Refuse(w) \/ PublishLocation(w) \/ Crash(w)
    PROVE  Inv'
<1>1. CASE Refuse(w)
  BY <1>1, EndLemma DEF Refuse
<1>2. CASE PublishLocation(w)
  <2>1. RequestsOK'
    BY <1>2, DoneLemma DEF PublishLocation, Inv
  <2>2. request[w].entity \in Columns /\ request[w].location \in LocationIds
    BY <1>2, LocationLemma DEF PublishLocation, Inv, RequestsOK, Holds
  <2>3. /\ published' \in [LocationIds -> Columns \union {None}]
        /\ missed' \subseteq LocationIds
    BY <1>2, <2>2 DEF PublishLocation, Inv, TypeOK
  <2> QED
    BY <1>2, <2>1, <2>3, QuietLemma DEF PublishLocation
<1>3. CASE Crash(w)
  <2>1. RequestsOK'
    BY <1>3, DoneLemma DEF Crash, Inv
  <2>2. /\ published' \in [LocationIds -> Columns \union {None}]
        /\ missed' \subseteq LocationIds
    BY <1>3 DEF Crash, Inv, TypeOK, RequestsOK, Holds
  <2> QED
    BY <1>3, <2>1, <2>2, QuietLemma DEF Crash
<1> QED
  BY <1>1, <1>2, <1>3

----------------------------------------------------------------------------
(* Steps that write a table.                                               *)

LEMMA CreateLocationInv ==
    ASSUME Inv, NEW w \in Workers, CreateLocation(w)
    PROVE  Inv'
<1> DEFINE q == [Idle EXCEPT !.step = "resolved", !.op = "create", !.location = nextLocation]
<1>1. PICK c \in Location, d \in CreationDates \union {now} :
          /\ locations' = [locations EXCEPT ![nextLocation] = c]
          /\ created' = [created EXCEPT ![nextLocation] = d]
  BY DEF CreateLocation
<1>2. nextLocation \in LocationIds
  BY DEF CreateLocation
<1>3. q \in Request /\ Holds(q)
  BY <1>2 DEF Idle, Request, Holds, Steps
<1>4. RequestsOK'
  BY <1>3, RequestLemma DEF CreateLocation, Inv
<1>5. nextLocation' \in 1..(MaxLocations + 1)
  BY <1>2, BoundsAssumption DEF CreateLocation, LocationIds
<1>6. c \in Columns /\ Described(c) /\ c # None
  BY LocationLemma, NoneAssumption
<1>7. TypeOK'
  <2>1. d \in Int
    BY BoundsAssumption DEF Inv, TypeOK
  <2>2. created' \in [LocationIds -> Int]
    BY <1>1, <2>1 DEF Inv, TypeOK
  <2>3. locations' \in [LocationIds -> Columns \union {None}]
    BY <1>1, <1>6 DEF Inv, TypeOK
  <2>4. inUse' \in [LocationIds -> Nat] /\ UNCHANGED <<now, eventVars, selected, noticeVars>>
    BY DEF CreateLocation, Inv, TypeOK
  <2> QED
    BY <1>4, <1>5, <2>2, <2>3, <2>4
       DEF Inv, TypeOK, RequestsOK, Holds, eventVars, noticeVars
<1>8. NoEventWithoutLocation'
  BY <1>1, <1>6 DEF CreateLocation, Inv, TypeOK, NoEventWithoutLocation, Exists, eventVars
<1>9. EveryLocationDescribed'
  BY <1>1, <1>6 DEF Inv, TypeOK, EveryLocationDescribed, Exists
<1> QED
  BY <1>4, <1>7, <1>8, <1>9 DEF Inv

\* An event is stored, or moved, only to a location that exists at that moment.
LEMMA StoreEventInv ==
    ASSUME Inv, NEW w \in Workers, StoreEvent(w) \/ MoveEvent(w)
    PROVE  Inv'
<1>1. RequestsOK'
  BY DoneLemma DEF StoreEvent, MoveEvent, Inv
<1>2. PICK e \in EventIds : events' = [events EXCEPT ![e] = request[w].location]
  BY DEF StoreEvent, MoveEvent, Inv, RequestsOK, Holds
<1>3. request[w].location \in LocationIds /\ Exists(request[w].location)
  BY DEF StoreEvent, MoveEvent, Inv, RequestsOK, Holds
<1>4. nextEvent' \in 1..(MaxEvents + 1)
  BY BoundsAssumption DEF StoreEvent, MoveEvent, Inv, TypeOK, EventIds
<1>5. TypeOK'
  BY <1>1, <1>2, <1>3, <1>4
     DEF StoreEvent, MoveEvent, Inv, TypeOK, RequestsOK, Holds, rowVars, noticeVars
<1>6. NoEventWithoutLocation' /\ EveryLocationDescribed'
  BY <1>2, <1>3 DEF StoreEvent, MoveEvent, Inv, TypeOK, NoEventWithoutLocation,
                    EveryLocationDescribed, Exists, rowVars
<1> QED
  BY <1>1, <1>5, <1>6 DEF Inv

\* A merge of columns is a row of the table's type.
LEMMA WrittenLemma ==
    ASSUME NEW w \in Workers,
           locations[request[w].location] \in Columns,
           request[w].entity \in Columns,
           request[w].row \in Columns
    PROVE  /\ Written(w) \in Columns
           /\ locations[request[w].location] = request[w].row
                 => Written(w) = request[w].entity
  BY DEF Written, Columns

\* What a flush leaves in the row, if there is one.
LEMMA FlushLemma ==
    ASSUME Inv, NEW w \in Workers, FlushLocation(w)
    PROVE  \/ Done(w) /\ UNCHANGED locations
           \/ /\ request' = [request EXCEPT ![w].step = "committed"]
              /\ UNCHANGED locations
              /\ request[w].entity = request[w].row
           \/ /\ request' = [request EXCEPT ![w].step = "committed"]
              /\ Exists(request[w].location) /\ Described(Written(w))
              /\ locations' = [locations EXCEPT ![request[w].location] = Written(w)]
  BY DEF FlushLocation, Commit, Inv, TypeOK

LEMMA FlushInv == ASSUME Inv, NEW w \in Workers, FlushLocation(w) PROVE Inv'
<1> DEFINE q == [request[w] EXCEPT !.step = "committed"]
           l == request[w].location
<1>1. /\ request[w] \in Request /\ request[w].step = "loaded" /\ l \in LocationIds
      /\ request[w].entity \in Columns /\ request[w].row \in Columns
      /\ request[w].entity \in Location
  BY LocationLemma DEF FlushLocation, Inv, RequestsOK, Holds
<1>2. q \in Request /\ Holds(q)
  BY <1>1 DEF Request, Holds, Steps
<1>3. request' = [request EXCEPT ![w].step = "committed"] => request' = [request EXCEPT ![w] = q]
  BY DEF Inv, RequestsOK
<1>4. RequestsOK'
  BY <1>2, <1>3, FlushLemma, DoneLemma, RequestLemma DEF Inv
<1>5. UNCHANGED <<now, created, inUse, nextLocation, eventVars, selected, noticeVars>>
  BY DEF FlushLocation
<1>6. CASE UNCHANGED locations
  BY <1>4, <1>5, <1>6, QuietLemma DEF Inv, TypeOK, rowVars, noticeVars
<1>7. CASE /\ Exists(l) /\ Described(Written(w))
           /\ locations' = [locations EXCEPT ![l] = Written(w)]
  <2>1. locations[l] \in Columns
    BY <1>1, <1>7 DEF Inv, TypeOK, Exists
  <2>2. Written(w) \in Columns /\ Written(w) # None
    BY <1>1, <2>1, WrittenLemma, NoneAssumption
  <2>3. TypeOK'
    BY <1>4, <1>5, <1>7, <2>2 DEF Inv, TypeOK, RequestsOK, Holds, eventVars, noticeVars
  <2>4. NoEventWithoutLocation' /\ EveryLocationDescribed'
    BY <1>5, <1>7, <2>2 DEF Inv, TypeOK, NoEventWithoutLocation,
                            EveryLocationDescribed, Exists, eventVars
  <2> QED
    BY <1>4, <2>3, <2>4 DEF Inv
<1> QED
  BY <1>6, <1>7, FlushLemma

\* Time, the job and the deletions of events: rows go, none comes or changes,
\* and a location goes only while no event has it.
LEMMA JobInv ==
    ASSUME Inv, Tick \/ (\E e \in EventIds : DeleteEvent(e))
                \/ JobSelect \/ JobDelete \/ JobCrash
    PROVE  Inv'
<1>1. UNCHANGED <<created, nextLocation, nextEvent, request, published, missed>>
  BY DEF Tick, DeleteEvent, JobSelect, JobDelete, JobCrash, rowVars, eventVars, noticeVars
<1>2. now' \in Nat /\ inUse' \in [LocationIds -> Nat]
  BY DEF Inv, TypeOK, Tick, DeleteEvent, JobSelect, JobDelete, JobCrash, rowVars
<1>3. selected' \subseteq LocationIds
  BY DEF Inv, TypeOK, Tick, DeleteEvent, JobSelect, JobDelete, JobCrash
<1>4. /\ events' \in [EventIds -> LocationIds \union {None}]
      /\ \A e \in EventIds : events'[e] \in {events[e], None}
  BY DEF Inv, TypeOK, Tick, DeleteEvent, JobSelect, JobDelete, JobCrash, eventVars
<1>5. /\ locations' \in [LocationIds -> Columns \union {None}]
      /\ \A l \in LocationIds : locations'[l] \in {locations[l], None}
  BY DEF Inv, TypeOK, Tick, DeleteEvent, JobSelect, JobDelete, JobCrash, rowVars
<1>6. \A l \in LocationIds : Used(l) /\ Exists(l) => locations'[l] = locations[l]
  BY DEF Inv, TypeOK, Tick, DeleteEvent, JobSelect, JobDelete, JobCrash, rowVars
<1>7. TypeOK'
  BY <1>1, <1>2, <1>3, <1>4, <1>5 DEF Inv, TypeOK
<1>8. NoEventWithoutLocation'
  <2> SUFFICES ASSUME NEW e \in EventIds, events'[e] # None
               PROVE  locations'[events'[e]] # None
    BY DEF NoEventWithoutLocation, Exists
  <2>1. events'[e] = events[e] /\ events[e] \in LocationIds /\ Exists(events[e])
    BY <1>4 DEF Inv, TypeOK, NoEventWithoutLocation
  <2> QED
    BY <1>6, <2>1 DEF Used, UsedIn, Exists
<1>9. EveryLocationDescribed'
  BY <1>5 DEF Inv, EveryLocationDescribed, Exists
<1> QED
  BY <1>1, <1>7, <1>8, <1>9 DEF Inv, RequestsOK

LEMMA StepInv == Inv /\ [Next]_vars => Inv'
  <1> SUFFICES ASSUME Inv, [Next]_vars PROVE Inv'
    OBVIOUS
  <1>1. CASE Tick \/ (\E e \in EventIds : DeleteEvent(e))
             \/ JobSelect \/ JobDelete \/ JobCrash
    BY <1>1, JobInv
  <1>2. ASSUME NEW w \in Workers, Worker(w) PROVE Inv'
    BY <1>2, ReceiveInv, CreateLocationInv, StoreEventInv, LoadInv, FlushInv, EndInv
       DEF Worker, Serve
  <1>3. CASE UNCHANGED vars
    BY <1>3 DEF vars, Inv, TypeOK, RequestsOK, NoEventWithoutLocation,
                EveryLocationDescribed, Exists
  <1> QED
    BY <1>1, <1>2, <1>3 DEF Next

THEOREM Invariance == Spec => []Inv
  BY InitInv, StepInv, PTL DEF Spec

\* Every variable keeps its type, for any number of API processes.
THEOREM TypeCorrectness == Spec => []TypeOK
  BY Invariance, PTL DEF Inv

\* However the clean-up job, the deletions of events and any number of API
\* processes interleave, no event refers to a deleted location
\* (locations_repository.py: delete_unused_locations_from_datetime).
THEOREM ForeignKeyHolds == Spec => []NoEventWithoutLocation
  BY Invariance, PTL DEF Inv

\* Whatever columns concurrent updates merge, every stored location has a
\* description and both coordinates or none (locations_repository.py: update).
THEOREM LocationsStayDescribed == Spec => []EveryLocationDescribed
  BY Invariance, PTL DEF Inv

----------------------------------------------------------------------------
(* What the clean-up may take.  The job goes by created_at, the client's or *)
(* the time of the INSERT, and by its own JobDelay, so what it selected     *)
(* stays old enough until it deletes; ids above nextLocation are new to     *)
(* everybody.                                                               *)

AgeInv ==
    /\ \A l \in LocationIds : Exists(l) => l < nextLocation
    /\ \A l \in selected : l < nextLocation /\ created[l] < now - JobDelay

\* A location that goes is used by no event, and its created_at is more than
\* JobDelay past.
GoesUnusedAndOld ==
    \A l \in LocationIds :
        Exists(l) /\ ~Exists(l)' => ~Used(l) /\ created[l] < now - JobDelay

\* created_at is the time at which the location is stored, or a date a client
\* sent, and stays what it is.
DateKept ==
    \A l \in LocationIds : Exists(l)' =>
        IF Exists(l) THEN created'[l] = created[l]
                     ELSE created'[l] \in CreationDates \union {now}

LEMMA AgeKept ==
    ASSUME Inv, AgeInv, Inv', now <= now',
           UNCHANGED <<created, nextLocation>>,
           \A l \in LocationIds : Exists(l)' => Exists(l),
           selected' \subseteq selected
    PROVE  AgeInv'
<1>1. \A l \in LocationIds : Exists(l)' => l < nextLocation'
  BY DEF AgeInv
<1>2. ASSUME NEW l \in selected' PROVE l < nextLocation' /\ created'[l] < now' - JobDelay
  <2>1. l < nextLocation /\ created[l] < now - JobDelay /\ l \in LocationIds
    BY <1>2 DEF AgeInv, Inv, TypeOK
  <2>2. created[l] \in Int /\ now \in Nat /\ now' \in Nat
    BY <2>1 DEF Inv, TypeOK
  <2> QED
    BY <2>1, <2>2, BoundsAssumption
<1> QED
  BY <1>1, <1>2 DEF AgeInv

LEMMA AgeWorker ==
    ASSUME Inv, AgeInv, Inv', NEW w \in Workers, Worker(w)
    PROVE  AgeInv' /\ GoesUnusedAndOld /\ DateKept
<1>1. UNCHANGED <<now, selected>> /\ now \in Nat
  BY DEF Worker, Serve, CreateLocation, FindLocation, FindEvent, ApplyChanges, Refuse,
         StoreEvent, MoveEvent, LoadLocation, FlushLocation, PublishLocation, Crash,
         Inv, TypeOK
<1>2. CASE CreateLocation(w)
  <2> DEFINE n == nextLocation
  <2>1. /\ n \in LocationIds /\ n \in Nat /\ nextLocation' = n + 1
        /\ \A l \in LocationIds : l # n => locations'[l] = locations[l] /\ created'[l] = created[l]
    BY <1>2, BoundsAssumption DEF CreateLocation, Inv, TypeOK, LocationIds
  <2>2. ~Exists(n)
    BY <2>1 DEF AgeInv
  <2>3. \A l \in LocationIds : Exists(l)' => l < nextLocation'
    BY <2>1, BoundsAssumption DEF AgeInv, Exists, LocationIds
  <2>4. \A l \in selected : l \in LocationIds /\ l # n /\ l < nextLocation'
    BY <2>1, BoundsAssumption DEF AgeInv, Inv, TypeOK, LocationIds
  <2>5. AgeInv'
    BY <1>1, <2>1, <2>3, <2>4 DEF AgeInv
  <2>6. GoesUnusedAndOld
    BY <2>1, <2>2 DEF GoesUnusedAndOld, Exists
  <2>7. created'[n] \in CreationDates \union {now}
    BY <1>2, <2>1 DEF CreateLocation, Inv, TypeOK
  <2>8. DateKept
    BY <2>1, <2>2, <2>7 DEF DateKept, Exists
  <2> QED
    BY <2>5, <2>6, <2>8
<1>3. CASE FlushLocation(w)
  <2> DEFINE k == request[w].location
  <2>1. UNCHANGED <<created, nextLocation>>
    BY <1>3 DEF FlushLocation
  <2>2. \A l \in LocationIds : Exists(l)' <=> Exists(l)
    <3>1. CASE UNCHANGED locations
      BY <3>1 DEF Exists
    <3>2. CASE Exists(k) /\ locations' = [locations EXCEPT ![k] = Written(w)]
      <4>1. k \in LocationIds /\ request[w].entity \in Columns /\ request[w].row \in Columns
        BY <1>3, LocationLemma DEF FlushLocation, Inv, RequestsOK, Holds
      <4>2. Written(w) \in Columns /\ Written(w) # None
        BY <3>2, <4>1, WrittenLemma, NoneAssumption DEF Inv, TypeOK, Exists
      <4> QED
        BY <3>2, <4>1, <4>2 DEF Exists, Inv, TypeOK
    <3> QED
      BY <1>3, <3>1, <3>2, FlushLemma
  <2>3. AgeInv'
    BY <1>1, <2>1, <2>2, AgeKept
  <2> QED
    BY <2>1, <2>2, <2>3 DEF GoesUnusedAndOld, DateKept
<1>4. CASE UNCHANGED rowVars
  <2>1. UNCHANGED <<created, nextLocation, locations>>
    BY <1>4 DEF rowVars
  <2>2. \A l \in LocationIds : Exists(l)' <=> Exists(l)
    BY <2>1 DEF Exists
  <2>3. AgeInv'
    BY <1>1, <2>1, <2>2, AgeKept
  <2> QED
    BY <2>1, <2>2, <2>3 DEF GoesUnusedAndOld, DateKept
<1> QED
  BY <1>2, <1>3, <1>4
     DEF Worker, Serve, FindLocation, FindEvent, ApplyChanges, Refuse, StoreEvent,
         MoveEvent, LoadLocation, PublishLocation, Crash

LEMMA AgeJob ==
    ASSUME Inv, AgeInv, Inv',
           \/ Tick \/ (\E e \in EventIds : DeleteEvent(e))
           \/ JobSelect \/ JobDelete \/ JobCrash \/ UNCHANGED vars
    PROVE  AgeInv' /\ GoesUnusedAndOld /\ DateKept
<1>1. UNCHANGED <<created, nextLocation>> /\ now <= now'
  BY DEF Tick, DeleteEvent, JobSelect, JobDelete, JobCrash, rowVars, vars, Inv, TypeOK
<1>2. \A l \in LocationIds : Exists(l)' => Exists(l)
  BY DEF Tick, DeleteEvent, JobSelect, JobDelete, JobCrash, rowVars, vars, Exists
<1>3. AgeInv'
  <2>1. CASE JobSelect
    <3>1. \A l \in selected' : l \in LocationIds /\ Exists(l) /\ created[l] < now - JobDelay
      BY <2>1 DEF JobSelect, Unused, Old
    <3>2. UNCHANGED <<now, locations>>
      BY <2>1 DEF JobSelect, rowVars
    <3> QED
      BY <1>1, <3>1, <3>2 DEF AgeInv, Exists
  <2>2. CASE ~JobSelect
    <3>1. selected' \subseteq selected
      BY <2>2 DEF Tick, DeleteEvent, JobDelete, JobCrash, vars
    <3> QED
      BY <1>1, <1>2, <3>1, AgeKept
  <2> QED
    BY <2>1, <2>2
<1>4. GoesUnusedAndOld
  <2> SUFFICES ASSUME NEW l \in LocationIds, Exists(l), ~Exists(l)'
               PROVE  ~Used(l) /\ created[l] < now - JobDelay
    BY DEF GoesUnusedAndOld
  <2>1. JobDelete
    BY DEF Tick, DeleteEvent, JobSelect, JobCrash, rowVars, vars, Exists
  <2>2. l \in selected /\ ~Used(l)
    BY <2>1 DEF JobDelete, Exists
  <2> QED
    BY <2>2 DEF AgeInv
<1>5. DateKept
  BY <1>1, <1>2 DEF DateKept
<1> QED
  BY <1>3, <1>4, <1>5

\* Whatever happens between the two statements of the job, it takes only
\* locations that no event uses and whose created_at is more than its
\* TIMEDELTA_IN_MINUTES past; and a created_at is the time of the INSERT or what
\* a client sent, and never changes.  So a location nobody has dated back is kept
\* for the delay from its INSERT on, though not from its last use; one that is
\* dated back may go at once (delete_unused_locations_from_datetime; create).
THEOREM OnlyOldAndUnusedGo ==
    Spec => []AgeInv /\ [][GoesUnusedAndOld /\ DateKept]_vars
<1>1. Init => AgeInv
  BY DEF Init, AgeInv, Exists
<1>2. Inv /\ Inv' /\ AgeInv /\ [Next]_vars => AgeInv' /\ [GoesUnusedAndOld /\ DateKept]_vars
  BY AgeJob, AgeWorker DEF Next
<1> QED
  BY <1>1, <1>2, Invariance, PTL DEF Spec

----------------------------------------------------------------------------
(* One API process.  Between the look at a location and the UPDATE only    *)
(* the job can come, and it can only delete the location; so the entity    *)
(* that is published is the row.                                           *)

OneWorker == \A v, w \in Workers : v = w

\* What the handler holds of the stored location c.
Current(q, c) ==
    /\ q.step = "loaded" => q.row = c
    /\ q.step = "committed" => q.entity = c

\* Ids above nextLocation are new to everybody.
OneRest ==
    /\ \A w \in Workers : request[w].step # "idle" =>
          /\ request[w].location < nextLocation
          /\ Exists(request[w].location)
                => Current(request[w], locations[request[w].location])
    /\ \A l \in LocationIds : l >= nextLocation => locations[l] = None /\ published[l] = None
    /\ PublishedIsStored

OneInv == Inv /\ OneRest

\* A step of no handler: locations may go.
LEMMA OneJob ==
    ASSUME OneInv, UNCHANGED <<nextLocation, request, published, missed>>,
           \A l \in LocationIds : locations'[l] \in {locations[l], None}
    PROVE  OneRest'
<1>1. ASSUME NEW w \in Workers, request[w].step # "idle"
      PROVE  /\ request[w].location < nextLocation
             /\ Exists(request[w].location)'
                  => Current(request[w], locations'[request[w].location])
  BY <1>1 DEF OneInv, OneRest, Exists, Inv, RequestsOK, Holds
<1>2. PublishedIsStored'
  BY DEF PublishedIsStored, Exists, OneInv, OneRest
<1> QED
  BY <1>1, <1>2 DEF OneInv, OneRest, Exists

\* A step that moves a handler on without writing.
LEMMA OneMove ==
    ASSUME OneWorker, OneInv, NEW w \in Workers, NEW q \in Request,
           request' = [request EXCEPT ![w] = q],
           UNCHANGED <<rowVars, noticeVars>>,
           request[w].step # "committed",
           q.step # "idle" =>
              /\ q.location < nextLocation
              /\ Exists(q.location) => Current(q, locations[q.location])
    PROVE  OneRest'
<1>1. \A v \in Workers : v = w /\ request'[v] = q
  BY DEF OneWorker, OneInv, Inv, RequestsOK
<1>2. UNCHANGED <<locations, nextLocation, published, missed>>
  BY DEF rowVars, noticeVars
<1>3. PublishedIsStored'
  BY <1>1, <1>2 DEF OneInv, OneRest, PublishedIsStored, Exists
<1> QED
  BY <1>1, <1>2, <1>3 DEF OneInv, OneRest, Exists

LEMMA OneDone ==
    ASSUME OneWorker, OneInv, NEW w \in Workers, Done(w),
           UNCHANGED <<rowVars, noticeVars>>, request[w].step # "committed"
    PROVE  OneRest'
  BY IdleLemma, OneMove DEF Done, Idle

LEMMA OneReceive ==
    ASSUME OneWorker, OneInv, NEW w \in Workers,
           FindLocation(w) \/ FindEvent(w) \/ ApplyChanges(w)
    PROVE  OneRest'
<1>1. PICK q \in Request :
          /\ request' = [request EXCEPT ![w] = q]
          /\ q.step \in {"resolved", "changed"}
          /\ q.location \in LocationIds /\ Exists(q.location)
  <2>1. CASE FindLocation(w)
    <3>1. PICK l \in LocationIds :
              /\ Exists(l)
              /\ request' = [request EXCEPT ![w] =
                    [Idle EXCEPT !.step = "resolved", !.op = "create", !.location = l]]
      BY <2>1 DEF FindLocation
    <3> DEFINE q == [Idle EXCEPT !.step = "resolved", !.op = "create", !.location = l]
    <3>2. q \in Request /\ q.step = "resolved" /\ q.location = l
      BY DEF Idle, Request, Steps
    <3> QED
      BY <3>1, <3>2
  <2>2. CASE FindEvent(w)
    <3>1. PICK e \in EventIds, l \in LocationIds :
              /\ Exists(l)
              /\ request' = [request EXCEPT ![w] =
                    [Idle EXCEPT !.step = "resolved", !.op = "move",
                                 !.location = l, !.event = e]]
      BY <2>2 DEF FindEvent
    <3> DEFINE q == [Idle EXCEPT !.step = "resolved", !.op = "move",
                                 !.location = l, !.event = e]
    <3>2. q \in Request /\ q.step = "resolved" /\ q.location = l
      BY DEF Idle, Request, Steps
    <3> QED
      BY <3>1, <3>2
  <2>3. CASE ApplyChanges(w)
    <3>1. PICK l \in LocationIds, c \in Location :
              /\ Exists(l)
              /\ request' = [request EXCEPT ![w] =
                    [Idle EXCEPT !.step = "changed", !.op = "update",
                                 !.location = l, !.entity = c]]
      BY <2>3 DEF ApplyChanges
    <3> DEFINE q == [Idle EXCEPT !.step = "changed", !.op = "update",
                                 !.location = l, !.entity = c]
    <3>2. q \in Request /\ q.step = "changed" /\ q.location = l
      BY DEF Idle, Request, Steps
    <3> QED
      BY <3>1, <3>2
  <2> QED
    BY <2>1, <2>2, <2>3
<1>2. request[w].step = "idle" /\ UNCHANGED <<rowVars, noticeVars>>
  BY DEF FindLocation, FindEvent, ApplyChanges, Receive
<1>3. q.location < nextLocation
  BY <1>1, BoundsAssumption DEF OneInv, OneRest, Exists, Inv, TypeOK, LocationIds
<1> QED
  BY <1>1, <1>2, <1>3, OneMove DEF Current

LEMMA OneCreate == ASSUME OneWorker, OneInv, NEW w \in Workers, CreateLocation(w) PROVE OneRest'
<1> DEFINE n == nextLocation
<1>1. /\ n \in LocationIds /\ published[n] = None /\ n < nextLocation'
      /\ UNCHANGED noticeVars
      /\ \A l \in LocationIds : l # n => locations'[l] = locations[l]
  BY BoundsAssumption DEF CreateLocation, OneInv, OneRest, Inv, TypeOK, LocationIds
<1>2. \A v \in Workers : /\ request[v].step = "idle"
                         /\ request'[v].step = "resolved" /\ request'[v].location = n
  BY DEF CreateLocation, Receive, OneWorker, OneInv, Inv, RequestsOK, Idle
<1>3. PublishedIsStored'
  BY <1>1, <1>2 DEF OneInv, OneRest, PublishedIsStored, Exists, noticeVars
<1>4. \A l \in LocationIds : l >= nextLocation' => locations'[l] = None /\ published'[l] = None
  BY <1>1, BoundsAssumption
     DEF CreateLocation, OneInv, OneRest, Inv, TypeOK, LocationIds, noticeVars
<1> QED
  BY <1>1, <1>2, <1>3, <1>4 DEF OneRest, Current

LEMMA OneLoad == ASSUME OneWorker, OneInv, NEW w \in Workers, LoadLocation(w) PROVE OneRest'
<1> DEFINE l == request[w].location
<1>1. /\ UNCHANGED <<rowVars, noticeVars>> /\ request[w].step = "changed"
      /\ request[w] \in Request /\ l \in LocationIds /\ l < nextLocation
  BY DEF LoadLocation, OneInv, OneRest, Inv, RequestsOK, Holds
<1>2. CASE Exists(l)
  <2> DEFINE q == [request[w] EXCEPT !.step = "loaded", !.row = locations[l]]
  <2>1. locations[l] \in Columns
    BY <1>1, <1>2 DEF OneInv, Inv, TypeOK, Exists
  <2>2. /\ q \in Request /\ q.step = "loaded" /\ q.location = l /\ q.row = locations[l]
    BY <1>1, <2>1 DEF Request, Steps
  <2>3. request' = [request EXCEPT ![w] = q]
    BY <1>2 DEF LoadLocation, OneInv, Inv, RequestsOK
  <2> HIDE DEF q
  <2> QED
    BY <1>1, <2>2, <2>3, OneMove DEF Current
<1>3. CASE ~Exists(l)
  BY <1>1, <1>3, OneDone DEF LoadLocation
<1> QED
  BY <1>2, <1>3

\* The row flushed is the entity: nobody else has changed it since the load.
LEMMA OneFlush == ASSUME OneWorker, OneInv, NEW w \in Workers, FlushLocation(w) PROVE OneRest'
<1> DEFINE q == [request[w] EXCEPT !.step = "committed"]
           l == request[w].location
<1>1. /\ request[w] \in Request /\ request[w].step = "loaded"
      /\ l \in LocationIds /\ l < nextLocation
      /\ request[w].entity \in Columns /\ request[w].row \in Columns
      /\ Exists(l) => locations[l] = request[w].row
  BY LocationLemma
     DEF FlushLocation, OneInv, OneRest, Inv, RequestsOK, Holds, Current
<1>2. /\ q \in Request /\ q.step = "committed" /\ q.location = l
      /\ q.entity = request[w].entity
  BY <1>1 DEF Request, Steps
<1>3. request' = [request EXCEPT ![w].step = "committed"] => request' = [request EXCEPT ![w] = q]
  BY DEF OneInv, Inv, RequestsOK
<1> HIDE DEF q
<1>4. UNCHANGED <<created, inUse, nextLocation, published, missed>>
  BY DEF FlushLocation, noticeVars
<1>5. CASE Done(w) /\ UNCHANGED locations
  BY <1>1, <1>4, <1>5, OneDone DEF rowVars, noticeVars
<1>6. CASE /\ request' = [request EXCEPT ![w].step = "committed"]
           /\ UNCHANGED locations /\ request[w].entity = request[w].row
  <2>1. Exists(l) => Current(q, locations[l])
    BY <1>1, <1>2, <1>6 DEF Current
  <2>2. UNCHANGED <<rowVars, noticeVars>>
    BY <1>4, <1>6 DEF rowVars, noticeVars
  <2>3. request' = [request EXCEPT ![w] = q]
    BY <1>3, <1>6
  <2> QED
    BY <1>1, <1>2, <2>1, <2>2, <2>3, OneMove
<1>7. CASE /\ request' = [request EXCEPT ![w].step = "committed"]
           /\ Exists(l) /\ locations' = [locations EXCEPT ![l] = Written(w)]
  <2>1. Written(w) = q.entity
    BY <1>1, <1>2, <1>7, WrittenLemma
  <2>2. \A v \in Workers : v = w /\ request'[v] = q
    BY <1>3, <1>7 DEF OneWorker, OneInv, Inv, RequestsOK
  <2>3. locations'[l] = q.entity /\ \A k \in LocationIds : k # l => locations'[k] = locations[k]
    BY <1>1, <1>7, <2>1 DEF OneInv, Inv, TypeOK
  <2>4. PublishedIsStored'
    BY <1>1, <1>2, <1>4, <2>2, <2>3 DEF OneInv, OneRest, PublishedIsStored, Exists
  <2>5. \A k \in LocationIds : k >= nextLocation => locations'[k] = None
    BY <1>1, <2>3, BoundsAssumption DEF OneInv, OneRest, Inv, TypeOK, LocationIds
  <2> QED
    BY <1>1, <1>2, <1>4, <2>2, <2>3, <2>4, <2>5 DEF OneInv, OneRest, Current
<1> QED
  BY <1>5, <1>6, <1>7, FlushLemma DEF OneInv

LEMMA OneEnd ==
    ASSUME OneWorker, OneInv, NEW w \in Workers,
           Refuse(w) \/ StoreEvent(w) \/ MoveEvent(w) \/ PublishLocation(w) \/ Crash(w)
    PROVE  OneRest'
<1> DEFINE l == request[w].location
<1>1. Done(w) /\ UNCHANGED <<locations, created, inUse, nextLocation>>
  BY DEF Refuse, StoreEvent, MoveEvent, PublishLocation, Crash, rowVars
<1>2. CASE request[w].step # "committed"
  BY <1>1, <1>2, OneDone
     DEF Refuse, StoreEvent, MoveEvent, PublishLocation, Crash, rowVars, noticeVars
<1>3. CASE request[w].step = "committed"
  <2>1. \A v \in Workers : v = w /\ request'[v].step = "idle"
    BY <1>1 DEF Done, Idle, OneWorker, OneInv, Inv, RequestsOK
  <2>2. l \in LocationIds /\ l < nextLocation /\ (Exists(l) => locations[l] = request[w].entity)
    BY <1>3 DEF OneInv, OneRest, Inv, RequestsOK, Holds, Current
  <2>3. CASE PublishLocation(w)
    <3>1. PublishedIsStored'
      BY <1>1, <2>1, <2>2, <2>3
         DEF PublishLocation, OneInv, OneRest, Inv, TypeOK, PublishedIsStored, Exists
    <3>2. \A k \in LocationIds : k >= nextLocation => published'[k] = None
      BY <2>2, <2>3, BoundsAssumption
         DEF PublishLocation, OneInv, OneRest, Inv, TypeOK, LocationIds
    <3> QED
      BY <1>1, <2>1, <3>1, <3>2 DEF OneInv, OneRest
  <2>4. CASE Crash(w)
    <3>1. PublishedIsStored'
      BY <1>1, <1>3, <2>1, <2>2, <2>4
         DEF Crash, OneInv, OneRest, PublishedIsStored, Exists
    <3> QED
      BY <1>1, <2>1, <2>4, <3>1 DEF Crash, OneInv, OneRest
  <2> QED
    BY <1>3, <2>3, <2>4 DEF Refuse, StoreEvent, MoveEvent
<1> QED
  BY <1>2, <1>3

LEMMA OneStep == OneWorker /\ OneInv /\ [Next]_vars => OneInv'
  <1> SUFFICES ASSUME OneWorker, OneInv, [Next]_vars PROVE OneRest'
    BY StepInv DEF OneInv
  <1>1. CASE Tick \/ (\E e \in EventIds : DeleteEvent(e))
             \/ JobSelect \/ JobDelete \/ JobCrash
    <2>1. UNCHANGED <<nextLocation, request, published, missed>>
      BY <1>1 DEF Tick, DeleteEvent, JobSelect, JobDelete, JobCrash, rowVars, noticeVars
    <2>2. \A l \in LocationIds : locations'[l] \in {locations[l], None}
      BY <1>1 DEF Tick, DeleteEvent, JobSelect, JobDelete, JobCrash, rowVars
    <2> QED
      BY <2>1, <2>2, OneJob
  <1>2. ASSUME NEW w \in Workers, Worker(w) PROVE OneRest'
    BY <1>2, OneReceive, OneCreate, OneLoad, OneFlush, OneEnd DEF Worker, Serve
  <1>3. CASE UNCHANGED vars
    BY <1>3, OneJob DEF vars
  <1> QED
    BY <1>1, <1>2, <1>3 DEF Next

LEMMA OneInit == Init => OneInv
  <1> SUFFICES ASSUME Init PROVE OneRest
    BY InitInv DEF OneInv
  <1> QED
    BY DEF Init, OneRest, PublishedIsStored, Exists, Idle

THEOREM OneInvariance == ASSUME OneWorker PROVE Spec => []OneInv
  <1>1. OneInv /\ [Next]_vars => OneInv'
    BY OneStep
  <1> QED
    BY <1>1, OneInit, PTL DEF Spec

\* With one API process, what the last location.updated said of a location is
\* what is stored, unless a process died before it published
\* (update_location.py).
THEOREM PublicationsCurrent == ASSUME OneWorker PROVE Spec => []PublishedIsStored
  <1>1. OneInv => PublishedIsStored
    BY DEF OneInv, OneRest
  <1> QED
    BY <1>1, OneInvariance, PTL

============================================================================
