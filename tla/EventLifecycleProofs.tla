------------------------ MODULE EventLifecycleProofs ------------------------
(***************************************************************************)
(* Theorems about EventLifecycle.  The first part holds for any number of  *)
(* API processes, the second for the documented deployment with one.       *)
(***************************************************************************)
EXTENDS EventLifecycle, TLAPS

----------------------------------------------------------------------------
(* The entity's operations.                                                *)

\* schedule_deletion_after_event returns an event with a deletion date and
\* keeps everything else.
LEMMA ScheduleLemma ==
    ASSUME NEW e \in Event(Users), NEW t \in Nat
    PROVE  LET s == schedule_deletion_after_event(e, t) IN
           /\ s \in Event(Users)
           /\ s.deletion_scheduled_at \in Nat
           /\ s.organizer = e.organizer
           /\ s.status = e.status
           /\ s.canceled_at = e.canceled_at
           /\ s.scheduled_at = e.scheduled_at
           /\ s.duration_in_minutes = e.duration_in_minutes
  BY DelaysAssumption, NoneAssumption
     DEF Event, OptionalTime, schedule_deletion_after_event, event_end

\* cancel returns a canceled event with a deletion date.
LEMMA CancelLemma ==
    ASSUME NEW e \in Event(Users), NEW t \in Nat
    PROVE  LET s == cancel(e, t) IN
           /\ s \in Event(Users)
           /\ s.deletion_scheduled_at \in Nat
           /\ s.organizer = e.organizer
           /\ s.status = "canceled"
           /\ s.canceled_at = t
           /\ s.scheduled_at = e.scheduled_at
           /\ s.duration_in_minutes = e.duration_in_minutes
  <1> DEFINE limit == t + CanceledDeletionDelay
             del == IF e.deletion_scheduled_at = None THEN limit
                    ELSE Earliest(e.deletion_scheduled_at, limit)
  <1>1. del \in Nat
    BY DelaysAssumption DEF Event, OptionalTime, Earliest
  <1>2. cancel(e, t) = [e EXCEPT !.status = "canceled", !.canceled_at = t,
                                 !.deletion_scheduled_at = del]
    BY DEF cancel
  <1> HIDE DEF del
  <1> QED
    BY <1>1, <1>2 DEF Event, OptionalTime, EventStatus

\* uncancel returns an active event with a deletion date.
LEMMA UncancelLemma ==
    ASSUME NEW e \in Event(Users), NEW t \in Nat
    PROVE  LET s == uncancel(e, t) IN
           /\ s \in Event(Users)
           /\ s.deletion_scheduled_at \in Nat
           /\ s.organizer = e.organizer
           /\ s.status = "active"
           /\ s.canceled_at = None
           /\ s.scheduled_at = e.scheduled_at
           /\ s.duration_in_minutes = e.duration_in_minutes
  <1> DEFINE a == [e EXCEPT !.status = "active", !.canceled_at = None]
  <1>1. /\ a \in Event(Users)
        /\ a.organizer = e.organizer
        /\ a.status = "active"
        /\ a.canceled_at = None
        /\ a.scheduled_at = e.scheduled_at
        /\ a.duration_in_minutes = e.duration_in_minutes
    BY DEF Event, OptionalTime, EventStatus
  <1> QED
    BY <1>1, ScheduleLemma DEF uncancel

\* A new event, its deletion scheduled, is an active one of its organizer.
LEMMA NewEventLemma ==
    ASSUME NEW u \in Users, NEW s \in Schedules \union {None},
           NEW d \in Durations
    PROVE  /\ NewEvent(u, s, d) \in Event(Users)
           /\ NewEvent(u, s, d).organizer = u
           /\ NewEvent(u, s, d).status = "active"
           /\ NewEvent(u, s, d).canceled_at = None
           /\ NewEvent(u, s, d).scheduled_at = s
           /\ NewEvent(u, s, d).duration_in_minutes = d
  BY InputsAssumption DEF NewEvent, Event, OptionalTime, EventStatus

\* The row an UPDATE leaves takes each column from the entity or the table.
LEMMA WrittenLemma ==
    ASSUME NEW w \in Workers,
           events[request[w].id] \in Event(Users),
           request[w].entity \in Event(Users),
           request[w].row \in Event(Users)
    PROVE  LET e == request[w].entity
               r == request[w].row
               c == events[request[w].id]
           IN /\ Written(w) \in Event(Users)
              /\ Written(w).organizer \in {e.organizer, c.organizer}
              /\ Written(w).deletion_scheduled_at
                    \in {e.deletion_scheduled_at, c.deletion_scheduled_at}
              /\ c = r => Written(w) = e
  BY DEF Written, Event

----------------------------------------------------------------------------
(* Any number of API processes.                                            *)

Deletable(e) == e.deletion_scheduled_at # None /\ validate_state(e)

\* A stored event can be found by the job, and ids are handed out in order.
StoreOK == \A id \in EventIds : Exists(id) => Deletable(events[id]) /\ id < nextId

\* What a handler in progress holds: an event of its actor that may be stored,
\* and the id of an event that belongs to its actor as long as it exists.
Holds(r) ==
    /\ r.op \in Operations
    /\ r.actor \in Users
    /\ r.entity \in Event(Users)
    /\ r.entity.organizer = r.actor
    /\ Deletable(r.entity)
    /\ r.step \in {"read", "loaded"} => r.op # "create"

Knows(r) ==
    (r.op # "create" \/ r.step = "committed") =>
        /\ r.id \in EventIds
        /\ r.id < nextId
        /\ Exists(r.id) => events[r.id].organizer = r.actor

Loaded(r) ==
    r.step = "loaded" =>
        /\ r.row \in Event(Users)
        /\ r.row.deletion_scheduled_at # None

RequestOK(w) ==
    request[w].step # "idle" =>
        Holds(request[w]) /\ Knows(request[w]) /\ Loaded(request[w])

Inv == TypeOK /\ StoreOK /\ \A w \in Workers : RequestOK(w)

LEMMA IdleLemma == Idle \in Request /\ Idle.step = "idle"
  BY DEF Idle, Request, Steps

\* A step that changes what worker w does, and no event.
LEMMA RequestLemma ==
    ASSUME Inv, NEW w \in Workers, NEW r \in Request,
           request' = [request EXCEPT ![w] = r],
           UNCHANGED <<events, nextId>>,
           r.step # "idle" => Holds(r) /\ Knows(r) /\ Loaded(r)
    PROVE  /\ request' \in [Workers -> Request]
           /\ StoreOK'
           /\ \A v \in Workers : RequestOK(v)'
  <1>1. request \in [Workers -> Request] /\ StoreOK
    BY DEF Inv, TypeOK
  <1>2. StoreOK'
    BY <1>1 DEF StoreOK, Exists
  <1>3. ASSUME NEW v \in Workers PROVE RequestOK(v)'
    <2>1. CASE v = w
      BY <1>1, <2>1 DEF RequestOK, Holds, Knows, Loaded, Exists
    <2>2. CASE v # w
      <3>1. request'[v] = request[v] /\ RequestOK(v)
        BY <1>1, <2>2 DEF Inv
      <3> QED
        BY <3>1 DEF RequestOK, Holds, Knows, Loaded, Exists
    <2> QED
      BY <2>1, <2>2
  <1> QED
    BY <1>1, <1>2, <1>3

\* The two ways a handler moves on without touching the table.
LEMMA DoneLemma ==
    ASSUME Inv, NEW w \in Workers, Done(w), UNCHANGED <<events, nextId>>
    PROVE  /\ request' \in [Workers -> Request]
           /\ StoreOK'
           /\ \A v \in Workers : RequestOK(v)'
  BY IdleLemma, RequestLemma DEF Done

LEMMA BecomeLemma ==
    ASSUME Inv, NEW w \in Workers, NEW s \in Steps, NEW e \in Event(Users),
           Become(w, s, e), UNCHANGED <<events, nextId>>,
           request[w].step # "idle",
           s \in {"built", "verified"} \/ (s = "committed" /\ request[w].step = "loaded"),
           e.organizer = request[w].entity.organizer,
           Deletable(e)
    PROVE  /\ request' \in [Workers -> Request]
           /\ StoreOK'
           /\ \A v \in Workers : RequestOK(v)'
  <1> DEFINE r == [request[w] EXCEPT !.step = s, !.entity = e]
  <1>1. request \in [Workers -> Request] /\ RequestOK(w)
    BY DEF Inv, TypeOK
  <1>2. /\ r \in Request
        /\ r.step = s /\ r.entity = e /\ r.op = request[w].op
        /\ r.id = request[w].id /\ r.actor = request[w].actor
    BY <1>1 DEF Request
  <1>3. request' = [request EXCEPT ![w] = r]
    BY <1>1 DEF Become, Request
  <1>4. Holds(r) /\ Knows(r) /\ Loaded(r)
    BY <1>1, <1>2 DEF RequestOK, Holds, Knows, Loaded
  <1> HIDE DEF r
  <1> QED
    BY <1>2, <1>3, <1>4, RequestLemma

LEMMA InitInv == Init => Inv
  BY InputsAssumption
     DEF Init, Inv, TypeOK, StoreOK, RequestOK, Exists, Request, Idle, Steps,
         JobIdle

\* Every operation of the entity yields an event that may be stored.
LEMMA DeletableLemma ==
    ASSUME NEW e \in Event(Users), NEW t \in Nat
    PROVE  /\ validate_state(e) => Deletable(schedule_deletion_after_event(e, t))
           /\ Deletable(cancel(e, t))
           /\ Deletable(uncancel(e, t))
  <1>1. \A n \in Nat : n # None
    BY NoneAssumption
  <1>2. validate_state(e) => Deletable(schedule_deletion_after_event(e, t))
    <2> DEFINE s == schedule_deletion_after_event(e, t)
    <2>1. /\ s.deletion_scheduled_at \in Nat
          /\ s.status = e.status /\ s.canceled_at = e.canceled_at
      BY ScheduleLemma
    <2> HIDE DEF s
    <2> QED
      BY <1>1, <2>1 DEF Deletable, validate_state, s
  <1>3. Deletable(cancel(e, t))
    <2> DEFINE s == cancel(e, t)
    <2>1. /\ s.deletion_scheduled_at \in Nat
          /\ s.status = "canceled" /\ s.canceled_at = t
      BY CancelLemma
    <2> HIDE DEF s
    <2> QED
      BY <1>1, <2>1 DEF Deletable, validate_state, s
  <1>4. Deletable(uncancel(e, t))
    <2> DEFINE s == uncancel(e, t)
    <2>1. /\ s.deletion_scheduled_at \in Nat
          /\ s.status = "active" /\ s.canceled_at = None
      BY UncancelLemma
    <2> HIDE DEF s
    <2> QED
      BY <1>1, <2>1 DEF Deletable, validate_state, s
  <1> QED
    BY <1>2, <1>3, <1>4

\* The requests that change an event.
ReceiveChange(w) ==
    \E op \in Operations \ {"create"} :
        Receive(w, op, IF op = "uncancel" THEN "canceled" ELSE "active")

LEMMA ReceiveChangeLemma ==
    ASSUME NEW w \in Workers,
           ReceiveUpdate(w) \/ ReceiveCancel(w) \/ ReceiveUncancel(w)
    PROVE  ReceiveChange(w)
  BY DEF ReceiveChange, ReceiveUpdate, ReceiveCancel, ReceiveUncancel, Operations

LEMMA ReceiveInv ==
    ASSUME Inv, NEW w \in Workers, ReceiveCreate(w) \/ ReceiveChange(w)
    PROVE  Inv'
  <1>1. /\ now \in Nat
        /\ events \in [EventIds -> Event(Users) \union {None}]
        /\ request \in [Workers -> Request] /\ StoreOK
    BY DEF Inv, TypeOK
  <1>2. CASE ReceiveCreate(w)
    <2>1. PICK u \in Users, s \in Schedules \union {None}, d \in Durations :
            request' = [request EXCEPT ![w] =
              [Idle EXCEPT !.step = "built", !.op = "create", !.actor = u,
                 !.entity = schedule_deletion_after_event(NewEvent(u, s, d), now)]]
      BY <1>2 DEF ReceiveCreate
    <2> DEFINE e == schedule_deletion_after_event(NewEvent(u, s, d), now)
               r == [Idle EXCEPT !.step = "built", !.op = "create",
                                 !.actor = u, !.entity = e]
    <2>2. e \in Event(Users) /\ e.organizer = u /\ Deletable(e)
      <3> DEFINE n == NewEvent(u, s, d)
      <3>1. n \in Event(Users) /\ n.organizer = u /\ validate_state(n)
        BY NewEventLemma DEF validate_state
      <3> HIDE DEF n
      <3> QED
        BY <1>1, <3>1, ScheduleLemma, DeletableLemma DEF n
    <2> HIDE DEF e
    <2>3. /\ r \in Request
          /\ r.step = "built" /\ r.op = "create" /\ r.actor = u /\ r.entity = e
      BY <2>2 DEF Idle, Request, Steps, Operations
    <2>4. Holds(r) /\ Knows(r) /\ Loaded(r)
      BY <2>2, <2>3 DEF Holds, Knows, Loaded, Operations
    <2>5. request' = [request EXCEPT ![w] = r]
      BY <2>1 DEF e
    <2> HIDE DEF r
    <2>6. UNCHANGED <<now, events, nextId, job, published, missed>>
      BY <1>2 DEF ReceiveCreate
    <2> QED
      BY <2>3, <2>4, <2>5, <2>6, RequestLemma DEF Inv, TypeOK
  <1>3. CASE ReceiveChange(w)
    <2>1. PICK op \in Operations \ {"create"}, id \in EventIds, actor \in Users :
            /\ Exists(id)
            /\ actor = events[id].organizer
            /\ request' = [request EXCEPT ![w] =
                 [Idle EXCEPT !.step = "read", !.op = op, !.id = id,
                              !.actor = actor, !.entity = events[id]]]
      BY <1>3 DEF ReceiveChange, Receive
    <2> DEFINE r == [Idle EXCEPT !.step = "read", !.op = op, !.id = id,
                                 !.actor = actor, !.entity = events[id]]
    <2>2. /\ events[id] \in Event(Users) /\ Deletable(events[id])
          /\ id < nextId
      BY <1>1, <2>1 DEF Exists, StoreOK
    <2>3. /\ r \in Request
          /\ r.step = "read" /\ r.op = op /\ r.actor = actor /\ r.id = id
          /\ r.entity = events[id]
      BY <2>1, <2>2 DEF Idle, Request, Steps, Operations
    <2>4. Holds(r) /\ Knows(r) /\ Loaded(r)
      BY <2>1, <2>2, <2>3 DEF Holds, Knows, Loaded
    <2> HIDE DEF r
    <2>5. UNCHANGED <<now, events, nextId, job, published, missed>>
      BY <1>3 DEF ReceiveChange, Receive
    <2> QED
      BY <2>1, <2>3, <2>4, <2>5, RequestLemma DEF Inv, TypeOK, r
  <1> QED
    BY <1>2, <1>3

LEMMA BuildInv ==
    ASSUME Inv, NEW w \in Workers,
           BuildUpdate(w) \/ BuildCancel(w) \/ BuildUncancel(w) \/ Verify(w)
    PROVE  Inv'
  <1>1. now \in Nat /\ request \in [Workers -> Request] /\ RequestOK(w)
    BY DEF Inv, TypeOK
  <1>2. UNCHANGED <<now, events, nextId, job, published, missed>>
    BY DEF BuildUpdate, BuildCancel, BuildUncancel, Verify
  <1>3. Holds(request[w]) /\ request[w].step # "idle"
    BY <1>1 DEF BuildUpdate, BuildCancel, BuildUncancel, Verify, RequestOK
  <1>4. CASE BuildUpdate(w)
    <2>1. PICK s \in Schedules \union {None}, d \in Durations :
            Become(w, "built",
              schedule_deletion_after_event(
                [request[w].entity EXCEPT !.scheduled_at = s,
                                          !.duration_in_minutes = d], now))
      BY <1>4 DEF BuildUpdate
    <2> DEFINE e == [request[w].entity EXCEPT !.scheduled_at = s,
                                              !.duration_in_minutes = d]
    <2>2. /\ e \in Event(Users) /\ e.organizer = request[w].entity.organizer
          /\ validate_state(e)
      BY <1>3, InputsAssumption
         DEF Holds, Deletable, validate_state, Event, OptionalTime
    <2>3. Become(w, "built", schedule_deletion_after_event(e, now))
      BY <2>1
    <2> HIDE DEF e
    <2>4. /\ schedule_deletion_after_event(e, now) \in Event(Users)
          /\ schedule_deletion_after_event(e, now).organizer
               = request[w].entity.organizer
          /\ Deletable(schedule_deletion_after_event(e, now))
      BY <1>1, <2>2, ScheduleLemma, DeletableLemma
    <2> QED
      BY <1>2, <1>3, <2>3, <2>4, BecomeLemma DEF Inv, TypeOK, Steps
  <1>5. CASE BuildCancel(w)
    BY <1>1, <1>2, <1>3, <1>5, CancelLemma, DeletableLemma, BecomeLemma
       DEF BuildCancel, Inv, TypeOK, Steps, Holds
  <1>6. CASE BuildUncancel(w)
    BY <1>1, <1>2, <1>3, <1>6, UncancelLemma, DeletableLemma, BecomeLemma
       DEF BuildUncancel, Inv, TypeOK, Steps, Holds
  <1>7. CASE Verify(w)
    <2>1. CASE Done(w)
      BY <1>2, <2>1, DoneLemma DEF Inv, TypeOK
    <2>2. CASE Become(w, "verified", request[w].entity)
      BY <1>2, <1>3, <2>2, BecomeLemma DEF Inv, TypeOK, Steps, Holds
    <2> QED
      BY <1>7, <2>1, <2>2 DEF Verify
  <1> QED
    BY <1>4, <1>5, <1>6, <1>7

LEMMA InsertInv == ASSUME Inv, NEW w \in Workers, Insert(w) PROVE Inv'
  <1> DEFINE r == [request[w] EXCEPT !.step = "committed", !.id = nextId]
  <1>1. /\ events \in [EventIds -> Event(Users) \union {None}]
        /\ request \in [Workers -> Request] /\ nextId \in EventIds
        /\ \A v \in Workers : RequestOK(v)
        /\ StoreOK
        /\ Holds(request[w])
    BY DEF Inv, TypeOK, Insert, RequestOK
  <1>2. /\ events' = [events EXCEPT ![nextId] = request[w].entity]
        /\ nextId' = nextId + 1 /\ nextId \in Int
        /\ UNCHANGED <<now, job, published, missed>>
    BY <1>1, InputsAssumption DEF Insert, EventIds
  <1>3. /\ r \in Request
        /\ r.step = "committed" /\ r.id = nextId
        /\ r.op = request[w].op /\ r.actor = request[w].actor
        /\ r.entity = request[w].entity
    BY <1>1 DEF Request, Steps
  <1>4. request' = [request EXCEPT ![w] = r]
    BY <1>1 DEF Insert, Request
  <1> HIDE DEF r
  <1>5. TypeOK'
    BY <1>1, <1>2, <1>3, <1>4, InputsAssumption DEF Inv, TypeOK, Holds, EventIds
  <1>6. StoreOK'
    BY <1>1, <1>2, InputsAssumption DEF StoreOK, Exists, Holds, Deletable, EventIds
  <1>7. ASSUME NEW v \in Workers PROVE RequestOK(v)'
    <2>1. CASE v = w
      <3>1. Holds(r) /\ Loaded(r)
        BY <1>1, <1>3 DEF Holds, Loaded
      <3>2. /\ r.id \in EventIds /\ r.id < nextId'
            /\ events'[r.id].organizer = r.actor
        BY <1>1, <1>2, <1>3 DEF Holds
      <3>3. request'[v] = r
        BY <1>1, <1>4, <2>1
      <3> QED
        BY <3>1, <3>2, <3>3 DEF RequestOK, Holds, Loaded, Knows
    <2>2. CASE v # w
      <3>1. request'[v] = request[v] /\ RequestOK(v)
        BY <1>1, <1>4, <2>2
      <3> QED
        BY <1>1, <1>2, <3>1, InputsAssumption
           DEF RequestOK, Holds, Loaded, Knows, Exists, EventIds
    <2> QED
      BY <2>1, <2>2
  <1> QED
    BY <1>5, <1>6, <1>7 DEF Inv

LEMMA LoadInv == ASSUME Inv, NEW w \in Workers, Load(w) PROVE Inv'
  <1>1. /\ events \in [EventIds -> Event(Users) \union {None}]
        /\ request \in [Workers -> Request]
        /\ StoreOK /\ Holds(request[w]) /\ Knows(request[w])
        /\ request[w].op # "create"
    BY DEF Inv, TypeOK, Load, RequestOK
  <1>2. UNCHANGED <<now, events, nextId, job, published, missed>>
    BY DEF Load
  <1>3. CASE Done(w)
    BY <1>2, <1>3, DoneLemma DEF Inv, TypeOK
  <1>4. CASE Exists(request[w].id)
    <2> DEFINE r == [request[w] EXCEPT !.step = "loaded",
                                       !.row = events[request[w].id]]
    <2>1. /\ request[w].id \in EventIds
          /\ events[request[w].id] \in Event(Users)
          /\ Deletable(events[request[w].id])
      BY <1>1, <1>4 DEF Knows, Exists, StoreOK
    <2>2. /\ r \in Request
          /\ r.step = "loaded" /\ r.id = request[w].id
          /\ r.op = request[w].op /\ r.actor = request[w].actor
          /\ r.entity = request[w].entity /\ r.row = events[request[w].id]
      BY <1>1, <2>1 DEF Request, Steps
    <2>3. request' = [request EXCEPT ![w] = r]
      BY <1>1, <1>4 DEF Load, Request
    <2> HIDE DEF r
    <2>4. Holds(r) /\ Knows(r) /\ Loaded(r)
      BY <1>1, <2>1, <2>2 DEF Holds, Knows, Loaded, Deletable
    <2> QED
      BY <1>2, <2>2, <2>3, <2>4, RequestLemma DEF Inv, TypeOK
  <1> QED
    BY <1>3, <1>4 DEF Load

LEMMA FlushInv == ASSUME Inv, NEW w \in Workers, Flush(w) PROVE Inv'
  <1> DEFINE q == request[w]
  <1>1. /\ events \in [EventIds -> Event(Users) \union {None}]
        /\ request \in [Workers -> Request] /\ q.step = "loaded"
        /\ \A v \in Workers : RequestOK(v)
        /\ StoreOK /\ Holds(q) /\ Knows(q) /\ Loaded(q) /\ q.op # "create"
    BY DEF Inv, TypeOK, Flush, RequestOK, Holds
  <1>2. /\ UNCHANGED <<now, nextId, job, published, missed>>
        /\ Become(w, "committed", q.entity)
    BY DEF Flush
  <1>3. CASE UNCHANGED events
    BY <1>1, <1>2, <1>3, BecomeLemma DEF Inv, TypeOK, Steps, Holds
  <1>4. CASE /\ Exists(q.id) /\ validate_state(Written(w))
             /\ events' = [events EXCEPT ![q.id] = Written(w)]
    <2>1. q.id \in EventIds /\ events[q.id] \in Event(Users)
      BY <1>1, <1>4 DEF Knows, Exists
    <2>2. /\ Written(w) \in Event(Users)
          /\ Written(w).organizer = q.actor
          /\ Deletable(Written(w))
      BY <1>1, <1>4, <2>1, WrittenLemma
         DEF Holds, Knows, Loaded, Deletable, StoreOK
    <2> DEFINE r == [q EXCEPT !.step = "committed"]
    <2>3. /\ r \in Request
          /\ r.step = "committed" /\ r.id = q.id /\ r.op = q.op
          /\ r.actor = q.actor /\ r.entity = q.entity
      BY <1>1 DEF Request, Steps
    <2>4. request' = [request EXCEPT ![w] = r]
      BY <1>1, <1>2 DEF Become, Request
    <2> HIDE DEF r
    <2>5. TypeOK'
      BY <1>1, <1>2, <1>4, <2>1, <2>2, <2>3, <2>4 DEF Inv, TypeOK
    <2>6. StoreOK'
      BY <1>1, <1>2, <1>4, <2>1, <2>2 DEF StoreOK, Exists
    <2>7. ASSUME NEW v \in Workers PROVE RequestOK(v)'
      <3>1. events[q.id] # None /\ events[q.id].organizer = q.actor
        BY <1>1, <1>4 DEF Knows, Exists
      <3>2. CASE v = w
        <4>1. request'[v] = r
          BY <1>1, <2>4, <3>2
        <4> QED
          BY <1>1, <1>2, <1>4, <2>1, <2>2, <2>3, <4>1
             DEF RequestOK, Holds, Knows, Loaded, Exists
      <3>3. CASE v # w
        <4>1. request'[v] = request[v] /\ RequestOK(v)
          BY <1>1, <2>4, <3>3
        <4> QED
          BY <1>1, <1>2, <1>4, <2>1, <2>2, <3>1, <4>1
             DEF RequestOK, Holds, Knows, Loaded, Exists
      <3> QED
        BY <3>2, <3>3
    <2> QED
      BY <2>5, <2>6, <2>7 DEF Inv
  <1> QED
    BY <1>3, <1>4 DEF Flush

\* The steps that end a request: refused, published, or cut short.
LEMMA EndInv ==
    ASSUME Inv, NEW w \in Workers,
           FlushFails(w) \/ LocationMissing(w) \/ Publish(w) \/ Crash(w)
    PROVE  Inv'
  <1>1. Done(w) /\ UNCHANGED <<now, events, nextId, job>>
    BY DEF FlushFails, LocationMissing, Publish, Crash
  <1>2. /\ request' \in [Workers -> Request]
        /\ StoreOK'
        /\ \A v \in Workers : RequestOK(v)'
    BY <1>1, DoneLemma
  <1>3. CASE UNCHANGED <<published, missed>>
    BY <1>1, <1>2, <1>3 DEF Inv, TypeOK
  <1>4. CASE Publish(w)
    <2>1. /\ request[w].id \in EventIds
          /\ request[w].entity \in Event(Users)
      BY <1>4 DEF Inv, RequestOK, Holds, Knows, Publish
    <2>2. /\ published' \in [EventIds -> Event(Users) \union {None}]
          /\ missed' \subseteq EventIds
      BY <1>4, <2>1 DEF Publish, Inv, TypeOK
    <2> QED
      BY <1>1, <1>2, <2>2 DEF Inv, TypeOK
  <1>5. CASE Crash(w)
    <2>1. request[w].step = "committed" => request[w].id \in EventIds
      BY DEF Inv, RequestOK, Knows
    <2> QED
      BY <1>1, <1>2, <1>5, <2>1 DEF Crash, Inv, TypeOK
  <1> QED
    BY <1>3, <1>4, <1>5 DEF FlushFails, LocationMissing

\* Time and the job: rows go, none comes or changes.
LEMMA JobInv == ASSUME Inv, Tick \/ Job PROVE Inv'
  <1>1. /\ UNCHANGED <<nextId, request, published, missed>>
        /\ now' \in Nat
    BY DEF Inv, TypeOK, Tick, Job, JobSelect, JobDelete, JobCrash
  <1>2. /\ events' \in [EventIds -> Event(Users) \union {None}]
        /\ \A id \in EventIds : events'[id] \in {events[id], None}
    BY DEF Inv, TypeOK, Tick, Job, JobSelect, JobDelete, JobCrash
  <1>3. job' \in [running : BOOLEAN, selected : SUBSET EventIds]
    <2>1. DueIds \in SUBSET EventIds
      BY DEF DueIds
    <2>2. CASE JobSelect
      BY <2>1, <2>2 DEF JobSelect
    <2>3. CASE JobDelete \/ JobCrash
      <3>1. JobIdle \in [running : BOOLEAN, selected : SUBSET EventIds]
        <4>1. {} \in SUBSET EventIds
          OBVIOUS
        <4> QED
          BY <4>1 DEF JobIdle
      <3>2. job' = JobIdle
        BY <2>3 DEF JobDelete, JobCrash
      <3> QED
        BY <3>1, <3>2
    <2>4. CASE Tick
      BY <2>4 DEF Tick, Inv, TypeOK
    <2> QED
      BY <2>2, <2>3, <2>4 DEF Job
  <1>4. TypeOK' /\ StoreOK'
    BY <1>1, <1>2, <1>3 DEF Inv, TypeOK, StoreOK, Exists
  <1>5. ASSUME NEW w \in Workers PROVE RequestOK(w)'
    <2>1. RequestOK(w) /\ request'[w] = request[w]
      BY <1>1 DEF Inv
    <2> QED
      BY <1>1, <1>2, <2>1 DEF RequestOK, Holds, Knows, Loaded, Exists
  <1> QED
    BY <1>4, <1>5 DEF Inv

LEMMA StepInv == Inv /\ [Next]_vars => Inv'
  <1> SUFFICES ASSUME Inv, [Next]_vars PROVE Inv'
    OBVIOUS
  <1>1. CASE Tick \/ Job
    BY <1>1, JobInv
  <1>2. ASSUME NEW w \in Workers, Worker(w) PROVE Inv'
    BY <1>2, ReceiveChangeLemma, ReceiveInv, BuildInv, InsertInv, LoadInv, FlushInv, EndInv
       DEF Worker, Serve
  <1>3. CASE UNCHANGED vars
    BY <1>3 DEF vars, Inv, TypeOK, StoreOK, RequestOK, Holds, Knows, Loaded, Exists
  <1> QED
    BY <1>1, <1>2, <1>3 DEF Next

THEOREM Invariance == Spec => []Inv
  BY InitInv, StepInv, PTL DEF Spec

\* Every variable keeps its type, for any number of API processes.
THEOREM TypeCorrectness == Spec => []TypeOK
  <1>1. Inv => TypeOK
    BY DEF Inv
  <1> QED
    BY <1>1, Invariance, PTL

\* Whatever API processes do to each other's writes, every stored event has a
\* deletion date and a cancellation time exactly when it is canceled.
THEOREM AlwaysDeletable == Spec => []EveryEventDeletable
  <1>1. Inv => EveryEventDeletable
    BY DEF Inv, StoreOK, EveryEventDeletable, Deletable
  <1> QED
    BY <1>1, Invariance, PTL

\* The steps that write the table.
LEMMA WritersLemma ==
    ASSUME [Next]_vars, events' # events
    PROVE  JobDelete \/ \E w \in Workers : Insert(w) \/ Flush(w)
  <1>1. ~Tick /\ ~UNCHANGED vars /\ ~JobSelect /\ ~JobCrash
    BY DEF Tick, vars, JobSelect, JobCrash
  <1>2. ASSUME NEW w \in Workers, Worker(w) PROVE Insert(w) \/ Flush(w)
    BY <1>2 DEF Worker, Serve, ReceiveCreate, ReceiveUpdate, ReceiveCancel,
                ReceiveUncancel, Receive, BuildUpdate,
                BuildCancel, BuildUncancel, Verify, Load, FlushFails,
                LocationMissing, Publish, Crash
  <1> QED
    BY <1>1, <1>2 DEF Next, Job

\* Only the organizer changes an event, for any number of API processes.
THEOREM OrganizerControls == Spec => OnlyOrganizerChanges
  <1>1. ASSUME Inv, [Next]_vars, NEW id \in EventIds PROVE ChangedByOrganizer(id)
    <2> SUFFICES ASSUME Exists(id), events'[id] # None, events'[id] # events[id]
                 PROVE  ChangedByOrganizer(id)
      BY DEF ChangedByOrganizer
    <2>1. events \in [EventIds -> Event(Users) \union {None}] /\ StoreOK
      BY <1>1 DEF Inv, TypeOK
    <2>2. PICK w \in Workers : Insert(w) \/ Flush(w)
      BY <1>1, <2>1, WritersLemma DEF JobDelete
    <2>3. ~Insert(w)
      <3>1. id # nextId
        BY <2>1, InputsAssumption DEF StoreOK, EventIds
      <3> QED
        BY <2>1, <3>1 DEF Insert
    <2>4. /\ request[w].step = "loaded" /\ request[w].id = id
          /\ events' = [events EXCEPT ![id] = Written(w)]
      BY <2>1, <2>2, <2>3 DEF Flush
    <2>5. /\ Holds(request[w]) /\ Knows(request[w]) /\ Loaded(request[w])
          /\ events[id] \in Event(Users)
      BY <1>1, <2>1, <2>4 DEF Inv, RequestOK, Exists
    <2>6. events[id].organizer = request[w].actor
      BY <2>4, <2>5 DEF Holds, Knows
    <2>7. events'[id].organizer = request[w].actor
      BY <2>1, <2>4, <2>5, <2>6, WrittenLemma DEF Holds, Loaded
    <2> QED
      BY <2>4, <2>6, <2>7 DEF ChangedByOrganizer
  <1>2. Inv /\ [Next]_vars => [\A id \in EventIds : ChangedByOrganizer(id)]_vars
    BY <1>1
  <1> QED
    BY <1>2, Invariance, PTL DEF Spec, OnlyOrganizerChanges

----------------------------------------------------------------------------
(* What the job may take.  It looks at the dates when it selects, and not  *)
(* again when it deletes.                                                  *)

\* An update moves the date of an event the job has already selected.
Postponed(id) ==
    /\ id \in job.selected
    /\ Exists(id)
    /\ events'[id] \notin {None, events[id]}
    /\ ~IsDue(events'[id], now')

NonePostponed == \A id \in EventIds : ~Postponed(id)

SelectedDue ==
    \A id \in job.selected : id < nextId /\ (Exists(id) => IsDue(events[id], now))

\* A row that stays as it is stays due.
LEMMA DueStays ==
    ASSUME Inv, now' \in Nat, now <= now', NEW id \in EventIds,
           Exists(id), IsDue(events[id], now), events'[id] = events[id]
    PROVE  IsDue(events'[id], now')
<1> DEFINE d == events[id].deletion_scheduled_at
<1>1. d \in Nat /\ d # None /\ d <= now /\ now \in Nat
  BY DEF Inv, TypeOK, Exists, IsDue, Event, OptionalTime
<1>2. d <= now'
  BY <1>1
<1> QED
  BY <1>1, <1>2 DEF IsDue

LEMMA SelectedStep ==
    ASSUME Inv, Inv', SelectedDue, [Next]_vars, NonePostponed
    PROVE  SelectedDue' /\ \A id \in EventIds : DeletedWhenDue(id)
<1>1. /\ now \in Nat /\ now' \in Nat /\ now <= now'
      /\ nextId \in Nat /\ nextId' \in Nat /\ nextId <= nextId'
      /\ job.selected \subseteq EventIds
  <2>1. ASSUME NEW w \in Workers, Worker(w)
        PROVE  now' = now /\ nextId' \in {nextId, nextId + 1}
    BY <2>1 DEF Worker, Serve, ReceiveCreate, ReceiveUpdate, ReceiveCancel,
                ReceiveUncancel, Receive, BuildUpdate, BuildCancel, BuildUncancel,
                Verify, Insert, Load, Flush, FlushFails, LocationMissing, Publish, Crash
  <2>2. CASE Tick \/ Job \/ UNCHANGED vars
    BY <2>2 DEF Tick, Job, JobSelect, JobDelete, JobCrash, vars, Inv, TypeOK
  <2> QED
    BY <2>1, <2>2 DEF Next, Inv, TypeOK
<1>2. ASSUME NEW id \in EventIds, Exists(id), events'[id] = None
      PROVE  JobDelete /\ id \in job.selected
  <2>1. JobDelete \/ \E w \in Workers : Insert(w) \/ Flush(w)
    BY <1>2, WritersLemma DEF Exists
  <2>2. ASSUME NEW w \in Workers, Insert(w) PROVE FALSE
    BY <1>2, <2>2, InputsAssumption DEF Insert, Inv, TypeOK, StoreOK, Exists, EventIds
  <2>3. ASSUME NEW w \in Workers, Flush(w) PROVE FALSE
    <3>1. /\ request[w].step = "loaded"
          /\ Holds(request[w]) /\ Knows(request[w]) /\ Loaded(request[w])
      BY <2>3 DEF Flush, Inv, RequestOK
    <3>2. /\ id = request[w].id
          /\ events' = [events EXCEPT ![request[w].id] = Written(w)]
      BY <1>2, <2>3 DEF Flush, Inv, TypeOK, Exists
    <3>3. Written(w) \in Event(Users)
      BY <1>2, <3>1, <3>2, WrittenLemma DEF Inv, TypeOK, Exists, Holds, Loaded
    <3>4. Written(w) # None
      BY <3>3, AbsenceAssumption
    <3> QED
      BY <1>2, <3>2, <3>4 DEF Inv, TypeOK
  <2> QED
    BY <1>2, <2>1, <2>2, <2>3 DEF JobDelete, Exists
<1>3. ASSUME NEW id \in EventIds PROVE DeletedWhenDue(id)
  BY <1>2, <1>3 DEF SelectedDue, DeletedWhenDue
<1>4. ASSUME NEW id \in job.selected, ~JobSelect
      PROVE  id < nextId' /\ (Exists(id)' => IsDue(events'[id], now'))
  <2>1. id \in EventIds /\ id < nextId /\ id \in Nat
    BY <1>1, <1>4, InputsAssumption DEF SelectedDue, EventIds
  <2>2. CASE Exists(id)
    BY <1>1, <1>4, <2>1, <2>2, DueStays DEF NonePostponed, Postponed, SelectedDue, Exists
  <2>3. CASE ~Exists(id)
    <3>1. ~Exists(id)'
      <4>1. CASE events' = events
        BY <2>3, <4>1 DEF Exists
      <4>2. CASE JobDelete
        BY <2>1, <2>3, <4>2 DEF JobDelete, Exists
      <4>3. ASSUME NEW w \in Workers, Insert(w) PROVE ~Exists(id)'
        BY <2>1, <2>3, <4>3 DEF Insert, Exists, Inv, TypeOK
      <4>4. ASSUME NEW w \in Workers, Flush(w) PROVE ~Exists(id)'
        BY <2>1, <2>3, <4>4 DEF Flush, Exists, Inv, TypeOK
      <4> QED
        BY <4>1, <4>2, <4>3, <4>4, WritersLemma
    <3> QED
      BY <1>1, <2>1, <3>1
  <2> QED
    BY <2>2, <2>3
<1>5. CASE JobSelect
  <2>1. UNCHANGED <<now, events, nextId>> /\ job'.selected = DueIds
    BY <1>5 DEF JobSelect
  <2> QED
    BY <1>3, <2>1 DEF SelectedDue, DueIds, Inv, StoreOK, Exists
<1>6. CASE ~JobSelect
  <2>1. job'.selected \subseteq job.selected
    <3>1. job' = job \/ job' = JobIdle
      <4>1. ASSUME NEW w \in Workers, Worker(w) PROVE job' = job
        BY <4>1 DEF Worker, Serve, ReceiveCreate, ReceiveUpdate, ReceiveCancel,
                    ReceiveUncancel, Receive, BuildUpdate, BuildCancel, BuildUncancel,
                    Verify, Insert, Load, Flush, FlushFails, LocationMissing, Publish, Crash
      <4> QED
        BY <1>6, <4>1 DEF Next, Tick, Job, JobDelete, JobCrash, vars
    <3> QED
      BY <3>1 DEF JobIdle
  <2> QED
    BY <1>3, <1>4, <1>6, <2>1 DEF SelectedDue
<1> QED
  BY <1>5, <1>6

\* The one way an event goes before its time, for any number of API processes:
\* its date was moved after the job had selected it.  Where no date is moved
\* between the two statements of the job, only due events are deleted
\* (events_repository.py: delete_due).
THEOREM OnlyPostponedGoEarly == Spec /\ [][NonePostponed]_vars => OnlyDueEventsDeleted
<1>1. Init => SelectedDue
  BY DEF Init, SelectedDue, JobIdle
<1>2. Inv /\ Inv' /\ SelectedDue /\ [Next]_vars /\ [NonePostponed]_vars => SelectedDue'
  <2>1. ASSUME UNCHANGED vars, SelectedDue PROVE SelectedDue'
    BY <2>1 DEF vars, SelectedDue, Exists
  <2> QED
    BY <2>1, SelectedStep
<1>3. Inv /\ Inv' /\ SelectedDue /\ [Next]_vars /\ [NonePostponed]_vars
        => [\A id \in EventIds : DeletedWhenDue(id)]_vars
  BY SelectedStep
<1> QED
  BY <1>1, <1>2, <1>3, Invariance, PTL DEF Spec, OnlyDueEventsDeleted

----------------------------------------------------------------------------
(* No event is kept for ever.  If the dates and durations that requests    *)
(* ask for end by LastEnd, every deletion date is near that end or near    *)
(* the present, and the job, run after it, takes the event.                *)

WithinReach(LastEnd, e) ==
    \/ e.deletion_scheduled_at <= LastEnd + EventDeletionDelay
    \/ e.deletion_scheduled_at <= now + NoDateDeletionDelay
    \/ e.deletion_scheduled_at <= now + CanceledDeletionDelay

\* What was asked for: a later request may schedule by it again.
Asked(e) ==
    /\ e.scheduled_at \in Schedules \union {None}
    /\ e.duration_in_minutes \in Durations

DatesWithinReach(LastEnd) ==
    \A id \in EventIds : Exists(id) => WithinReach(LastEnd, events[id])

\* The same of the events that handlers hold, whichever of their columns they
\* write in the end.
Reach(LastEnd) ==
    /\ \A id \in EventIds : Exists(id) =>
          Asked(events[id]) /\ WithinReach(LastEnd, events[id])
    /\ \A w \in Workers : request[w].step # "idle" =>
          Asked(request[w].entity) /\ WithinReach(LastEnd, request[w].entity)

EndsBy(LastEnd) == \A s \in Schedules, d \in Durations : s + d <= LastEnd

LEMMA OperationsReach ==
    ASSUME NEW LastEnd \in Nat, EndsBy(LastEnd), now \in Nat,
           NEW e \in Event(Users), Asked(e)
    PROVE  /\ Asked(schedule_deletion_after_event(e, now))
           /\ WithinReach(LastEnd, schedule_deletion_after_event(e, now))
           /\ Asked(cancel(e, now)) /\ WithinReach(LastEnd, cancel(e, now))
           /\ Asked(uncancel(e, now)) /\ WithinReach(LastEnd, uncancel(e, now))
<1>1. ASSUME NEW a \in Event(Users), Asked(a)
      PROVE  /\ Asked(schedule_deletion_after_event(a, now))
             /\ WithinReach(LastEnd, schedule_deletion_after_event(a, now))
  <2> DEFINE s == schedule_deletion_after_event(a, now)
  <2>1. Asked(s)
    BY <1>1, ScheduleLemma DEF Asked
  <2>2. s.deletion_scheduled_at = IF a.scheduled_at # None
                                  THEN event_end(a) + EventDeletionDelay
                                  ELSE now + NoDateDeletionDelay
    BY DEF schedule_deletion_after_event, Event
  <2>3. a.scheduled_at # None => event_end(a) \in Nat /\ event_end(a) <= LastEnd
    <3> SUFFICES ASSUME a.scheduled_at # None
                 PROVE  event_end(a) \in Nat /\ event_end(a) <= LastEnd
      OBVIOUS
    <3>1. a.scheduled_at \in Schedules /\ a.duration_in_minutes \in Durations
      BY <1>1 DEF Asked
    <3>2. a.scheduled_at \in Nat /\ a.duration_in_minutes \in Nat
      BY <3>1, InputsAssumption
    <3> QED BY <3>1, <3>2 DEF EndsBy, event_end
  <2> HIDE DEF s
  <2>4. WithinReach(LastEnd, s)
    BY <2>2, <2>3, DelaysAssumption DEF WithinReach
  <2> QED BY <2>1, <2>4 DEF s
<1>2. Asked(cancel(e, now)) /\ WithinReach(LastEnd, cancel(e, now))
  <2> DEFINE c == cancel(e, now)
             limit == now + CanceledDeletionDelay
  <2>1. Asked(c)
    BY CancelLemma DEF Asked
  <2>2. c.deletion_scheduled_at = IF e.deletion_scheduled_at = None THEN limit
                                  ELSE Earliest(e.deletion_scheduled_at, limit)
    BY DEF cancel, Event
  <2>3. limit \in Nat /\ (e.deletion_scheduled_at # None => e.deletion_scheduled_at \in Nat)
    BY DelaysAssumption DEF Event, OptionalTime
  <2> HIDE DEF c
  <2>4. c.deletion_scheduled_at <= limit
    BY <2>2, <2>3 DEF Earliest
  <2> QED BY <2>1, <2>4 DEF c, WithinReach
<1>3. Asked(uncancel(e, now)) /\ WithinReach(LastEnd, uncancel(e, now))
  <2> DEFINE a == [e EXCEPT !.status = "active", !.canceled_at = None]
  <2>1. a \in Event(Users) /\ Asked(a)
    BY DEF Asked, Event, OptionalTime, EventStatus
  <2> QED BY <1>1, <2>1 DEF uncancel
<1> QED BY <1>1, <1>2, <1>3

\* A handler moves on with an event within reach; the table stays.
LEMMA ReachMove ==
    ASSUME NEW LastEnd \in Nat, Inv, Reach(LastEnd), NEW w \in Workers,
           UNCHANGED <<now, events>>,
           \A v \in Workers : v # w => request'[v] = request[v],
           request'[w].step # "idle" =>
              Asked(request'[w].entity) /\ WithinReach(LastEnd, request'[w].entity)
    PROVE  Reach(LastEnd)'
BY DEF Reach, WithinReach, Asked, Exists

LEMMA ReachHandler ==
    ASSUME NEW LastEnd \in Nat, EndsBy(LastEnd), Inv, Inv', Reach(LastEnd),
           NEW w \in Workers, Worker(w)
    PROVE  Reach(LastEnd)'
<1>1. now \in Nat /\ now' = now /\ request \in [Workers -> Request]
  BY DEF Inv, TypeOK, Worker, Serve, ReceiveCreate, ReceiveUpdate, ReceiveCancel,
         ReceiveUncancel, Receive, BuildUpdate, BuildCancel, BuildUncancel, Verify, Insert,
         Load, Flush, FlushFails, LocationMissing, Publish, Crash
<1>2. request[w].step # "idle" =>
         /\ request[w].entity \in Event(Users)
         /\ Asked(request[w].entity) /\ WithinReach(LastEnd, request[w].entity)
  BY DEF Inv, RequestOK, Holds, Reach
<1>3. CASE ReceiveCreate(w)
  <2>1. PICK u \in Users, s \in Schedules \union {None}, d \in Durations :
          request' = [request EXCEPT ![w] =
            [Idle EXCEPT !.step = "built", !.op = "create", !.actor = u,
               !.entity = schedule_deletion_after_event(NewEvent(u, s, d), now)]]
    BY <1>3 DEF ReceiveCreate
  <2>2. NewEvent(u, s, d) \in Event(Users) /\ Asked(NewEvent(u, s, d))
    BY NewEventLemma DEF Asked
  <2>3. request'[w].entity = schedule_deletion_after_event(NewEvent(u, s, d), now)
    BY <1>1, <2>1 DEF Idle
  <2>4. UNCHANGED events /\ \A v \in Workers : v # w => request'[v] = request[v]
    BY <1>1, <1>3, <2>1 DEF ReceiveCreate
  <2> QED BY <1>1, <2>2, <2>3, <2>4, OperationsReach, ReachMove
<1>4. CASE ReceiveUpdate(w) \/ ReceiveCancel(w) \/ ReceiveUncancel(w)
  <2>1. PICK op \in Operations, id \in EventIds, actor \in Users :
          /\ Exists(id)
          /\ request' = [request EXCEPT ![w] =
               [Idle EXCEPT !.step = "read", !.op = op, !.id = id,
                            !.actor = actor, !.entity = events[id]]]
    BY <1>4 DEF ReceiveUpdate, ReceiveCancel, ReceiveUncancel, Receive, Operations
  <2>2. request'[w].entity = events[id]
    BY <1>1, <2>1 DEF Idle
  <2>3. UNCHANGED events /\ \A v \in Workers : v # w => request'[v] = request[v]
    BY <1>1, <1>4, <2>1 DEF ReceiveUpdate, ReceiveCancel, ReceiveUncancel, Receive
  <2> QED BY <1>1, <2>1, <2>2, <2>3, ReachMove DEF Reach
<1>5. CASE BuildUpdate(w) \/ BuildCancel(w) \/ BuildUncancel(w)
  <2>1. PICK s \in Steps, e \in Event(Users) :
            Become(w, s, e) /\ Asked(e) /\ WithinReach(LastEnd, e)
    <3>1. CASE BuildUpdate(w)
      <4>1. PICK s \in Schedules \union {None}, d \in Durations :
              Become(w, "built",
                schedule_deletion_after_event(
                  [request[w].entity EXCEPT !.scheduled_at = s,
                                            !.duration_in_minutes = d], now))
        BY <3>1 DEF BuildUpdate
      <4> DEFINE e == [request[w].entity EXCEPT !.scheduled_at = s,
                                                !.duration_in_minutes = d]
      <4>2. e \in Event(Users) /\ Asked(e)
        BY <1>2, <3>1, InputsAssumption DEF BuildUpdate, Asked, Event, OptionalTime
      <4>3. Become(w, "built", schedule_deletion_after_event(e, now))
        BY <4>1
      <4> HIDE DEF e
      <4> QED BY <1>1, <4>2, <4>3, OperationsReach, ScheduleLemma DEF Steps
    <3>2. CASE BuildCancel(w)
      BY <1>1, <1>2, <3>2, OperationsReach, CancelLemma DEF BuildCancel, Steps
    <3>3. CASE BuildUncancel(w)
      BY <1>1, <1>2, <3>3, OperationsReach, UncancelLemma DEF BuildUncancel, Steps
    <3> QED BY <1>5, <3>1, <3>2, <3>3
  <2>2. request'[w].entity = e /\ \A v \in Workers : v # w => request'[v] = request[v]
    BY <1>1, <2>1 DEF Become, Request
  <2>3. UNCHANGED events
    BY <1>5 DEF BuildUpdate, BuildCancel, BuildUncancel
  <2> QED BY <1>1, <2>1, <2>2, <2>3, ReachMove
<1>6. CASE Verify(w) \/ Load(w) \/ FlushFails(w) \/ LocationMissing(w) \/ Publish(w) \/ Crash(w)
  <2>1. UNCHANGED events
    BY <1>6 DEF Verify, Load, FlushFails, LocationMissing, Publish, Crash
  <2>2. \A v \in Workers : v # w => request'[v] = request[v]
    BY <1>1, <1>6 DEF Verify, Load, FlushFails, LocationMissing, Publish, Crash, Done, Become
  <2>3. request'[w].step = "idle" \/ (/\ request[w].step # "idle"
                                      /\ request'[w].entity = request[w].entity)
    <3>1. CASE Done(w)
      BY <1>1, <3>1, IdleLemma DEF Done
    <3>2. CASE ~Done(w)
      BY <1>1, <1>6, <3>2
         DEF Verify, Load, FlushFails, LocationMissing, Publish, Crash, Become, Request
    <3> QED BY <3>1, <3>2
  <2> QED BY <1>1, <1>2, <2>1, <2>2, <2>3, ReachMove
<1>7. CASE Insert(w)
  <2>1. /\ request[w].step # "idle"
        /\ \A id \in EventIds : events'[id] \in {events[id], request[w].entity}
    BY <1>7 DEF Insert, Inv, TypeOK
  <2>2. /\ request'[w].entity = request[w].entity
        /\ \A v \in Workers : v # w => request'[v] = request[v]
    BY <1>1, <1>7 DEF Insert, Request
  <2> QED BY <1>1, <1>2, <2>1, <2>2 DEF Reach, WithinReach, Asked, Exists
<1>8. CASE Flush(w)
  <2>1. /\ request[w].step = "loaded"
        /\ request'[w].entity = request[w].entity
        /\ \A v \in Workers : v # w => request'[v] = request[v]
    BY <1>1, <1>8 DEF Flush, Become, Request
  <2>2. CASE UNCHANGED events
    BY <1>1, <1>2, <2>1, <2>2, ReachMove
  <2>3. CASE events' # events
    <3> DEFINE l == request[w].id
    <3>1. /\ Exists(l) /\ events' = [events EXCEPT ![l] = Written(w)]
          /\ l \in EventIds /\ request[w].row \in Event(Users)
          /\ events[l] \in Event(Users)
      BY <1>8, <2>1, <2>3
         DEF Flush, Inv, TypeOK, RequestOK, Knows, Loaded, Holds, Exists
    <3>2. /\ Written(w).deletion_scheduled_at
               \in {request[w].entity.deletion_scheduled_at, events[l].deletion_scheduled_at}
          /\ Written(w).scheduled_at
               \in {request[w].entity.scheduled_at, events[l].scheduled_at}
          /\ Written(w).duration_in_minutes
               \in {request[w].entity.duration_in_minutes, events[l].duration_in_minutes}
      BY <1>2, <2>1, <3>1 DEF Written, Event
    <3>3. Asked(Written(w)) /\ WithinReach(LastEnd, Written(w))
      BY <1>2, <2>1, <3>1, <3>2 DEF Asked, WithinReach, Reach
    <3>4. \A id \in EventIds : events'[id] \in {events[id], Written(w)}
      BY <3>1 DEF Inv, TypeOK
    <3> QED
      BY <1>1, <1>2, <2>1, <3>3, <3>4 DEF Reach, WithinReach, Asked, Exists
  <2> QED BY <2>2, <2>3
<1> QED
  BY <1>3, <1>4, <1>5, <1>6, <1>7, <1>8 DEF Worker, Serve

LEMMA ReachStep ==
    ASSUME NEW LastEnd \in Nat, EndsBy(LastEnd), Inv, Inv', Reach(LastEnd), [Next]_vars
    PROVE  Reach(LastEnd)'
<1>1. CASE Tick \/ Job \/ UNCHANGED vars
  <2>1. UNCHANGED request /\ \A id \in EventIds : events'[id] \in {events[id], None}
    BY <1>1 DEF Tick, Job, JobSelect, JobDelete, JobCrash, vars
  <2>2. now \in Nat /\ now' \in Nat /\ now <= now'
    BY <1>1 DEF Tick, Job, JobSelect, JobDelete, JobCrash, vars, Inv, TypeOK
  <2>3. ASSUME NEW id \in EventIds, Exists(id)'
        PROVE  Asked(events'[id]) /\ WithinReach(LastEnd, events[id])' /\ events'[id] = events[id]
    <3>1. events'[id] = events[id] /\ Exists(id)
      BY <2>1, <2>3 DEF Exists
    <3>2. events[id] \in Event(Users) /\ Deletable(events[id])
      BY <3>1 DEF Inv, TypeOK, StoreOK, Exists
    <3>3. Asked(events[id]) /\ WithinReach(LastEnd, events[id])
      BY <3>1 DEF Reach
    <3>4. events[id].deletion_scheduled_at \in Nat
      BY <3>2 DEF Event, OptionalTime, Deletable
    <3> QED BY <2>2, <3>1, <3>3, <3>4, DelaysAssumption DEF WithinReach, Asked
  <2>4. ASSUME NEW w \in Workers, request'[w].step # "idle"
        PROVE  Asked(request'[w].entity) /\ WithinReach(LastEnd, request[w].entity)'
    <3>1. /\ request'[w] = request[w] /\ request[w].step # "idle"
          /\ request[w].entity \in Event(Users) /\ Deletable(request[w].entity)
      BY <2>1, <2>4 DEF Inv, RequestOK, Holds
    <3>2. Asked(request[w].entity) /\ WithinReach(LastEnd, request[w].entity)
      BY <3>1 DEF Reach
    <3>3. request[w].entity.deletion_scheduled_at \in Nat
      BY <3>1 DEF Event, OptionalTime, Deletable
    <3> QED BY <2>2, <3>1, <3>2, <3>3, DelaysAssumption DEF WithinReach, Asked
  <2> QED BY <2>3, <2>4 DEF Reach, Asked
<1>2. ASSUME NEW w \in Workers, Worker(w) PROVE Reach(LastEnd)'
  BY <1>2, ReachHandler
<1> QED BY <1>1, <1>2 DEF Next

\* Whatever API processes do to each other's columns, no stored event has a
\* deletion date further away than the end of the latest event asked for, or
\* the present, and the delay of the settings: an event left alone is due in
\* bounded time (event.py: schedule_deletion_after_event, cancel, uncancel).
THEOREM NoneKeptForEver ==
    ASSUME NEW CONSTANT LastEnd \in Nat, EndsBy(LastEnd)
    PROVE  Spec => []DatesWithinReach(LastEnd)
<1>1. Init => Reach(LastEnd)
  BY DEF Init, Reach, Exists, Idle
<1>2. Inv /\ Inv' /\ Reach(LastEnd) /\ [Next]_vars => Reach(LastEnd)'
  BY ReachStep
<1>3. Reach(LastEnd) => DatesWithinReach(LastEnd)
  BY DEF Reach, DatesWithinReach
<1> QED
  BY <1>1, <1>2, <1>3, Invariance, PTL DEF Spec

----------------------------------------------------------------------------
(* One API process, as the service is deployed: between the read and the   *)
(* write of a handler, the only thing that can happen to the event is that *)
(* the job deletes it.                                                     *)

OneWorker == \A v, w \in Workers : v = w

\* The stored event e is still one the handler's operation applies to.
Pending(r, e) ==
    /\ r.op # "uncancel" => e.status = "active"
    /\ r.op = "uncancel" =>
          /\ r.entity.scheduled_at = e.scheduled_at
          /\ r.entity.duration_in_minutes = e.duration_in_minutes
          /\ r.step # "read" => r.entity.status = "active"

Serving(r) ==
    r.step # "idle" =>
        /\ DatesAgree(r.entity, now)
        /\ r.step = "read" =>
              r.entity.status = IF r.op = "uncancel" THEN "canceled" ELSE "active"
        /\ r.step = "built" => r.op \in {"create", "update"}
        /\ (r.step = "loaded" /\ Exists(r.id)) => r.row = events[r.id]
        /\ (r.step = "committed" /\ Exists(r.id)) => r.entity = events[r.id]
        /\ (r.op # "create" /\ r.step # "committed" /\ Exists(r.id))
              => Pending(r, events[r.id])

OneRest ==
    /\ ScheduleConsistent
    /\ PublishedIsStored
    /\ \A w \in Workers : Serving(request[w])

OneInv == Inv /\ OneRest

\* Scheduling the deletion of an active event makes its dates agree.
LEMMA ScheduleAgrees ==
    ASSUME NEW e \in Event(Users), NEW t \in Nat,
           e.status = "active", e.canceled_at = None
    PROVE  DatesAgree(schedule_deletion_after_event(e, t), t)
  <1> DEFINE s == schedule_deletion_after_event(e, t)
  <1>1. /\ s.status = "active" /\ s.canceled_at = None
        /\ s.scheduled_at = e.scheduled_at
        /\ s.duration_in_minutes = e.duration_in_minutes
        /\ s.deletion_scheduled_at \in Nat
    BY ScheduleLemma
  <1>2. s.deletion_scheduled_at = IF e.scheduled_at # None
                                  THEN event_end(e) + EventDeletionDelay
                                  ELSE t + NoDateDeletionDelay
    BY DEF schedule_deletion_after_event, Event
  <1>3. event_end(s) = event_end(e)
    BY <1>1 DEF event_end
  <1> HIDE DEF s
  <1>4. e.scheduled_at = None => s.deletion_scheduled_at <= t + NoDateDeletionDelay
    BY <1>2, DelaysAssumption
  <1>5. s.deletion_scheduled_at # None
    BY <1>1, NoneAssumption
  <1>6. DatesAgree(s, t)
    BY <1>1, <1>2, <1>3, <1>4, <1>5
       DEF DatesAgree, ActiveDates, CanceledDates, validate_state
  <1> QED
    BY <1>6 DEF s

\* Canceling an active event keeps its dates in agreement.
LEMMA CancelAgrees ==
    ASSUME NEW e \in Event(Users), NEW t \in Nat,
           DatesAgree(e, t), e.status = "active"
    PROVE  DatesAgree(cancel(e, t), t)
  <1> DEFINE s == cancel(e, t)
             limit == t + CanceledDeletionDelay
  <1>1. /\ s.status = "canceled" /\ s.canceled_at = t
        /\ s.scheduled_at = e.scheduled_at
        /\ s.duration_in_minutes = e.duration_in_minutes
        /\ s.deletion_scheduled_at \in Nat
    BY CancelLemma
  <1>2. e.deletion_scheduled_at \in Nat /\ e.deletion_scheduled_at # None
    BY DEF DatesAgree, Event, OptionalTime
  <1>3. s.deletion_scheduled_at = Earliest(e.deletion_scheduled_at, limit)
    BY <1>2 DEF cancel, Event
  <1>4. event_end(s) = event_end(e)
    BY <1>1 DEF event_end
  <1> HIDE DEF s
  <1>5. limit \in Nat /\ t # None /\ s.deletion_scheduled_at # None
    BY <1>1, DelaysAssumption, NoneAssumption
  <1>6. CASE e.scheduled_at # None
    <2>1. e.deletion_scheduled_at = event_end(e) + EventDeletionDelay
      BY <1>6 DEF DatesAgree, ActiveDates
    <2>2. s.deletion_scheduled_at
            = Earliest(event_end(s) + EventDeletionDelay, s.canceled_at + CanceledDeletionDelay)
      BY <1>1, <1>3, <1>4, <2>1
    <2>3. DatesAgree(s, t)
      BY <1>1, <1>5, <1>6, <2>2
         DEF DatesAgree, ActiveDates, CanceledDates, validate_state
    <2> QED
      BY <2>3 DEF s
  <1>7. CASE e.scheduled_at = None
    <2>1. e.deletion_scheduled_at <= t + NoDateDeletionDelay
      BY <1>7 DEF DatesAgree, ActiveDates
    <2>2. /\ s.deletion_scheduled_at <= s.canceled_at + CanceledDeletionDelay
          /\ s.deletion_scheduled_at <= t + NoDateDeletionDelay
      BY <1>1, <1>2, <1>3, <1>5, <2>1, DelaysAssumption DEF Earliest
    <2>3. DatesAgree(s, t)
      BY <1>1, <1>5, <1>7, <2>2
         DEF DatesAgree, ActiveDates, CanceledDates, validate_state
    <2> QED
      BY <2>3 DEF s
  <1> QED
    BY <1>6, <1>7

\* Reactivating an event reschedules its deletion.
LEMMA UncancelAgrees ==
    ASSUME NEW e \in Event(Users), NEW t \in Nat
    PROVE  DatesAgree(uncancel(e, t), t)
  <1> DEFINE a == [e EXCEPT !.status = "active", !.canceled_at = None]
  <1>1. a \in Event(Users) /\ a.status = "active" /\ a.canceled_at = None
    BY DEF Event, OptionalTime, EventStatus
  <1> HIDE DEF a
  <1>2. DatesAgree(schedule_deletion_after_event(a, t), t)
    BY <1>1, ScheduleAgrees
  <1> QED
    BY <1>2 DEF uncancel, a

\* Dates that agree go on agreeing as time passes.
LEMMA AgreementStable ==
    ASSUME NEW e \in Event(Users), NEW t \in Nat, NEW u \in Nat, t <= u,
           DatesAgree(e, t)
    PROVE  DatesAgree(e, u)
  <1>1. /\ validate_state(e)
        /\ e.deletion_scheduled_at \in Nat
        /\ e.deletion_scheduled_at # None
    BY DEF DatesAgree, Event, OptionalTime
  <1>2. ActiveDates(e, u)
    BY <1>1, DelaysAssumption DEF DatesAgree, ActiveDates
  <1>3. CanceledDates(e, u)
    <2>1. e.status = "canceled" => e.canceled_at \in Nat
      BY <1>1 DEF validate_state, Event, OptionalTime
    <2> QED
      BY <1>1, <2>1, DelaysAssumption DEF DatesAgree, CanceledDates
  <1> QED
    BY <1>1, <1>2, <1>3 DEF DatesAgree

\* A step that only moves a handler on.
LEMMA OneRequest ==
    ASSUME OneWorker, OneInv, NEW w \in Workers, NEW r \in Request,
           request' = [request EXCEPT ![w] = r],
           UNCHANGED <<now, events, published, missed>>,
           request[w].step # "committed", r.step # "committed",
           Serving(r)
    PROVE  OneRest'
  <1>1. request \in [Workers -> Request]
    BY DEF OneInv, OneRest, Inv, TypeOK
  <1>2. \A v \in Workers : v = w /\ request'[v] = r
    BY <1>1 DEF OneWorker
  <1>3. ScheduleConsistent'
    BY DEF OneInv, OneRest, ScheduleConsistent, Exists
  <1>4. PublishedIsStored'
    <2>1. SUFFICES ASSUME NEW id \in EventIds, events[id] # None, id \notin missed
                   PROVE  published[id] = events[id]
      BY DEF PublishedIsStored, Exists
    <2> QED
      BY <1>2, <2>1 DEF OneInv, OneRest, PublishedIsStored, Exists
  <1>5. \A v \in Workers : Serving(request[v])'
    BY <1>2 DEF Serving, Pending, Exists
  <1> QED
    BY <1>3, <1>4, <1>5 DEF OneRest

LEMMA OneDone ==
    ASSUME OneWorker, OneInv, NEW w \in Workers, Done(w),
           UNCHANGED <<now, events, published, missed>>,
           request[w].step # "committed"
    PROVE  OneRest'
  <1>1. Serving(Idle) /\ Idle.step # "committed"
    BY DEF Serving, Idle
  <1> QED
    BY <1>1, IdleLemma, OneRequest DEF Done

\* A handler with a new entity that is not written yet.
LEMMA OneBecome ==
    ASSUME OneWorker, OneInv, NEW w \in Workers, NEW s \in {"built", "verified"},
           NEW e \in Event(Users), Become(w, s, e),
           UNCHANGED <<now, events, published, missed>>,
           request[w].step \in {"read", "built"},
           DatesAgree(e, now),
           s = "built" => request[w].op = "update",
           request[w].op = "uncancel" =>
               /\ e.status = "active"
               /\ e.scheduled_at = request[w].entity.scheduled_at
               /\ e.duration_in_minutes = request[w].entity.duration_in_minutes
    PROVE  OneRest'
  <1> DEFINE r == [request[w] EXCEPT !.step = s, !.entity = e]
  <1>1. request \in [Workers -> Request] /\ Serving(request[w])
    BY DEF OneInv, OneRest, Inv, TypeOK
  <1>2. /\ r \in Request
        /\ r.step = s /\ r.entity = e /\ r.op = request[w].op
        /\ r.id = request[w].id
    BY <1>1 DEF Request, Steps
  <1>3. request' = [request EXCEPT ![w] = r]
    BY <1>1 DEF Become, Request
  <1> HIDE DEF r
  <1>4. Serving(r)
    BY <1>1, <1>2 DEF Serving, Pending
  <1> QED
    BY <1>2, <1>3, <1>4, OneRequest

LEMMA OneReceive ==
    ASSUME OneWorker, OneInv, NEW w \in Workers,
           ReceiveCreate(w) \/ ReceiveChange(w)
    PROVE  OneRest'
  <1>1. /\ now \in Nat
        /\ events \in [EventIds -> Event(Users) \union {None}]
        /\ request \in [Workers -> Request] /\ ScheduleConsistent
    BY DEF OneInv, OneRest, Inv, TypeOK
  <1>2. CASE ReceiveCreate(w)
    <2>1. PICK u \in Users, s \in Schedules \union {None}, d \in Durations :
            request' = [request EXCEPT ![w] =
              [Idle EXCEPT !.step = "built", !.op = "create", !.actor = u,
                 !.entity = schedule_deletion_after_event(NewEvent(u, s, d), now)]]
      BY <1>2 DEF ReceiveCreate
    <2> DEFINE e == schedule_deletion_after_event(NewEvent(u, s, d), now)
               r == [Idle EXCEPT !.step = "built", !.op = "create",
                                 !.actor = u, !.entity = e]
    <2>2. e \in Event(Users) /\ DatesAgree(e, now)
      <3> DEFINE n == NewEvent(u, s, d)
      <3>1. n \in Event(Users) /\ n.status = "active" /\ n.canceled_at = None
        BY NewEventLemma
      <3> HIDE DEF n
      <3> QED
        BY <1>1, <3>1, ScheduleLemma, ScheduleAgrees DEF n
    <2>3. request' = [request EXCEPT ![w] = r]
      BY <2>1
    <2> HIDE DEF e
    <2>4. r \in Request /\ r.step = "built" /\ r.op = "create" /\ r.entity = e
      BY <2>2 DEF Idle, Request, Steps, Operations
    <2> HIDE DEF r
    <2>5. Serving(r)
      BY <2>2, <2>4 DEF Serving
    <2> QED
      BY <1>2, <2>3, <2>4, <2>5, OneRequest DEF ReceiveCreate
  <1>3. CASE ReceiveChange(w)
    <2>1. PICK op \in Operations \ {"create"}, id \in EventIds, actor \in Users :
            /\ Exists(id)
            /\ events[id].status = IF op = "uncancel" THEN "canceled" ELSE "active"
            /\ request' = [request EXCEPT ![w] =
                 [Idle EXCEPT !.step = "read", !.op = op, !.id = id,
                              !.actor = actor, !.entity = events[id]]]
      BY <1>3 DEF ReceiveChange, Receive
    <2> DEFINE r == [Idle EXCEPT !.step = "read", !.op = op, !.id = id,
                                 !.actor = actor, !.entity = events[id]]
    <2>2. events[id] \in Event(Users) /\ DatesAgree(events[id], now)
      BY <1>1, <2>1 DEF Exists, ScheduleConsistent
    <2>3. /\ r \in Request
          /\ r.step = "read" /\ r.op = op /\ r.id = id
          /\ r.entity = events[id]
      BY <2>1, <2>2 DEF Idle, Request, Steps, Operations
    <2>4. request' = [request EXCEPT ![w] = r]
      BY <2>1
    <2> HIDE DEF r
    <2>5. Serving(r)
      BY <2>1, <2>2, <2>3 DEF Serving, Pending
    <2> QED
      BY <1>3, <2>3, <2>4, <2>5, OneRequest DEF ReceiveChange, Receive
  <1> QED
    BY <1>2, <1>3

LEMMA OneBuild ==
    ASSUME OneWorker, OneInv, NEW w \in Workers,
           BuildUpdate(w) \/ BuildCancel(w) \/ BuildUncancel(w) \/ Verify(w)
    PROVE  OneRest'
  <1> DEFINE q == request[w]
  <1>1. /\ now \in Nat /\ Serving(q) /\ Holds(q)
        /\ q.step \in {"read", "built"}
        /\ q.entity \in Event(Users) /\ DatesAgree(q.entity, now)
    BY DEF OneInv, OneRest, Inv, TypeOK, RequestOK, Holds, Serving,
           BuildUpdate, BuildCancel, BuildUncancel, Verify
  <1>2. UNCHANGED <<now, events, published, missed>>
    BY DEF BuildUpdate, BuildCancel, BuildUncancel, Verify
  <1>3. CASE BuildUpdate(w)
    <2>1. PICK s \in Schedules \union {None}, d \in Durations :
            Become(w, "built",
              schedule_deletion_after_event(
                [q.entity EXCEPT !.scheduled_at = s,
                                 !.duration_in_minutes = d], now))
      BY <1>3 DEF BuildUpdate
    <2> DEFINE e == [q.entity EXCEPT !.scheduled_at = s,
                                     !.duration_in_minutes = d]
    <2>2. q.entity.status = "active" /\ q.op = "update"
      BY <1>1, <1>3 DEF Serving, BuildUpdate
    <2>3. q.entity.canceled_at = None
      BY <1>1, <2>2 DEF DatesAgree, validate_state
    <2>4. e \in Event(Users) /\ e.status = "active" /\ e.canceled_at = None
      BY <1>1, <2>2, <2>3, InputsAssumption DEF Event, OptionalTime
    <2>5. Become(w, "built", schedule_deletion_after_event(e, now))
      BY <2>1
    <2> HIDE DEF e
    <2>6. /\ schedule_deletion_after_event(e, now) \in Event(Users)
          /\ DatesAgree(schedule_deletion_after_event(e, now), now)
      BY <1>1, <2>4, ScheduleLemma, ScheduleAgrees
    <2> QED
      BY <1>1, <1>2, <2>2, <2>5, <2>6, OneBecome
  <1>4. CASE BuildCancel(w)
    <2>1. q.entity.status = "active" /\ q.op = "cancel"
      BY <1>1, <1>4 DEF Serving, BuildCancel
    <2>2. /\ cancel(q.entity, now) \in Event(Users)
          /\ DatesAgree(cancel(q.entity, now), now)
      BY <1>1, <2>1, CancelLemma, CancelAgrees
    <2>3. Become(w, "verified", cancel(q.entity, now))
      BY <1>4 DEF BuildCancel
    <2> QED
      BY <1>1, <1>2, <2>1, <2>2, <2>3, OneBecome
  <1>5. CASE BuildUncancel(w)
    <2> DEFINE e == uncancel(q.entity, now)
    <2>1. /\ e \in Event(Users) /\ DatesAgree(e, now) /\ e.status = "active"
          /\ e.scheduled_at = q.entity.scheduled_at
          /\ e.duration_in_minutes = q.entity.duration_in_minutes
      BY <1>1, UncancelLemma, UncancelAgrees
    <2>2. Become(w, "verified", e)
      BY <1>5 DEF BuildUncancel
    <2> HIDE DEF e
    <2> QED
      BY <1>1, <1>2, <2>1, <2>2, OneBecome
  <1>6. CASE Verify(w)
    <2>1. CASE Done(w)
      BY <1>1, <1>2, <2>1, OneDone
    <2>2. CASE Become(w, "verified", q.entity)
      <3>1. q.op # "uncancel"
        BY <1>1, <1>6 DEF Verify, Serving
      <3> QED
        BY <1>1, <1>2, <2>2, <3>1, OneBecome
    <2> QED
      BY <1>6, <2>1, <2>2 DEF Verify
  <1> QED
    BY <1>3, <1>4, <1>5, <1>6

LEMMA OneInsert ==
    ASSUME OneWorker, OneInv, NEW w \in Workers, Insert(w) PROVE OneRest'
  <1> DEFINE q == request[w]
             r == [q EXCEPT !.step = "committed", !.id = nextId]
  <1>1. /\ events \in [EventIds -> Event(Users) \union {None}]
        /\ request \in [Workers -> Request] /\ nextId \in EventIds
        /\ ScheduleConsistent /\ PublishedIsStored
        /\ Serving(q) /\ Holds(q) /\ q.step = "verified"
    BY DEF OneInv, OneRest, Inv, TypeOK, Insert, RequestOK
  <1>2. /\ events' = [events EXCEPT ![nextId] = q.entity]
        /\ UNCHANGED <<now, published, missed>>
    BY DEF Insert
  <1>3. /\ r.step = "committed" /\ r.id = nextId /\ r.entity = q.entity
        /\ request' = [request EXCEPT ![w] = r]
    BY <1>1 DEF Insert, Request
  <1> HIDE DEF r
  <1>4. \A v \in Workers : v = w /\ request'[v] = r
    BY <1>1, <1>3 DEF OneWorker
  <1>5. ScheduleConsistent'
    BY <1>1, <1>2 DEF ScheduleConsistent, Exists, Serving
  <1>6. PublishedIsStored'
    BY <1>1, <1>2, <1>3, <1>4 DEF PublishedIsStored, Exists
  <1>7. \A v \in Workers : Serving(request[v])'
    BY <1>1, <1>2, <1>3, <1>4 DEF Serving, Exists
  <1> QED
    BY <1>5, <1>6, <1>7 DEF OneRest

LEMMA OneLoad ==
    ASSUME OneWorker, OneInv, NEW w \in Workers, Load(w) PROVE OneRest'
  <1> DEFINE q == request[w]
  <1>1. /\ request \in [Workers -> Request]
        /\ events \in [EventIds -> Event(Users) \union {None}]
        /\ Serving(q) /\ Knows(q) /\ q.step = "verified" /\ q.op # "create"
        /\ UNCHANGED <<now, events, published, missed>>
    BY DEF OneInv, OneRest, Inv, TypeOK, RequestOK, Load
  <1>2. CASE Done(w)
    BY <1>1, <1>2, OneDone
  <1>3. CASE Exists(q.id)
    <2> DEFINE r == [q EXCEPT !.step = "loaded", !.row = events[q.id]]
    <2>1. events[q.id] \in Event(Users)
      BY <1>1, <1>3 DEF Knows, Exists
    <2>2. /\ r \in Request
          /\ r.step = "loaded" /\ r.id = q.id /\ r.op = q.op
          /\ r.entity = q.entity /\ r.row = events[q.id]
      BY <1>1, <2>1 DEF Request, Steps
    <2>3. request' = [request EXCEPT ![w] = r]
      BY <1>1, <1>3 DEF Load, Request
    <2> HIDE DEF r
    <2>4. Serving(r)
      BY <1>1, <2>2 DEF Serving, Pending
    <2> QED
      BY <1>1, <2>2, <2>3, <2>4, OneRequest
  <1> QED
    BY <1>2, <1>3 DEF Load

\* With one process the row is still the one that was loaded, or gone, so the
\* UPDATE leaves exactly the handler's entity.
LEMMA FlushWritesEntity ==
    ASSUME OneInv, NEW w \in Workers, Flush(w)
    PROVE  /\ events[request[w].id] # None =>
                 events' = [events EXCEPT ![request[w].id] = request[w].entity]
           /\ events[request[w].id] = None => events' = events
  <1> DEFINE q == request[w]
  <1>1. /\ events \in [EventIds -> Event(Users) \union {None}]
        /\ Serving(q) /\ Holds(q) /\ Knows(q) /\ Loaded(q)
        /\ q.step = "loaded" /\ q.op # "create" /\ q.id \in EventIds
    BY DEF OneInv, OneRest, Inv, TypeOK, RequestOK, Flush, Holds, Knows
  <1>2. CASE events[q.id] = None
    BY <1>2 DEF Flush, Exists
  <1>3. CASE events[q.id] # None
    <2>1. events[q.id] \in Event(Users) /\ q.row = events[q.id]
      BY <1>1, <1>3 DEF Serving, Exists
    <2>2. Written(w) = q.entity
      BY <1>1, <2>1, WrittenLemma DEF Holds
    <2> QED
      BY <1>1, <1>3, <2>1, <2>2 DEF Flush
  <1> QED
    BY <1>2, <1>3

LEMMA OneFlush ==
    ASSUME OneWorker, OneInv, NEW w \in Workers, Flush(w) PROVE OneRest'
  <1> DEFINE q == request[w]
             r == [q EXCEPT !.step = "committed"]
  <1>1. /\ events \in [EventIds -> Event(Users) \union {None}]
        /\ request \in [Workers -> Request]
        /\ ScheduleConsistent /\ PublishedIsStored
        /\ Serving(q) /\ Holds(q) /\ Knows(q) /\ q.step = "loaded"
        /\ q.op # "create" /\ q.id \in EventIds
    BY DEF OneInv, OneRest, Inv, TypeOK, RequestOK, Flush, Holds, Knows
  <1>2. UNCHANGED <<now, published, missed>>
    BY DEF Flush
  <1>3. /\ r.step = "committed" /\ r.id = q.id /\ r.entity = q.entity
        /\ request' = [request EXCEPT ![w] = r]
    BY <1>1 DEF Flush, Become, Request
  <1> HIDE DEF r
  <1>4. \A v \in Workers : v = w /\ request'[v] = r
    BY <1>1, <1>3 DEF OneWorker
  <1>5. /\ events'[q.id] \in {q.entity, None}
        /\ \A id \in EventIds : id # q.id => events'[id] = events[id]
    BY <1>1, FlushWritesEntity
  <1>6. ScheduleConsistent'
    BY <1>1, <1>2, <1>5 DEF ScheduleConsistent, Exists, Serving
  <1>7. PublishedIsStored'
    BY <1>1, <1>2, <1>3, <1>4, <1>5 DEF PublishedIsStored, Exists, OneWorker
  <1>8. \A v \in Workers : Serving(request[v])'
    BY <1>1, <1>2, <1>3, <1>4, <1>5 DEF Serving, Exists
  <1> QED
    BY <1>6, <1>7, <1>8 DEF OneRest

LEMMA OneEnd ==
    ASSUME OneWorker, OneInv, NEW w \in Workers,
           FlushFails(w) \/ LocationMissing(w) \/ Publish(w) \/ Crash(w)
    PROVE  OneRest'
  <1> DEFINE q == request[w]
  <1>1. /\ request \in [Workers -> Request]
        /\ published \in [EventIds -> Event(Users) \union {None}]
        /\ ScheduleConsistent /\ PublishedIsStored /\ Serving(q)
        /\ q.step = "committed" => q.id \in EventIds
    BY DEF OneInv, OneRest, Inv, TypeOK, RequestOK, Knows
  <1>2. Done(w) /\ UNCHANGED <<now, events>>
    BY DEF FlushFails, LocationMissing, Publish, Crash
  <1>3. CASE q.step # "committed"
    BY <1>1, <1>2, <1>3, OneDone DEF FlushFails, LocationMissing, Publish, Crash
  <1>4. CASE q.step = "committed"
    <2>1. \A v \in Workers : v = w /\ request'[v].step = "idle"
      BY <1>1, <1>2, IdleLemma DEF OneWorker, Done
    <2>2. ScheduleConsistent'
      BY <1>1, <1>2 DEF ScheduleConsistent, Exists
    <2>3. CASE Publish(w)
      <3>1. PublishedIsStored'
        BY <1>1, <1>2, <1>4, <2>1, <2>3
           DEF Publish, PublishedIsStored, Exists, Serving
      <3> QED
        BY <2>1, <2>2, <3>1 DEF OneRest, Serving
    <2>4. CASE Crash(w)
      <3>1. PublishedIsStored'
        BY <1>1, <1>2, <1>4, <2>1, <2>4 DEF Crash, PublishedIsStored, Exists
      <3> QED
        BY <2>1, <2>2, <3>1 DEF OneRest, Serving
    <2> QED
      BY <1>4, <2>3, <2>4 DEF FlushFails, LocationMissing
  <1> QED
    BY <1>3, <1>4

LEMMA OneJob == ASSUME OneWorker, OneInv, Tick \/ Job PROVE OneRest'
  <1>1. /\ now \in Nat /\ now' \in Nat /\ now <= now'
        /\ events \in [EventIds -> Event(Users) \union {None}]
        /\ ScheduleConsistent /\ PublishedIsStored
    BY DEF OneInv, OneRest, Inv, TypeOK, Tick, Job, JobSelect, JobDelete, JobCrash
  <1>2. /\ \A id \in EventIds : events'[id] \in {events[id], None}
        /\ UNCHANGED <<request, published, missed>>
    BY <1>1 DEF Tick, Job, JobSelect, JobDelete, JobCrash
  <1>3. ScheduleConsistent'
    <2> SUFFICES ASSUME NEW id \in EventIds, events'[id] # None
                 PROVE  DatesAgree(events'[id], now')
      BY DEF ScheduleConsistent, Exists
    <2>1. /\ events'[id] = events[id] /\ events[id] \in Event(Users)
          /\ DatesAgree(events[id], now)
      BY <1>1, <1>2 DEF ScheduleConsistent, Exists
    <2> QED
      BY <1>1, <2>1, AgreementStable
  <1>4. PublishedIsStored'
    BY <1>1, <1>2 DEF PublishedIsStored, Exists
  <1>5. ASSUME NEW w \in Workers PROVE Serving(request[w])'
    <2>1. Serving(request[w]) /\ RequestOK(w) /\ request'[w] = request[w]
      BY <1>2 DEF OneInv, OneRest, Inv
    <2>2. request[w].step # "idle" => DatesAgree(request[w].entity, now')
      BY <1>1, <2>1, AgreementStable DEF Serving, RequestOK, Holds
    <2>3. request[w].op # "create" \/ request[w].step \in {"loaded", "committed"}
            => request[w].step = "idle" \/ request[w].id \in EventIds
      BY <2>1 DEF RequestOK, Knows, Holds
    <2> QED
      BY <1>2, <2>1, <2>2, <2>3 DEF Serving, Exists
  <1> QED
    BY <1>3, <1>4, <1>5 DEF OneRest

LEMMA OneStep == OneWorker /\ OneInv /\ [Next]_vars => OneInv'
  <1> SUFFICES ASSUME OneWorker, OneInv, [Next]_vars PROVE OneRest'
    BY StepInv DEF OneInv
  <1>1. CASE Tick \/ Job
    BY <1>1, OneJob
  <1>2. ASSUME NEW w \in Workers, Worker(w) PROVE OneRest'
    BY <1>2, ReceiveChangeLemma, OneReceive, OneBuild, OneInsert, OneLoad, OneFlush, OneEnd
       DEF Worker, Serve
  <1>3. CASE UNCHANGED vars
    BY <1>3 DEF vars, OneInv, OneRest, ScheduleConsistent, PublishedIsStored,
                Serving, Exists
  <1> QED
    BY <1>1, <1>2, <1>3 DEF Next

LEMMA OneInit == Init => OneInv
  <1> SUFFICES ASSUME Init PROVE OneRest
    BY InitInv DEF OneInv
  <1> QED
    BY DEF Init, OneRest, ScheduleConsistent, PublishedIsStored, Serving,
           Exists, Idle

THEOREM OneInvariance == ASSUME OneWorker PROVE Spec => []OneInv
  <1>1. OneInv /\ [Next]_vars => OneInv'
    BY OneStep
  <1> QED
    BY <1>1, OneInit, PTL DEF Spec

\* With one API process, the stored deletion date of an event is the one its
\* current state calls for, after any sequence of requests, crashes and jobs.
THEOREM SchedulesConsistent == ASSUME OneWorker PROVE Spec => []ScheduleConsistent
  <1>1. OneInv => ScheduleConsistent
    BY DEF OneInv, OneRest
  <1> QED
    BY <1>1, OneInvariance, PTL

\* With one API process, what was last published of an event is what is stored,
\* unless the process died in between.
THEOREM PublicationsCurrent == ASSUME OneWorker PROVE Spec => []PublishedIsStored
  <1>1. OneInv => PublishedIsStored
    BY DEF OneInv, OneRest
  <1> QED
    BY <1>1, OneInvariance, PTL

\* With one API process, a canceled event is only ever reactivated.
THEOREM CanceledStaysPut == ASSUME OneWorker PROVE Spec => CanceledOnlyReactivated
  <1>1. ASSUME OneInv, [Next]_vars, NEW id \in EventIds PROVE CanceledChange(id)
    <2> SUFFICES ASSUME Exists(id), events'[id] # None, events'[id] # events[id],
                        events[id].status = "canceled"
                 PROVE  CanceledChange(id)
      BY DEF CanceledChange
    <2>1. events \in [EventIds -> Event(Users) \union {None}] /\ StoreOK
      BY <1>1 DEF OneInv, Inv, TypeOK
    <2>2. PICK w \in Workers : Insert(w) \/ Flush(w)
      BY <1>1, <2>1, WritersLemma DEF JobDelete
    <2>3. ~Insert(w)
      <3>1. id # nextId
        BY <2>1, InputsAssumption DEF StoreOK, EventIds
      <3> QED
        BY <2>1, <3>1 DEF Insert
    <2> DEFINE q == request[w]
    <2>4. Flush(w)
      BY <2>2, <2>3
    <2>5. q.id = id /\ events' = [events EXCEPT ![id] = q.entity]
      BY <1>1, <2>1, <2>4, FlushWritesEntity DEF Exists
    <2>6. Pending(q, events[id]) /\ q.step = "loaded"
      BY <1>1, <2>4, <2>5 DEF Flush, OneInv, OneRest, Inv, RequestOK, Holds, Serving
    <2> QED
      BY <2>1, <2>5, <2>6 DEF Pending, CanceledChange
  <1>2. OneInv /\ [Next]_vars => [\A id \in EventIds : CanceledChange(id)]_vars
    BY <1>1
  <1> QED
    BY <1>2, OneInvariance, PTL DEF Spec, CanceledOnlyReactivated

============================================================================
