-------------------------- MODULE AttendanceProofs --------------------------
(***************************************************************************)
(* Theorems about Attendance, for any number of API processes, users and   *)
(* events: whatever the handlers and the job do between each other's       *)
(* statements, the table of participants stays sound, and clients hold     *)
(* what it holds but for what is known to be lost.                         *)
(***************************************************************************)
EXTENDS Attendance, FiniteSetTheorems, TLAPS

\* What a handler in progress holds.
Holds(q) ==
    q.step # "idle" =>
        /\ q.event \in Events
        /\ q.op \in {"join", "leave"} => q.user \in Users
        /\ q.op = "leave" => q.row \in RowIds
        /\ q.step \in {"committed", "counted"} => q.op \in {"join", "leave"}

\* What the tables hold.
TablesOK ==
    /\ status \in [Events -> {"active", "canceled", None}]
    /\ rows \in [RowIds -> Row \union {None}]
    /\ nextRow \in Nat \ {0}
    /\ request \in [Workers -> Request]
    /\ \A w \in Workers : Holds(request[w])

Inv ==
    /\ TablesOK
    /\ OneParticipation
    /\ NoParticipantWithoutEvent

LEMMA InitInv == Init => Inv
  BY DEF Init, Inv, TablesOK, Request, Idle, Holds, OneParticipation,
         NoParticipantWithoutEvent, Active

\* A step that only moves a handler on.
LEMMA RequestLemma ==
    ASSUME TablesOK, NEW w \in Workers, NEW q \in Request, Holds(q),
           request' = [request EXCEPT ![w] = q]
    PROVE  /\ request' \in [Workers -> Request]
           /\ \A v \in Workers : Holds(request'[v])
  BY DEF TablesOK

LEMMA IdleLemma == Idle \in Request /\ Holds(Idle)
  BY DEF Idle, Request, Holds

\* A step that leaves the tables alone preserves all that is said of them.
LEMMA QuietLemma ==
    ASSUME Inv, UNCHANGED <<status, rows, nextRow>>,
           request' \in [Workers -> Request],
           \A v \in Workers : Holds(request'[v])
    PROVE  Inv'
  BY DEF Inv, TablesOK, OneParticipation, NoParticipantWithoutEvent, Active

LEMMA DoneLemma ==
    ASSUME Inv, NEW w \in Workers, Done(w), UNCHANGED <<status, rows, nextRow>>
    PROVE  Inv'
  BY IdleLemma, RequestLemma, QuietLemma DEF Done, Inv

LEMMA MoveLemma ==
    ASSUME Inv, NEW w \in Workers, NEW q \in Request, Holds(q),
           request' = [request EXCEPT ![w] = q],
           UNCHANGED <<status, rows, nextRow>>
    PROVE  Inv'
  BY RequestLemma, QuietLemma DEF Inv

----------------------------------------------------------------------------
(* The handlers' steps that leave the tables alone.                        *)

LEMMA StartJoinInv ==
    ASSUME Inv, NEW w \in Workers, StartJoin(w)
    PROVE  Inv'
<1>1. PICK e \in Events, u \in Users :
          request' = [request EXCEPT ![w] =
               [Idle EXCEPT !.step = "checked", !.op = "join", !.event = e, !.user = u]]
  BY DEF StartJoin
<1> DEFINE q == [Idle EXCEPT !.step = "checked", !.op = "join", !.event = e, !.user = u]
<1>2. q \in Request /\ Holds(q)
  BY DEF Idle, Request, Holds, Operations
<1>3. UNCHANGED <<status, rows, nextRow>>
  BY DEF StartJoin
<1> QED
  BY <1>1, <1>2, <1>3, MoveLemma

LEMMA StartLeaveInv ==
    ASSUME Inv, NEW w \in Workers, StartLeave(w)
    PROVE  Inv'
<1>1. PICK e \in Events, u \in Users, r \in RowIds :
          request' = [request EXCEPT ![w] =
               [Idle EXCEPT !.step = "found", !.op = "leave",
                            !.event = e, !.user = u, !.row = r]]
  BY DEF StartLeave, ActiveRows
<1> DEFINE q == [Idle EXCEPT !.step = "found", !.op = "leave",
                             !.event = e, !.user = u, !.row = r]
<1>2. q \in Request /\ Holds(q)
  BY DEF Idle, Request, Holds, Operations
<1>3. UNCHANGED <<status, rows, nextRow>>
  BY DEF StartLeave
<1> QED
  BY <1>1, <1>2, <1>3, MoveLemma

LEMMA StartCancelInv ==
    ASSUME Inv, NEW w \in Workers, StartCancel(w)
    PROVE  Inv'
<1>1. PICK e \in Events, op \in {"cancel", "uncancel"} :
          request' = [request EXCEPT ![w] =
               [Idle EXCEPT !.step = "checked", !.event = e, !.op = op]]
  <2>1. PICK e \in Events :
            request' = [request EXCEPT ![w] =
               [Idle EXCEPT !.step = "checked", !.event = e,
                  !.op = IF status[e] = "active" THEN "cancel" ELSE "uncancel"]]
    BY DEF StartCancel
  <2>2. CASE status[e] = "active"
    BY <2>1, <2>2
  <2>3. CASE status[e] # "active"
    BY <2>1, <2>3
  <2> QED
    BY <2>2, <2>3
<1> DEFINE q == [Idle EXCEPT !.step = "checked", !.event = e, !.op = op]
<1>2. q \in Request /\ Holds(q)
  BY DEF Idle, Request, Holds, Operations
<1>3. UNCHANGED <<status, rows, nextRow>>
  BY DEF StartCancel
<1> QED
  BY <1>1, <1>2, <1>3, MoveLemma

LEMMA FindInv ==
    ASSUME Inv, NEW w \in Workers, Find(w)
    PROVE  Inv'
<1>1. UNCHANGED <<status, rows, nextRow>>
  BY DEF Find
<1>2. CASE Goto(w, "found")
  <2> DEFINE q == [request[w] EXCEPT !.step = "found"]
  <2>1. request' = [request EXCEPT ![w] = q]
    BY <1>2 DEF Goto
  <2>2. q \in Request /\ Holds(q)
    BY DEF Find, Inv, TablesOK, Request, Holds
  <2> QED
    BY <1>1, <2>1, <2>2, MoveLemma
<1>3. CASE Done(w)
  BY <1>1, <1>3, DoneLemma
<1> QED
  BY <1>2, <1>3 DEF Find

\* What count_by_event returns is a number.
LEMMA CountIsNat ==
    ASSUME NEW e \in Events
    PROVE  count_by_event(e) \in Nat
<1> DEFINE S == {r \in RowIds : Active(r) /\ rows[r].event = e}
<1>1. IsFiniteSet(RowIds) /\ S \subseteq RowIds
  BY FS_Interval, RowsAssumption DEF RowIds
<1>2. IsFiniteSet(S)
  BY <1>1, FS_Subset
<1> QED
  BY <1>2, FS_CardinalityType DEF count_by_event

LEMMA CountInv ==
    ASSUME Inv, NEW w \in Workers, Count(w)
    PROVE  Inv'
<1> DEFINE n == count_by_event(request[w].event)
           q == [request[w] EXCEPT !.step = "counted", !.count = n]
<1>1. UNCHANGED <<status, rows, nextRow>>
  BY DEF Count
<1>2. request' = [request EXCEPT ![w] = q]
  BY DEF Count
<1>3. n \in Nat
  BY CountIsNat DEF Count, Inv, TablesOK, Holds
<1>4. q \in Request /\ Holds(q)
  <2> HIDE DEF n
  <2> QED
    BY <1>3 DEF Count, Inv, TablesOK, Request, Holds
<1> QED
  BY <1>1, <1>2, <1>4, MoveLemma

LEMMA EndedInv ==
    ASSUME Inv, NEW w \in Workers, Publish(w) \/ Crash(w)
    PROVE  Inv'
  BY DoneLemma DEF Publish, Crash

----------------------------------------------------------------------------
(* The steps that write.                                                   *)

\* Whatever Find saw, the row goes in only if the constraints hold now.
LEMMA InsertInv ==
    ASSUME Inv, NEW w \in Workers, Insert(w)
    PROVE  Inv'
<1> DEFINE u == request[w].user
           e == request[w].event
           new == [event |-> e, user |-> u, left |-> FALSE]
<1>1. CASE ~ConstraintsHold(u, e)
  BY <1>1, DoneLemma DEF Insert
<1>2. CASE ConstraintsHold(u, e)
  <2> DEFINE q == [request[w] EXCEPT !.step = "committed", !.row = nextRow]
  <2>1. e \in Events /\ u \in Users /\ nextRow \in RowIds
    BY DEF Insert, Inv, TablesOK, Holds
  <2>2. rows' = [rows EXCEPT ![nextRow] = new] /\ status' = status
    BY <1>2 DEF Insert
  <2>3. request' = [request EXCEPT ![w] = q] /\ nextRow' = nextRow + 1
    BY <1>2 DEF Insert
  <2>4. q \in Request /\ Holds(q)
    BY <2>1 DEF Insert, Inv, TablesOK, Request, Holds
  <2>5. new \in Row
    BY <2>1 DEF Row
  <2>6. status[e] # None /\ (\A r \in RowIds :
            ~(Active(r) /\ rows[r].user = u /\ rows[r].event = e))
    BY <1>2 DEF ConstraintsHold, ActiveRows
  <2>7. TablesOK'
    BY <2>1, <2>2, <2>3, <2>4, <2>5, RequestLemma DEF Inv, TablesOK
  <2>8. \A r \in RowIds : rows'[r] = IF r = nextRow THEN new ELSE rows[r]
    BY <2>2 DEF Inv, TablesOK
  <2>9. \A r \in RowIds : r # nextRow => (Active(r)' <=> Active(r))
    BY <2>8 DEF Active
  <2>10. OneParticipation'
    <3> SUFFICES ASSUME NEW r \in RowIds, NEW s \in RowIds,
                        Active(r)', Active(s)',
                        rows'[r].user = rows'[s].user,
                        rows'[r].event = rows'[s].event
                 PROVE  r = s
      BY DEF OneParticipation, RowIds, Active
    <3>1. CASE r # nextRow /\ s # nextRow
      BY <3>1, <2>8, <2>9 DEF Inv, OneParticipation
    <3>2. CASE r = nextRow /\ s # nextRow
      BY <3>2, <2>6, <2>8, <2>9
    <3>3. CASE r # nextRow /\ s = nextRow
      BY <3>3, <2>6, <2>8, <2>9
    <3> QED
      BY <3>1, <3>2, <3>3
  <2>11. NoParticipantWithoutEvent'
    BY <2>2, <2>6, <2>8 DEF Inv, NoParticipantWithoutEvent
  <2> QED
    BY <2>7, <2>10, <2>11 DEF Inv
<1> QED
  BY <1>1, <1>2

\* Marking a row as left never makes a participation.
LEMMA UpdateInv ==
    ASSUME Inv, NEW w \in Workers, Update(w)
    PROVE  Inv'
<1> DEFINE i == request[w].row
<1>1. CASE rows[i] = None
  BY <1>1, DoneLemma DEF Update
<1>2. CASE rows[i] # None
  <2> DEFINE q == [request[w] EXCEPT !.step = "committed"]
  <2>1. i \in RowIds
    BY DEF Update, Inv, TablesOK, Holds
  <2>2. rows' = [rows EXCEPT ![i].left = TRUE]
    BY <1>2 DEF Update
  <2>3. request' = [request EXCEPT ![w] = q]
    BY <1>2 DEF Update, Goto
  <2>4. status' = status /\ nextRow' = nextRow
    BY DEF Update
  <2>5. q \in Request /\ Holds(q)
    BY DEF Update, Inv, TablesOK, Request, Holds
  <2>6. rows[i] \in Row
    BY <1>2, <2>1 DEF Inv, TablesOK
  <2>7. rows' \in [RowIds -> Row \union {None}]
    BY <2>1, <2>2, <2>6 DEF Inv, TablesOK, Row
  <2>8. TablesOK'
    BY <2>3, <2>4, <2>5, <2>7, RequestLemma DEF Inv, TablesOK
  <2>9. \A r \in RowIds : r # i => rows'[r] = rows[r]
    BY <2>2 DEF Inv, TablesOK
  <2>10. rows'[i].left /\ rows'[i].event = rows[i].event
    BY <2>1, <2>2, <2>6 DEF Inv, TablesOK, Row
  <2>11. OneParticipation'
    BY <2>9, <2>10 DEF Inv, OneParticipation, Active
  <2>12. NoParticipantWithoutEvent'
    BY <1>2, <2>1, <2>4, <2>9, <2>10 DEF Inv, NoParticipantWithoutEvent
  <2> QED
    BY <2>8, <2>11, <2>12 DEF Inv
<1> QED
  BY <1>1, <1>2

\* The history of the joins a cancel overtakes changes, not what they hold.
LEMMA OvertakenLemma ==
    ASSUME Inv, NEW w \in Workers, CommitCancel(w)
    PROVE  /\ request' \in [Workers -> Request]
           /\ \A v \in Workers : Holds(request'[v])
<1>1. request' = [v \in Workers |-> request'[v]]
  BY DEF CommitCancel
<1>2. ASSUME NEW v \in Workers
      PROVE  request'[v] \in Request /\ Holds(request'[v])
  <2>1. request[v] \in Request /\ Holds(request[v])
    BY DEF Inv, TablesOK
  <2>2. \/ request'[v] = Idle
        \/ request'[v] = [request[v] EXCEPT !.overtaken = TRUE]
        \/ request'[v] = request[v]
    BY DEF CommitCancel
  <2>3. CASE request'[v] = [request[v] EXCEPT !.overtaken = TRUE]
    BY <2>1, <2>3 DEF Request, Holds
  <2> QED
    BY <2>1, <2>2, <2>3, IdleLemma
<1> QED
  BY <1>1, <1>2

LEMMA CommitCancelInv ==
    ASSUME Inv, NEW w \in Workers, CommitCancel(w)
    PROVE  Inv'
<1> DEFINE e == request[w].event
<1>3. request' \in [Workers -> Request] /\ (\A v \in Workers : Holds(request'[v]))
  BY OvertakenLemma
<1>1. CASE status[e] = None
  <2>1. UNCHANGED <<rows, nextRow>> /\ status' = status
    BY <1>1 DEF CommitCancel
  <2> QED
    BY <1>3, <2>1, QuietLemma
<1>2. CASE status[e] # None
  <2>1. PICK s \in {"active", "canceled"} : status' = [status EXCEPT ![e] = s]
    BY <1>2 DEF CommitCancel
  <2>2. e \in Events
    BY DEF CommitCancel, Inv, TablesOK, Holds
  <2>3. rows' = rows /\ nextRow' = nextRow
    BY DEF CommitCancel
  <2>4. TablesOK'
    BY <1>3, <2>1, <2>3 DEF Inv, TablesOK
  <2>5. OneParticipation'
    BY <2>3 DEF Inv, OneParticipation, Active
  <2>6. NoParticipantWithoutEvent'
    <3> SUFFICES ASSUME NEW r \in RowIds, rows[r] # None
                 PROVE  status'[rows[r].event] # None
      BY <2>3 DEF NoParticipantWithoutEvent, RowIds
    <3>1. rows[r].event \in Events /\ status[rows[r].event] # None
      BY DEF Inv, TablesOK, NoParticipantWithoutEvent, Row
    <3>2. CASE rows[r].event = e
      BY <2>1, <2>2, <3>1, <3>2, NoneAssumption DEF Inv, TablesOK
    <3>3. CASE rows[r].event # e
      BY <2>1, <3>1, <3>3 DEF Inv, TablesOK
    <3> QED
      BY <3>2, <3>3
  <2> QED
    BY <2>4, <2>5, <2>6 DEF Inv
<1> QED
  BY <1>1, <1>2

\* The cascade takes the rows of the event along.
LEMMA DeleteEventInv ==
    ASSUME Inv, NEW e \in Events, DeleteEvent(e)
    PROVE  Inv'
<1>1. \A r \in RowIds : rows'[r] = IF rows[r] # None /\ rows[r].event = e
                                   THEN None ELSE rows[r]
  BY DEF DeleteEvent
<1>2. TablesOK'
  BY DEF DeleteEvent, Inv, TablesOK
<1>3. \A r \in RowIds : rows'[r] # None => rows'[r] = rows[r] /\ rows[r].event # e
  BY <1>1
<1>4. OneParticipation'
  BY <1>3 DEF Inv, OneParticipation, Active
<1>5. NoParticipantWithoutEvent'
  BY <1>3 DEF DeleteEvent, Inv, TablesOK, NoParticipantWithoutEvent, Row
<1> QED
  BY <1>2, <1>4, <1>5 DEF Inv

LEMMA NextInv == Inv /\ [Next]_vars => Inv'
<1> SUFFICES ASSUME Inv, [Next]_vars
             PROVE  Inv'
  OBVIOUS
<1>1. ASSUME NEW w \in Workers, Worker(w)
      PROVE  Inv'
  BY <1>1, StartJoinInv, FindInv, InsertInv, StartLeaveInv, UpdateInv,
     CountInv, EndedInv, StartCancelInv, CommitCancelInv DEF Worker
<1>2. ASSUME NEW e \in Events, FetchGuests(e) \/ FetchCount(e) \/ EndMoves(e)
      PROVE  Inv'
  BY <1>2, QuietLemma DEF EndMoves, FetchGuests, FetchCount, Inv, TablesOK
<1>3. CASE UNCHANGED vars
  BY <1>3, QuietLemma DEF vars, Inv, TablesOK
<1> QED
  BY <1>1, <1>2, <1>3, DeleteEventInv DEF Next

THEOREM Invariance == Spec => []Inv
  BY InitInv, NextInv, PTL DEF Spec

----------------------------------------------------------------------------
(* What clients are told, and the history of what they are not.            *)

LEMMA TypeInit == Init => TypeOK
  BY RowsAssumption DEF Init, TypeOK, Request, Idle

\* The history after a commit in an event.
LEMMA OverlapType ==
    ASSUME TypeOK, NEW w \in Workers, NEW e \in Events, NEW u \in Users,
           NEW again, Overlap(w, e, u, again)
    PROVE  missed' \subseteq Events \X Users /\ raced' \subseteq Events
  BY DEF TypeOK, Overlap

LEMMA TypeStep ==
    ASSUME Inv, Inv', TypeOK, [Next]_vars
    PROVE  TypeOK'
<1> USE DEF TypeOK
<1>1. /\ status' \in [Events -> {"active", "canceled", None}]
      /\ rows' \in [RowIds -> Row \union {None}]
      /\ request' \in [Workers -> Request]
  BY DEF Inv, TablesOK
<1>2. ASSUME NEW w \in Workers,
             StartJoin(w) \/ Find(w) \/ StartLeave(w) \/ Count(w)
               \/ StartCancel(w) \/ CommitCancel(w)
      PROVE  TypeOK'
  BY <1>1, <1>2 DEF StartJoin, Find, StartLeave, Count, StartCancel, CommitCancel
<1>3. ASSUME NEW w \in Workers, Insert(w)
      PROVE  TypeOK'
  <2>1. request[w].event \in Events /\ request[w].user \in Users
    BY <1>3 DEF Insert, Inv, TablesOK, Holds
  <2>2. nextRow' \in 1..(MaxRows + 1)
    <3>1. nextRow \in RowIds /\ (nextRow' = nextRow \/ nextRow' = nextRow + 1)
      BY <1>3 DEF Insert
    <3> QED
      BY <3>1, RowsAssumption DEF RowIds
  <2>3. missed' \subseteq Events \X Users /\ raced' \subseteq Events
    BY <1>3, <2>1, OverlapType DEF Insert
  <2>4. UNCHANGED <<over, view, counts>>
    BY <1>3 DEF Insert
  <2> QED
    BY <1>1, <2>2, <2>3, <2>4
<1>4. ASSUME NEW w \in Workers, Update(w)
      PROVE  TypeOK'
  <2>1. request[w].event \in Events /\ request[w].user \in Users
    BY <1>4 DEF Update, Inv, TablesOK, Holds
  <2>2. missed' \subseteq Events \X Users /\ raced' \subseteq Events
    BY <1>4, <2>1, OverlapType DEF Update
  <2>3. UNCHANGED <<over, nextRow, view, counts>>
    BY <1>4 DEF Update
  <2> QED
    BY <1>1, <2>2, <2>3
<1>5. ASSUME NEW w \in Workers, Publish(w)
      PROVE  TypeOK'
  <2>1. request[w].event \in Events /\ request[w].count \in Nat
    BY <1>5 DEF Publish, Inv, TablesOK, Holds, Request
  <2>2. request[w].op \in {"join", "leave"} => request[w].user \in Users
    BY <1>5 DEF Publish, Inv, TablesOK, Holds
  <2>3. CASE request[w].op = "join"
    BY <1>1, <1>5, <2>1, <2>2, <2>3 DEF Publish
  <2>4. CASE request[w].op # "join"
    BY <1>1, <1>5, <2>1, <2>4 DEF Publish
  <2> QED
    BY <2>3, <2>4
<1>6. ASSUME NEW w \in Workers, Crash(w)
      PROVE  TypeOK'
  <2>1. request[w].step \in {"committed", "counted"} =>
            request[w].event \in Events /\ request[w].user \in Users
    BY DEF Inv, TablesOK, Holds
  <2> QED
    BY <1>1, <1>6, <2>1 DEF Crash
<1>7. ASSUME NEW e \in Events, DeleteEvent(e) \/ EndMoves(e)
      PROVE  TypeOK'
  BY <1>1, <1>7 DEF DeleteEvent, EndMoves
<1>8. ASSUME NEW e \in Events, FetchGuests(e)
      PROVE  TypeOK'
  BY <1>1, <1>8 DEF FetchGuests, Participants
<1>9. ASSUME NEW e \in Events, FetchCount(e)
      PROVE  TypeOK'
  BY <1>1, <1>9, CountIsNat DEF FetchCount
<1>10. CASE UNCHANGED vars
  BY <1>10 DEF vars
<1> QED
  BY <1>2, <1>3, <1>4, <1>5, <1>6, <1>7, <1>8, <1>9, <1>10 DEF Next, Worker

\* Every variable keeps its type: in particular no id beyond the table's is
\* given out, and only counts and participants are ever published.
THEOREM TypeCorrectness == Spec => []TypeOK
  BY TypeInit, TypeStep, Invariance, PTL DEF Spec

----------------------------------------------------------------------------

\* However many joins found no participation before one of them stored it, a
\* user takes part in an event at most once (joiners_repository.py: create,
\* leave; the partial unique index of models.py).
THEOREM OneParticipationHolds == Spec => []OneParticipation
  BY Invariance, PTL DEF Inv

\* No participant outlives its event, though events are deleted between a
\* join's look at the event and its INSERT (the foreign key and its cascade).
THEOREM NoOrphanParticipants == Spec => []NoParticipantWithoutEvent
  BY Invariance, PTL DEF Inv

----------------------------------------------------------------------------
(* What clients hold.                                                      *)

\* The row a leave has found is one of this user and event, and stays that: no
\* id is given twice.
Finds(q) ==
    q.op = "leave" =>
        /\ q.row \in RowIds /\ q.row < nextRow
        /\ rows[q.row] # None => /\ rows[q.row].user = q.user
                                 /\ rows[q.row].event = q.event

KnownRows ==
    /\ \A r \in RowIds : r >= nextRow => rows[r] = None
    /\ \A w \in Workers : Finds(request[w])

LEMMA KnownInit == Init => KnownRows
  BY NoneAssumption DEF Init, KnownRows, Finds, Idle

\* A step that leaves the rows alone.
LEMMA KnownQuiet ==
    ASSUME KnownRows, UNCHANGED <<rows, nextRow>>,
           \A v \in Workers :
               \/ request'[v].op # "leave"
               \/ Finds(request'[v])
               \/ /\ request'[v].op = request[v].op
                  /\ request'[v].row = request[v].row
                  /\ request'[v].user = request[v].user
                  /\ request'[v].event = request[v].event
    PROVE  KnownRows'
  BY DEF KnownRows, Finds

LEMMA KnownStep ==
    ASSUME Inv, Inv', KnownRows, [Next]_vars
    PROVE  KnownRows'
<1>0. /\ request \in [Workers -> Request] /\ rows \in [RowIds -> Row \union {None}]
      /\ nextRow \in Nat \ {0}
      /\ \A r \in RowIds : r \in Int
  BY DEF Inv, TablesOK, RowIds
<1>1. ASSUME NEW w \in Workers, StartJoin(w) \/ StartCancel(w)
      PROVE  KnownRows'
  BY <1>0, <1>1, KnownQuiet DEF StartJoin, StartCancel, Idle
<1>2. ASSUME NEW w \in Workers, StartLeave(w)
      PROVE  KnownRows'
  <2>1. PICK e \in Events, u \in Users, r \in RowIds :
          /\ r \in ActiveRows(u, e)
          /\ request' = [request EXCEPT ![w] =
                [Idle EXCEPT !.step = "found", !.op = "leave",
                             !.event = e, !.user = u, !.row = r]]
    BY <1>2 DEF StartLeave, ActiveRows
  <2>2. r \in RowIds /\ rows[r] # None /\ rows[r].user = u /\ rows[r].event = e
    BY <2>1 DEF ActiveRows, Active
  <2>3. r < nextRow
    BY <1>0, <2>2 DEF KnownRows
  <2>4. /\ request'[w].row = r /\ request'[w].user = u /\ request'[w].event = e
        /\ \A v \in Workers : v # w => request'[v] = request[v]
    BY <1>0, <2>1 DEF Idle
  <2>5. Finds(request'[w])
    BY <2>2, <2>3, <2>4 DEF Finds
  <2>6. UNCHANGED <<rows, nextRow>>
    BY <1>2 DEF StartLeave
  <2> QED
    BY <2>4, <2>5, <2>6, KnownQuiet
<1>3. ASSUME NEW w \in Workers, Done(w) \/ Goto(w, "found") \/ Goto(w, "committed"),
             UNCHANGED <<rows, nextRow>>
      PROVE  KnownRows'
  BY <1>0, <1>3, KnownQuiet, NoneAssumption DEF Done, Goto, Idle, Request
<1>4. ASSUME NEW w \in Workers, Find(w) \/ Publish(w) \/ Crash(w)
      PROVE  KnownRows'
  BY <1>3, <1>4 DEF Find, Publish, Crash
<1>5. ASSUME NEW w \in Workers, Count(w)
      PROVE  KnownRows'
  BY <1>0, <1>5, KnownQuiet DEF Count, Request
<1>6. ASSUME NEW w \in Workers, CommitCancel(w)
      PROVE  KnownRows'
  <2>1. \A v \in Workers : \/ request'[v].op # "leave"
                           \/ request'[v] = request[v]
    BY <1>0, <1>6, NoneAssumption DEF CommitCancel, Idle, Joining, Request
  <2> QED
    BY <1>6, <2>1, KnownQuiet DEF CommitCancel
<1>7. ASSUME NEW w \in Workers, Insert(w)
      PROVE  KnownRows'
  <2>1. CASE Done(w) /\ UNCHANGED <<rows, nextRow>>
    BY <1>3, <2>1
  <2>2. CASE ConstraintsHold(request[w].user, request[w].event)
    <3>1. /\ nextRow \in RowIds /\ nextRow' = nextRow + 1
          /\ \A r \in RowIds : r # nextRow => rows'[r] = rows[r]
          /\ request'[w].op = "join"
          /\ \A v \in Workers : v # w => request'[v] = request[v]
      BY <1>0, <1>7, <2>2 DEF Insert, Request
    <3>2. ASSUME NEW v \in Workers, v # w PROVE Finds(request[v])'
      <4>1. request'[v] = request[v] /\ Finds(request[v])
        BY <3>1, <3>2 DEF KnownRows
      <4>2. ASSUME request[v].op = "leave"
            PROVE  request[v].row # nextRow /\ request[v].row < nextRow + 1
        BY <1>0, <4>1, <4>2 DEF Finds
      <4> QED
        BY <3>1, <4>1, <4>2 DEF Finds
    <3>3. Finds(request[w])'
      BY <3>1 DEF Finds
    <3>4. \A r \in RowIds : r >= nextRow' => rows'[r] = None
      <4>1. \A r \in RowIds : r >= nextRow + 1 => r >= nextRow /\ r # nextRow
        BY <1>0
      <4>2. nextRow' = nextRow + 1 /\ \A r \in RowIds : r # nextRow => rows'[r] = rows[r]
        BY <3>1
      <4> QED
        BY <4>1, <4>2 DEF KnownRows
    <3> QED
      BY <3>2, <3>3, <3>4 DEF KnownRows
  <2> QED
    BY <1>7, <2>1, <2>2 DEF Insert
<1>8. ASSUME NEW w \in Workers, Update(w)
      PROVE  KnownRows'
  <2> DEFINE i == request[w].row
  <2>1. CASE Done(w) /\ UNCHANGED rows
    BY <1>3, <1>8, <2>1 DEF Update
  <2>2. CASE rows[i] # None
    <3>1. i \in RowIds /\ nextRow' = nextRow
      BY <1>8 DEF Update, KnownRows, Finds
    <3>2. rows[i] \in Row /\ rows' = [rows EXCEPT ![i].left = TRUE]
      BY <1>0, <1>8, <2>2, <3>1 DEF Update
    <3>3. \A r \in RowIds : /\ r # i => rows'[r] = rows[r]
                            /\ r = i => /\ rows'[r].user = rows[r].user
                                        /\ rows'[r].event = rows[r].event
      BY <1>0, <3>1, <3>2 DEF Row
    <3>4. \A v \in Workers : /\ request'[v].op = request[v].op
                             /\ request'[v].row = request[v].row
                             /\ request'[v].user = request[v].user
                             /\ request'[v].event = request[v].event
      BY <1>0, <1>8, <2>2 DEF Update, Goto, Request
    <3>5. i < nextRow
      BY <1>8 DEF Update, KnownRows, Finds
    <3>6. \A r \in RowIds : r >= nextRow => r # i
      BY <1>0, <3>1, <3>5
    <3>7. \A r \in RowIds : r >= nextRow' => rows'[r] = None
      BY <3>1, <3>3, <3>6 DEF KnownRows
    <3>8. \A v \in Workers : Finds(request[v])'
      BY <2>2, <3>1, <3>3, <3>4 DEF KnownRows, Finds
    <3> QED
      BY <3>7, <3>8 DEF KnownRows
  <2> QED
    BY <1>8, <2>1, <2>2 DEF Update
<1>9. ASSUME NEW e \in Events, FetchGuests(e) \/ FetchCount(e) \/ EndMoves(e)
      PROVE  KnownRows'
  BY <1>9, KnownQuiet DEF FetchGuests, FetchCount, EndMoves
<1>10. ASSUME NEW e \in Events, DeleteEvent(e)
      PROVE  KnownRows'
  BY <1>0, <1>10 DEF DeleteEvent, KnownRows, Finds
<1>11. CASE UNCHANGED vars
  BY <1>11, KnownQuiet DEF vars
<1> QED
  BY <1>1, <1>2, <1>4, <1>5, <1>6, <1>7, <1>8, <1>9, <1>10, <1>11 DEF Next, Worker

\* A request that has changed a participation and not told it yet.
Unheard(w) == request[w].step \in {"committed", "counted"}

Changing(w, e) == Unheard(w) /\ request[w].event = e

\* The rows of the participants of an event, and whether a user has one.
RowsOf(e) == {r \in RowIds : Active(r) /\ rows[r].event = e}

TakesPart(e, u) ==
    \E r \in RowIds : Active(r) /\ rows[r].user = u /\ rows[r].event = e

\* A request that has changed this participation and not told it yet.
Telling(w, e, u) == Changing(w, e) /\ request[w].user = u

\* Of a participation that is not missed, one change at most is still to be
\* told, and it is the last; without one, the client is right.
ViewOK(e, u) ==
    status[e] # None /\ <<e, u>> \notin missed =>
        /\ \A w, v \in Workers : Telling(w, e, u) /\ Telling(v, e, u) => w = v
        /\ \A w \in Workers :
              Telling(w, e, u) => (request[w].op = "join" <=> TakesPart(e, u))
        /\ (\A w \in Workers : ~Telling(w, e, u)) => (u \in view[e] <=> TakesPart(e, u))

\* The same for the number of participants of an event that is not raced.
CountOK(e) ==
    status[e] # None /\ e \notin raced =>
        /\ \A w, v \in Workers : Changing(w, e) /\ Changing(v, e) => w = v
        /\ \A w \in Workers :
              Changing(w, e) /\ request[w].step = "counted"
                  => request[w].count = Cardinality(RowsOf(e))
        /\ (\A w \in Workers : ~Changing(w, e)) => counts[e] = Cardinality(RowsOf(e))

ClientsOK ==
    /\ \A e \in Events, u \in Users : ViewOK(e, u)
    /\ \A e \in Events : CountOK(e)

\* At first nobody takes part.
LEMMA ClientsInit == Init => ClientsOK
<1> SUFFICES ASSUME Init PROVE ClientsOK
  OBVIOUS
<1>1. \A r \in RowIds : ~Active(r)
  BY DEF Init, Active
<1>2. \A w \in Workers : ~Unheard(w)
  BY DEF Init, Idle, Unheard
<1>3. \A e \in Events : RowsOf(e) = {} /\ counts[e] = 0 /\ view[e] = {}
  BY <1>1 DEF RowsOf, Init
<1>4. \A e \in Events, u \in Users : ~TakesPart(e, u)
  BY <1>1 DEF TakesPart
<1>5. Cardinality({}) = 0
  BY FS_EmptySet
<1>6. \A e \in Events, u \in Users : ViewOK(e, u)
  BY <1>2, <1>3, <1>4 DEF ViewOK, Telling, Changing
<1>7. \A e \in Events : CountOK(e)
  BY <1>2, <1>3, <1>5 DEF CountOK, Changing
<1> QED
  BY <1>6, <1>7 DEF ClientsOK

\* What a step leaves of a participation, or of an event, stays right.
LEMMA ViewStays ==
    ASSUME NEW e \in Events, NEW u \in Users, ViewOK(e, u),
           status'[e] # None => status[e] # None,
           <<e, u>> \in missed => <<e, u>> \in missed',
           TakesPart(e, u)' <=> TakesPart(e, u),
           u \in view'[e] <=> u \in view[e],
           \A v \in Workers : /\ Telling(v, e, u)' <=> Telling(v, e, u)
                              /\ Telling(v, e, u) => request'[v].op = request[v].op
    PROVE  ViewOK(e, u)'
  BY DEF ViewOK

LEMMA CountStays ==
    ASSUME NEW e \in Events, CountOK(e),
           status'[e] # None => status[e] # None,
           e \in raced => e \in raced',
           RowsOf(e)' = RowsOf(e),
           counts'[e] = counts[e],
           \A v \in Workers : /\ Changing(v, e)' <=> Changing(v, e)
                              /\ Changing(v, e) => request'[v] = request[v]
    PROVE  CountOK(e)'
  BY DEF CountOK

\* A step that changes neither rows nor publications, and no request that has
\* something to tell.
LEMMA ClientsQuiet ==
    ASSUME ClientsOK, UNCHANGED <<rows, view, counts, missed, raced>>,
           \A e \in Events : status'[e] # None => status[e] # None,
           \A v \in Workers : /\ Unheard(v)' <=> Unheard(v)
                              /\ Unheard(v) => request'[v] = request[v]
    PROVE  ClientsOK'
<1>1. \A e \in Events, v \in Workers : Changing(v, e)' <=> Changing(v, e)
  BY DEF Changing
<1>2. \A e, u : TakesPart(e, u)' <=> TakesPart(e, u)
  BY DEF TakesPart, Active
<1>3. \A e : RowsOf(e)' = RowsOf(e)
  BY DEF RowsOf, Active
<1>4. \A e \in Events, v \in Workers : Changing(v, e) => request'[v] = request[v]
  BY DEF Changing
<1>5. \A e \in Events, u \in Users, v \in Workers : Telling(v, e, u)' <=> Telling(v, e, u)
  BY <1>1, <1>4 DEF Telling
<1>6. ASSUME NEW e \in Events, NEW u \in Users
      PROVE  ViewOK(e, u)'
  <2>1. \A v \in Workers : Telling(v, e, u) => request'[v].op = request[v].op
    BY <1>4 DEF Telling
  <2> QED
    BY <1>2, <1>5, <2>1, ViewStays DEF ClientsOK
<1>7. ASSUME NEW e \in Events
      PROVE  CountOK(e)'
  BY <1>1, <1>3, <1>4, <1>7, CountStays DEF ClientsOK
<1> QED
  BY <1>6, <1>7 DEF ClientsOK

\* A commit: either nobody else has a change of this participation to tell and
\* the one committed is the last, or it counts as missed.
LEMMA ClientsCommit ==
    ASSUME ClientsOK, NEW w \in Workers, NEW e0 \in Events, NEW u0 \in Users,
           NEW again \in BOOLEAN, Overlap(w, e0, u0, again),
           ~Unheard(w), UNCHANGED <<status, view, counts>>,
           \A v \in Workers \ {w} : request'[v] = request[v],
           request'[w].step = "committed",
           request'[w].event = e0, request'[w].user = u0,
           \A e \in Events, u \in Users :
               (e # e0 \/ u # u0) => (TakesPart(e, u)' <=> TakesPart(e, u)),
           \A e \in Events : e # e0 => RowsOf(e)' = RowsOf(e),
           ~again => (request'[w].op = "join" <=> TakesPart(e0, u0)')
    PROVE  ClientsOK'
<1>1. /\ Changing(w, e0)' /\ Telling(w, e0, u0)'
      /\ \A e \in Events : e # e0 => ~Changing(w, e)'
      /\ \A e \in Events, u \in Users : (e # e0 \/ u # u0) => ~Telling(w, e, u)'
  BY DEF Changing, Unheard, Telling
<1>2. \A e \in Events : ~Changing(w, e) /\ \A u \in Users : ~Telling(w, e, u)
  BY DEF Changing, Telling
<1>3. \A v \in Workers \ {w} :
          \A e \in Events : /\ Changing(v, e)' <=> Changing(v, e)
                            /\ \A u \in Users : Telling(v, e, u)' <=> Telling(v, e, u)
  BY DEF Changing, Telling, Unheard
<1>4. missed \subseteq missed' /\ raced \subseteq raced'
  BY DEF Overlap
<1>5. <<e0, u0>> \notin missed' =>
          ~again /\ \A v \in Workers \ {w} : ~Telling(v, e0, u0)
  BY DEF Overlap, Unpublished, Telling, Changing, Unheard
<1>6. e0 \notin raced' => \A v \in Workers \ {w} : ~Changing(v, e0)
  BY DEF Overlap, Unpublished, Changing, Unheard
<1>7. ASSUME NEW e \in Events, NEW u \in Users
      PROVE  ViewOK(e, u)'
  <2>1. CASE e = e0 /\ u = u0
    BY <1>1, <1>3, <1>5, <2>1 DEF ViewOK
  <2>2. CASE e # e0 \/ u # u0
    <3>1. \A v \in Workers : /\ Telling(v, e, u)' <=> Telling(v, e, u)
                             /\ Telling(v, e, u) => request'[v].op = request[v].op
      BY <1>1, <1>2, <1>3, <2>2
    <3> QED
      BY <1>4, <2>2, <3>1, ViewStays DEF ClientsOK
  <2> QED
    BY <2>1, <2>2
<1>8. ASSUME NEW e \in Events
      PROVE  CountOK(e)'
  <2>1. CASE e = e0
    BY <1>1, <1>3, <1>6, <2>1 DEF CountOK
  <2>2. CASE e # e0
    <3>1. \A v \in Workers : /\ Changing(v, e)' <=> Changing(v, e)
                             /\ Changing(v, e) => request'[v] = request[v]
      BY <1>1, <1>2, <1>3, <2>2
    <3> QED
      BY <1>4, <2>2, <3>1, CountStays DEF ClientsOK
  <2> QED
    BY <2>1, <2>2
<1> QED
  BY <1>7, <1>8 DEF ClientsOK

\* A request that starts, or gives up before its commit, tells nobody.
LEMMA ClientsUnheard ==
    ASSUME Inv, ClientsOK, NEW w \in Workers,
           StartJoin(w) \/ Find(w) \/ StartLeave(w) \/ StartCancel(w)
    PROVE  ClientsOK'
<1>1. request \in [Workers -> Request]
  BY DEF Inv, TablesOK
<1>2. ~Unheard(w) /\ ~Unheard(w)' /\ \A v \in Workers \ {w} : request'[v] = request[v]
  <2>1. CASE StartJoin(w)
    BY <1>1, <2>1 DEF StartJoin, Idle, Unheard
  <2>2. CASE Find(w)
    BY <1>1, <2>2 DEF Find, Goto, Done, Idle, Unheard, Request
  <2>3. CASE StartLeave(w)
    BY <1>1, <2>3 DEF StartLeave, Idle, Unheard
  <2>4. CASE StartCancel(w)
    BY <1>1, <2>4 DEF StartCancel, Idle, Unheard
  <2> QED
    BY <2>1, <2>2, <2>3, <2>4
<1>3. \A v \in Workers : /\ Unheard(v)' <=> Unheard(v)
                         /\ Unheard(v) => request'[v] = request[v]
  BY <1>2 DEF Unheard
<1>4. UNCHANGED <<status, rows, view, counts, missed, raced>>
  BY DEF StartJoin, Find, StartLeave, StartCancel
<1> QED
  BY <1>3, <1>4, ClientsQuiet

LEMMA ClientsGiveUp ==
    ASSUME Inv, ClientsOK, NEW w \in Workers, ~Unheard(w), Done(w),
           UNCHANGED <<status, rows, view, counts, missed, raced>>
    PROVE  ClientsOK'
<1>1. ~Unheard(w)' /\ \A v \in Workers \ {w} : request'[v] = request[v]
  BY DEF Inv, TablesOK, Idle, Done, Unheard
<1>2. \A v \in Workers : /\ Unheard(v)' <=> Unheard(v)
                         /\ Unheard(v) => request'[v] = request[v]
  BY <1>1 DEF Unheard
<1> QED
  BY <1>2, ClientsQuiet

LEMMA ClientsCancel ==
    ASSUME Inv, ClientsOK, NEW w \in Workers, CommitCancel(w)
    PROVE  ClientsOK'
<1>1. request \in [Workers -> Request] /\ status \in [Events -> {"active", "canceled", None}]
  BY DEF Inv, TablesOK
<1>2. \A v \in Workers : /\ Unheard(v)' <=> Unheard(v)
                         /\ Unheard(v) => request'[v] = request[v]
  BY <1>1 DEF CommitCancel, Idle, Joining, Unheard, Request
<1>3. \A e \in Events : status'[e] # None => status[e] # None
  BY <1>1 DEF CommitCancel
<1>4. UNCHANGED <<rows, view, counts, missed, raced>>
  BY DEF CommitCancel
<1> QED
  BY <1>2, <1>3, <1>4, ClientsQuiet

\* A join stores the participation that it will tell.
LEMMA ClientsInsert ==
    ASSUME Inv, KnownRows, ClientsOK, NEW w \in Workers, Insert(w)
    PROVE  ClientsOK'
<1>1. ~Unheard(w) /\ UNCHANGED <<status, view, counts>>
  BY DEF Insert, Unheard
<1>2. CASE ~ConstraintsHold(request[w].user, request[w].event)
  BY <1>1, <1>2, ClientsGiveUp DEF Insert
<1>3. CASE ConstraintsHold(request[w].user, request[w].event)
  <2>1. request \in [Workers -> Request] /\ rows \in [RowIds -> Row \union {None}]
    BY DEF Inv, TablesOK
  <2>2. request[w].event \in Events /\ request[w].user \in Users /\ nextRow \in RowIds
    BY DEF Insert, Inv, TablesOK, Holds
  <2>3. PICK e0 \in Events, u0 \in Users, i \in RowIds :
            e0 = request[w].event /\ u0 = request[w].user /\ i = nextRow
    BY <2>2
  <2> DEFINE new == [event |-> e0, user |-> u0, left |-> FALSE]
  <2>4. /\ request' = [request EXCEPT ![w].step = "committed", ![w].row = i]
        /\ rows' = [rows EXCEPT ![i] = new]
        /\ Overlap(w, e0, u0, FALSE)
    BY <1>3, <2>3 DEF Insert
  <2>5. /\ \A v \in Workers \ {w} : request'[v] = request[v]
        /\ request'[w].step = "committed" /\ request'[w].op = "join"
        /\ request'[w].event = e0 /\ request'[w].user = u0
    BY <2>1, <2>3, <2>4 DEF Insert, Request
  <2>6. rows[i] = None
    BY <2>3 DEF KnownRows, Inv, TablesOK
  <2>7. new \in Row /\ new # None
    <3>1. new \in Row
      BY DEF Row
    <3> HIDE DEF new
    <3> QED
      BY <3>1, RowAssumption
  <2>8. /\ rows'[i] = new
        /\ \A r \in RowIds : r # i => rows'[r] = rows[r]
    BY <2>1, <2>4
  <2>9. /\ Active(i)' /\ ~Active(i)
        /\ \A r \in RowIds : r # i => (Active(r)' <=> Active(r))
    BY <2>6, <2>7, <2>8 DEF Active
  <2>10. \A e \in Events, u \in Users :
            (e # e0 \/ u # u0) => (TakesPart(e, u)' <=> TakesPart(e, u))
    BY <2>8, <2>9 DEF TakesPart
  <2>11. \A e \in Events : e # e0 => RowsOf(e)' = RowsOf(e)
    BY <2>8, <2>9 DEF RowsOf
  <2>12. TakesPart(e0, u0)'
    BY <2>8, <2>9 DEF TakesPart
  <2> QED
    BY <1>1, <2>4, <2>5, <2>10, <2>11, <2>12, ClientsCommit
<1> QED
  BY <1>2, <1>3

\* A leave ends the participation it has found, or one that had already ended.
LEMMA ClientsUpdate ==
    ASSUME Inv, KnownRows, ClientsOK, NEW w \in Workers, Update(w)
    PROVE  ClientsOK'
<1>1. ~Unheard(w) /\ UNCHANGED <<status, view, counts>>
  BY DEF Update, Unheard
<1>2. CASE rows[request[w].row] = None
  BY <1>1, <1>2, ClientsGiveUp DEF Update
<1>3. CASE rows[request[w].row] # None
  <2>1. request \in [Workers -> Request] /\ rows \in [RowIds -> Row \union {None}]
    BY DEF Inv, TablesOK
  <2>2. /\ request[w].event \in Events /\ request[w].user \in Users
        /\ request[w].row \in RowIds
    BY DEF Update, Inv, TablesOK, Holds
  <2>3. PICK e0 \in Events, u0 \in Users, i \in RowIds :
            e0 = request[w].event /\ u0 = request[w].user /\ i = request[w].row
    BY <2>2
  <2>4. rows[i] # None /\ rows[i].user = u0 /\ rows[i].event = e0 /\ rows[i] \in Row
    BY <1>3, <2>1, <2>3 DEF Update, KnownRows, Finds
  <2>5. PICK again \in BOOLEAN : again = rows[i].left
    BY <2>4 DEF Row
  <2>6. /\ request' = [request EXCEPT ![w].step = "committed"]
        /\ rows' = [rows EXCEPT ![i].left = TRUE]
        /\ Overlap(w, e0, u0, again)
    BY <1>3, <2>3, <2>5 DEF Update, Goto
  <2>7. /\ \A v \in Workers \ {w} : request'[v] = request[v]
        /\ request'[w].step = "committed" /\ request'[w].op = "leave"
        /\ request'[w].event = e0 /\ request'[w].user = u0
    BY <2>1, <2>3, <2>6, NoneAssumption DEF Update, Request
  <2>8. /\ rows'[i].left
        /\ \A r \in RowIds : r # i => rows'[r] = rows[r]
    BY <2>1, <2>4, <2>6 DEF Row
  <2>9. /\ ~Active(i)'
        /\ \A r \in RowIds : r # i => (Active(r)' <=> Active(r))
    BY <2>8 DEF Active
  <2>10. \A e \in Events, u \in Users :
            (e # e0 \/ u # u0) => (TakesPart(e, u)' <=> TakesPart(e, u))
    BY <2>4, <2>8, <2>9 DEF TakesPart
  <2>11. \A e \in Events : e # e0 => RowsOf(e)' = RowsOf(e)
    BY <2>4, <2>8, <2>9 DEF RowsOf
  <2>12. ASSUME ~again PROVE ~TakesPart(e0, u0)'
    <3>1. Active(i)
      BY <2>4, <2>5, <2>12 DEF Active
    <3>2. \A r \in RowIds : Active(r) /\ rows[r].user = u0 /\ rows[r].event = e0 => r = i
      BY <2>4, <3>1 DEF Inv, OneParticipation
    <3> QED
      BY <2>8, <2>9, <3>2 DEF TakesPart
  <2> QED
    BY <1>1, <2>6, <2>7, <2>10, <2>11, <2>12, ClientsCommit
<1> QED
  BY <1>2, <1>3

\* The count is asked for after the commit, so it is the count of now.
LEMMA ClientsCount ==
    ASSUME Inv, ClientsOK, NEW w \in Workers, Count(w)
    PROVE  ClientsOK'
<1>1. request \in [Workers -> Request] /\ request[w].event \in Events
  BY DEF Count, Inv, TablesOK, Holds
<1>2. /\ \A v \in Workers \ {w} : request'[v] = request[v]
      /\ request'[w].step = "counted"
      /\ request'[w].event = request[w].event
      /\ request'[w].user = request[w].user
      /\ request'[w].op = request[w].op
      /\ request'[w].count = Cardinality(RowsOf(request[w].event))
  BY <1>1 DEF Count, Request, count_by_event, RowsOf
<1>3. UNCHANGED <<status, rows, view, counts, missed, raced>>
  BY DEF Count
<1>4. \A e \in Events, v \in Workers : Changing(v, e)' <=> Changing(v, e)
  BY <1>2 DEF Count, Changing, Unheard
<1>5. \A e \in Events, u \in Users, v \in Workers : Telling(v, e, u)' <=> Telling(v, e, u)
  BY <1>2, <1>4 DEF Telling
<1>6. \A e, u : TakesPart(e, u)' <=> TakesPart(e, u)
  BY <1>3 DEF TakesPart, Active
<1>7. \A e : RowsOf(e)' = RowsOf(e)
  BY <1>3 DEF RowsOf, Active
<1>8. ASSUME NEW e \in Events, NEW u \in Users
      PROVE  ViewOK(e, u)'
  BY <1>2, <1>3, <1>5, <1>6, ViewStays DEF ClientsOK
<1>9. ASSUME NEW e \in Events
      PROVE  CountOK(e)'
  <2>1. CountOK(e)
    BY DEF ClientsOK
  <2>2. \A v \in Workers : Changing(v, e) => v # w \/ e = request[w].event
    BY DEF Changing
  <2> QED
    BY <1>2, <1>3, <1>4, <1>7, <2>1, <2>2 DEF CountOK
<1> QED
  BY <1>8, <1>9 DEF ClientsOK

\* The one change there was to tell is told.
LEMMA ClientsPublish ==
    ASSUME Inv, TypeOK, ClientsOK, NEW w \in Workers, Publish(w)
    PROVE  ClientsOK'
<1>1. /\ request[w].event \in Events /\ request[w].user \in Users
      /\ request[w].op \in {"join", "leave"} /\ request[w].step = "counted"
  BY DEF Publish, Inv, TablesOK, Holds
<1>2. PICK e0 \in Events, u0 \in Users : e0 = request[w].event /\ u0 = request[w].user
  BY <1>1
<1>3. /\ \A v \in Workers \ {w} : request'[v] = request[v]
      /\ ~Unheard(w)'
  BY DEF Publish, Done, Inv, TablesOK, Idle, Unheard
<1>4. UNCHANGED <<status, rows, missed, raced>>
  BY DEF Publish
<1>5. Changing(w, e0) /\ Telling(w, e0, u0)
  BY <1>1, <1>2 DEF Changing, Unheard, Telling
<1>6. \A e \in Events : ~Changing(w, e)' /\ \A u \in Users : ~Telling(w, e, u)'
  BY <1>3 DEF Changing, Telling
<1>7. \A v \in Workers \ {w} :
          \A e \in Events : /\ Changing(v, e)' <=> Changing(v, e)
                            /\ \A u \in Users : Telling(v, e, u)' <=> Telling(v, e, u)
  BY <1>3 DEF Changing, Telling, Unheard
<1>8. \A e, u : TakesPart(e, u)' <=> TakesPart(e, u)
  BY <1>4 DEF TakesPart, Active
<1>9. \A e : RowsOf(e)' = RowsOf(e)
  BY <1>4 DEF RowsOf, Active
<1>10. /\ view'[e0] = IF request[w].op = "join" THEN view[e0] \union {u0}
                                                ELSE view[e0] \ {u0}
       /\ \A e \in Events : e # e0 => view'[e] = view[e]
       /\ counts'[e0] = request[w].count
       /\ \A e \in Events : e # e0 => counts'[e] = counts[e]
  BY <1>2 DEF Publish, TypeOK
<1>11. \A e \in Events, u \in Users : ~(e = e0 /\ u = u0) => ~Telling(w, e, u)
  BY <1>2 DEF Telling, Changing
<1>12. \A e \in Events : e # e0 => ~Changing(w, e)
  BY <1>2 DEF Changing
<1>13. ASSUME NEW e \in Events, NEW u \in Users
       PROVE  ViewOK(e, u)'
  <2>1. CASE e = e0 /\ u = u0
    <3>1. ViewOK(e0, u0)
      BY DEF ClientsOK
    <3>2. ASSUME status[e0] # None, <<e0, u0>> \notin missed
          PROVE  /\ \A v \in Workers \ {w} : ~Telling(v, e0, u0)
                 /\ request[w].op = "join" <=> TakesPart(e0, u0)
      BY <1>5, <3>1, <3>2 DEF ViewOK
    <3>3. u0 \in view'[e0] <=> request[w].op = "join"
      BY <1>10
    <3> QED
      BY <1>4, <1>6, <1>7, <1>8, <2>1, <3>2, <3>3 DEF ViewOK
  <2>2. CASE ~(e = e0 /\ u = u0)
    <3>1. \A v \in Workers : /\ Telling(v, e, u)' <=> Telling(v, e, u)
                             /\ Telling(v, e, u) => request'[v].op = request[v].op
      BY <1>3, <1>6, <1>7, <1>11, <2>2
    <3>2. u \in view'[e] <=> u \in view[e]
      BY <1>10, <2>2
    <3> QED
      BY <1>4, <1>8, <3>1, <3>2, ViewStays DEF ClientsOK
  <2> QED
    BY <2>1, <2>2
<1>14. ASSUME NEW e \in Events
       PROVE  CountOK(e)'
  <2>1. CASE e = e0
    <3>1. CountOK(e0)
      BY DEF ClientsOK
    <3>2. ASSUME status[e0] # None, e0 \notin raced
          PROVE  /\ \A v \in Workers \ {w} : ~Changing(v, e0)
                 /\ request[w].count = Cardinality(RowsOf(e0))
      BY <1>1, <1>5, <3>1, <3>2 DEF CountOK
    <3> QED
      BY <1>4, <1>6, <1>7, <1>9, <1>10, <2>1, <3>2 DEF CountOK
  <2>2. CASE e # e0
    <3>1. \A v \in Workers : /\ Changing(v, e)' <=> Changing(v, e)
                             /\ Changing(v, e) => request'[v] = request[v]
      BY <1>3, <1>6, <1>7, <1>12, <2>2
    <3> QED
      BY <1>4, <1>9, <1>10, <2>2, <3>1, CountStays DEF ClientsOK
  <2> QED
    BY <2>1, <2>2
<1> QED
  BY <1>13, <1>14 DEF ClientsOK

\* What a process that dies had to tell is missed.
LEMMA ClientsCrash ==
    ASSUME Inv, ClientsOK, NEW w \in Workers, Crash(w)
    PROVE  ClientsOK'
<1>1. CASE ~Unheard(w)
  BY <1>1, ClientsGiveUp DEF Crash, Unheard
<1>2. CASE Unheard(w)
  <2>1. PICK e0, u0 : e0 = request[w].event /\ u0 = request[w].user
    OBVIOUS
  <2>2. /\ \A v \in Workers \ {w} : request'[v] = request[v]
        /\ ~Unheard(w)'
    BY DEF Crash, Done, Inv, TablesOK, Idle, Unheard
  <2>3. /\ UNCHANGED <<status, rows, view, counts>>
        /\ missed' = missed \union {<<e0, u0>>}
        /\ raced' = raced \union {e0}
    BY <1>2, <2>1 DEF Crash, Unheard
  <2>4. \A e, u : TakesPart(e, u)' <=> TakesPart(e, u)
    BY <2>3 DEF TakesPart, Active
  <2>5. \A e : RowsOf(e)' = RowsOf(e)
    BY <2>3 DEF RowsOf, Active
  <2>6. ASSUME NEW e \in Events, NEW u \in Users
        PROVE  ViewOK(e, u)'
    <3>1. CASE e = e0 /\ u = u0
      BY <2>3, <3>1 DEF ViewOK
    <3>2. CASE ~(e = e0 /\ u = u0)
      <4>1. ~Telling(w, e, u) /\ ~Telling(w, e, u)'
        BY <2>1, <2>2, <3>2 DEF Telling, Changing
      <4>2. \A v \in Workers \ {w} : /\ Telling(v, e, u)' <=> Telling(v, e, u)
                                     /\ request'[v].op = request[v].op
        BY <2>2 DEF Telling, Changing, Unheard
      <4> QED
        BY <2>3, <2>4, <4>1, <4>2, ViewStays DEF ClientsOK
    <3> QED
      BY <3>1, <3>2
  <2>7. ASSUME NEW e \in Events
        PROVE  CountOK(e)'
    <3>1. CASE e = e0
      BY <2>3, <3>1 DEF CountOK
    <3>2. CASE e # e0
      <4>1. ~Changing(w, e) /\ ~Changing(w, e)'
        BY <2>1, <2>2, <3>2 DEF Changing
      <4>2. \A v \in Workers \ {w} : /\ Changing(v, e)' <=> Changing(v, e)
                                     /\ request'[v] = request[v]
        BY <2>2 DEF Changing, Unheard
      <4> QED
        BY <2>3, <2>5, <4>1, <4>2, CountStays DEF ClientsOK
    <3> QED
      BY <3>1, <3>2
  <2> QED
    BY <2>6, <2>7 DEF ClientsOK
<1> QED
  BY <1>1, <1>2

\* A client that asks for the list is right about all that is announced.
LEMMA ClientsFetchGuests ==
    ASSUME Inv, TypeOK, ClientsOK, NEW e0 \in Events, FetchGuests(e0)
    PROVE  ClientsOK'
<1>1. /\ UNCHANGED <<status, rows, request, counts, raced>>
      /\ view' = [view EXCEPT ![e0] = Participants(e0)]
      /\ missed' = {p \in missed : p[1] = e0 => ~Announced(e0, p[2])}
  BY DEF FetchGuests
<1>2. \A e \in Events, u \in Users : TakesPart(e, u)' <=> TakesPart(e, u)
  BY <1>1 DEF TakesPart, Active
<1>3. \A e : RowsOf(e)' = RowsOf(e)
  BY <1>1 DEF RowsOf, Active
<1>4. \A e \in Events, v \in Workers :
          /\ Changing(v, e)' <=> Changing(v, e)
          /\ \A u \in Users : Telling(v, e, u)' <=> Telling(v, e, u)
  BY <1>1 DEF Changing, Telling, Unheard
<1>5. \A u \in Users : u \in view'[e0] <=> TakesPart(e0, u)
  BY <1>1 DEF TypeOK, Participants, ActiveRows, TakesPart
<1>6. \A e \in Events : e # e0 => view'[e] = view[e]
  BY <1>1 DEF TypeOK
<1>7. ASSUME NEW e \in Events, NEW u \in Users
      PROVE  ViewOK(e, u)'
  <2>1. CASE e # e0
    <3>1. <<e, u>> \in missed => <<e, u>> \in missed'
      BY <1>1, <2>1
    <3> QED
      BY <1>1, <1>2, <1>4, <1>6, <2>1, <3>1, ViewStays DEF ClientsOK
  <2>2. CASE e = e0 /\ Announced(e0, u)
    <3>1. \A v \in Workers : ~Telling(v, e0, u)
      BY <2>2 DEF Announced, Telling, Changing, Unheard
    <3> QED
      BY <1>2, <1>4, <1>5, <2>2, <3>1 DEF ViewOK
  <2>3. CASE e = e0 /\ ~Announced(e0, u)
    <3>1. <<e, u>> \in missed => <<e, u>> \in missed'
      BY <1>1, <2>3
    <3>2. ViewOK(e, u)
      BY DEF ClientsOK
    <3> QED
      BY <1>1, <1>2, <1>4, <1>5, <2>3, <3>1, <3>2 DEF ViewOK
  <2> QED
    BY <2>1, <2>2, <2>3
<1>8. ASSUME NEW e \in Events
      PROVE  CountOK(e)'
  BY <1>1, <1>3, <1>4, CountStays DEF ClientsOK
<1> QED
  BY <1>7, <1>8 DEF ClientsOK

\* And so is one that asks for the number.
LEMMA ClientsFetchCount ==
    ASSUME Inv, TypeOK, ClientsOK, NEW e0 \in Events, FetchCount(e0)
    PROVE  ClientsOK'
<1>1. /\ UNCHANGED <<status, rows, request, view, missed>>
      /\ counts' = [counts EXCEPT ![e0] = count_by_event(e0)]
      /\ raced' = IF \A u \in Users : Announced(e0, u) THEN raced \ {e0} ELSE raced
  BY DEF FetchCount
<1>2. \A e \in Events, u \in Users : TakesPart(e, u)' <=> TakesPart(e, u)
  BY <1>1 DEF TakesPart, Active
<1>3. \A e : RowsOf(e)' = RowsOf(e)
  BY <1>1 DEF RowsOf, Active
<1>4. \A e \in Events, v \in Workers :
          /\ Changing(v, e)' <=> Changing(v, e)
          /\ \A u \in Users : Telling(v, e, u)' <=> Telling(v, e, u)
  BY <1>1 DEF Changing, Telling, Unheard
<1>5. /\ counts'[e0] = Cardinality(RowsOf(e0))
      /\ \A e \in Events : e # e0 => counts'[e] = counts[e]
  BY <1>1 DEF TypeOK, count_by_event, RowsOf
<1>6. ASSUME NEW e \in Events, NEW u \in Users
      PROVE  ViewOK(e, u)'
  BY <1>1, <1>2, <1>4, ViewStays DEF ClientsOK
<1>7. ASSUME NEW e \in Events
      PROVE  CountOK(e)'
  <2>1. CASE e # e0
    BY <1>1, <1>3, <1>4, <1>5, <2>1, CountStays DEF ClientsOK
  <2>2. CASE e = e0 /\ \A u \in Users : Announced(e0, u)
    <3>1. \A v \in Workers : ~Changing(v, e0)
      BY <2>2 DEF Announced, Changing, Unheard, Inv, TablesOK, Holds
    <3> QED
      BY <1>3, <1>4, <1>5, <2>2, <3>1 DEF CountOK
  <2>3. CASE e = e0 /\ ~(\A u \in Users : Announced(e0, u))
    <3>1. CountOK(e)
      BY DEF ClientsOK
    <3> QED
      BY <1>1, <1>3, <1>4, <1>5, <2>3, <3>1 DEF CountOK
  <2> QED
    BY <2>1, <2>2, <2>3
<1> QED
  BY <1>6, <1>7 DEF ClientsOK

\* Of a deleted event nothing is said; the rows of the others stay.
LEMMA ClientsDelete ==
    ASSUME Inv, ClientsOK, NEW e0 \in Events, DeleteEvent(e0)
    PROVE  ClientsOK'
<1>1. /\ UNCHANGED <<request, view, counts, missed, raced>>
      /\ status'[e0] = None
      /\ \A e \in Events : e # e0 => status'[e] = status[e]
  BY DEF DeleteEvent, Inv, TablesOK
<1>2. \A r \in RowIds : rows'[r] = IF rows[r] # None /\ rows[r].event = e0
                                   THEN None ELSE rows[r]
  BY DEF DeleteEvent
<1>3. \A e \in Events, u \in Users :
          e # e0 => (TakesPart(e, u)' <=> TakesPart(e, u))
  BY <1>2 DEF TakesPart, Active
<1>4. \A e \in Events : e # e0 => RowsOf(e)' = RowsOf(e)
  BY <1>2 DEF RowsOf, Active
<1>5. \A e \in Events, v \in Workers :
          /\ Changing(v, e)' <=> Changing(v, e)
          /\ \A u \in Users : Telling(v, e, u)' <=> Telling(v, e, u)
  BY <1>1 DEF Changing, Telling, Unheard
<1>6. ASSUME NEW e \in Events, NEW u \in Users
      PROVE  ViewOK(e, u)'
  <2>1. CASE e = e0
    BY <1>1, <2>1 DEF ViewOK
  <2>2. CASE e # e0
    BY <1>1, <1>3, <1>5, <2>2, ViewStays DEF ClientsOK
  <2> QED
    BY <2>1, <2>2
<1>7. ASSUME NEW e \in Events
      PROVE  CountOK(e)'
  <2>1. CASE e = e0
    BY <1>1, <2>1 DEF CountOK
  <2>2. CASE e # e0
    BY <1>1, <1>4, <1>5, <2>2, CountStays DEF ClientsOK
  <2> QED
    BY <2>1, <2>2
<1> QED
  BY <1>6, <1>7 DEF ClientsOK

LEMMA ClientsStep ==
    ASSUME Inv, TypeOK, KnownRows, ClientsOK, [Next]_vars
    PROVE  ClientsOK'
<1>1. ASSUME NEW w \in Workers, Worker(w)
      PROVE  ClientsOK'
  BY <1>1, ClientsUnheard, ClientsInsert, ClientsUpdate, ClientsCount,
     ClientsPublish, ClientsCrash, ClientsCancel DEF Worker
<1>2. ASSUME NEW e \in Events, EndMoves(e)
      PROVE  ClientsOK'
  BY <1>2, ClientsQuiet DEF EndMoves, Unheard
<1>3. CASE UNCHANGED vars
  BY <1>3, ClientsQuiet DEF vars, Unheard
<1> QED
  BY <1>1, <1>2, <1>3, ClientsFetchGuests, ClientsFetchCount, ClientsDelete DEF Next

\* An active row for each participant: counting one is counting the other.
LEMMA CountIsOfParticipants ==
    ASSUME Inv, NEW e \in Events
    PROVE  Cardinality(RowsOf(e)) = Cardinality(Participants(e))
<1> DEFINE S == RowsOf(e)
           T == Participants(e)
           f == [r \in S |-> rows[r].user]
<1>1. \A r \in S : /\ r \in RowIds /\ Active(r) /\ rows[r].event = e
                   /\ rows[r].user \in Users
  BY DEF RowsOf, Active, Inv, TablesOK, Row
<1>2. \A r \in S : rows[r].user \in T
  BY <1>1 DEF Participants, ActiveRows
<1>3. \A r \in S, s \in S : rows[r].user = rows[s].user => r = s
  BY <1>1 DEF Inv, OneParticipation
<1>4. \A u \in T : \E r \in S : rows[r].user = u
  BY DEF Participants, ActiveRows, RowsOf
<1>5. IsFiniteSet(S)
  <2>1. IsFiniteSet(RowIds) /\ S \subseteq RowIds
    BY FS_Interval, RowsAssumption DEF RowIds, RowsOf
  <2> QED
    BY <2>1, FS_Subset
<1> HIDE DEF S, T
<1>6. f \in Bijection(S, T)
  BY <1>2, <1>3, <1>4 DEF Bijection, Injection, Surjection, IsInjective
<1>7. ExistsBijection(S, T)
  BY <1>6 DEF ExistsBijection
<1>8. Cardinality(T) = Cardinality(S)
  BY <1>5, <1>7, FS_Bijection
<1> QED
  BY <1>8 DEF S, T

LEMMA ClientsAgree == Inv /\ ClientsOK => FollowersAgree
<1> SUFFICES ASSUME Inv, ClientsOK, NEW e \in Events, Settled(e)
             PROVE  /\ \A u \in Users : <<e, u>> \notin missed =>
                           (u \in view[e] <=> u \in Participants(e))
                    /\ e \notin raced => counts[e] = Cardinality(Participants(e))
  BY DEF FollowersAgree
<1>1. status[e] # None /\ \A w \in Workers : ~Changing(w, e)
  BY DEF Settled, Changing, Unheard
<1>2. \A u \in Users, w \in Workers : ~Telling(w, e, u)
  BY <1>1 DEF Telling
<1>3. \A u \in Users : u \in Participants(e) <=> TakesPart(e, u)
  BY DEF Participants, ActiveRows, TakesPart
<1>4. ASSUME NEW u \in Users, <<e, u>> \notin missed
      PROVE  u \in view[e] <=> u \in Participants(e)
  BY <1>1, <1>2, <1>3, <1>4 DEF ClientsOK, ViewOK
<1>5. ASSUME e \notin raced
      PROVE  counts[e] = Cardinality(Participants(e))
  BY <1>1, <1>5, CountIsOfParticipants DEF ClientsOK, CountOK
<1> QED
  BY <1>4, <1>5

LEMMA ClientsInvariance == Spec => [](Inv /\ TypeOK /\ KnownRows /\ ClientsOK)
<1>1. Init => Inv /\ TypeOK /\ KnownRows /\ ClientsOK
  BY InitInv, TypeInit, KnownInit, ClientsInit
<1>2. Inv /\ TypeOK /\ KnownRows /\ ClientsOK /\ [Next]_vars
        => (Inv /\ TypeOK /\ KnownRows /\ ClientsOK)'
  BY NextInv, TypeStep, KnownStep, ClientsStep
<1> QED
  BY <1>1, <1>2, PTL DEF Spec

\* However many requests change an event at once, a client that applies every
\* joiner.joined and joiner.left, or asks again, holds the participants and
\* their number when nothing waits to be published, but for the changes that
\* a death, a race on one participation or event, or a second leave lost
\* (join_event.py, leave_event.py: commit, then count, then publish).
THEOREM FollowersAreRight == Spec => []FollowersAgree
  BY ClientsInvariance, ClientsAgree, PTL

----------------------------------------------------------------------------
(* Joins and cancels.                                                      *)

\* A join past its check, of an event that is neither active nor gone, was
\* overtaken by a cancel.
JoinsChecked ==
    \A w \in Workers : w \in Joining =>
        \/ status[request[w].event] \in {"active", None}
        \/ request[w].overtaken

LEMMA JoinsCheckedInit == Init => JoinsChecked
  BY DEF Init, Idle, JoinsChecked, Joining

\* A step of one handler that leaves the events alone.
LEMMA JoinsCheckedMove ==
    ASSUME Inv, JoinsChecked, NEW w \in Workers, NEW q, status' = status,
           request' = [request EXCEPT ![w] = q],
           q.op = "join" /\ q.step \in {"checked", "found"} =>
               \/ status[q.event] = "active"
               \/ w \in Joining /\ q.event = request[w].event
                    /\ q.overtaken = request[w].overtaken
    PROVE  JoinsChecked'
<1> SUFFICES ASSUME NEW v \in Workers, v \in Joining'
             PROVE  \/ status[request'[v].event] \in {"active", None}
                    \/ request'[v].overtaken
  BY DEF JoinsChecked
<1>1. request'[v] = IF v = w THEN q ELSE request[v]
  BY DEF Inv, TablesOK
<1> QED
  BY <1>1 DEF JoinsChecked, Joining

LEMMA JoinsCheckedStep ==
    ASSUME Inv, JoinsChecked, [Next]_vars
    PROVE  JoinsChecked'
<1>1. ASSUME NEW w \in Workers, StartJoin(w)
      PROVE  JoinsChecked'
  <2>1. PICK e \in Events, u \in Users :
            /\ status[e] = "active"
            /\ request' = [request EXCEPT ![w] =
                  [Idle EXCEPT !.step = "checked", !.op = "join", !.event = e, !.user = u]]
    BY <1>1 DEF StartJoin
  <2> DEFINE q == [Idle EXCEPT !.step = "checked", !.op = "join", !.event = e, !.user = u]
  <2>2. q.event = e
    BY DEF Idle
  <2>3. status' = status /\ request' = [request EXCEPT ![w] = q]
    BY <1>1, <2>1 DEF StartJoin
  <2> HIDE DEF q
  <2> QED
    BY <2>1, <2>2, <2>3, JoinsCheckedMove
<1>2. ASSUME NEW w \in Workers, Find(w)
      PROVE  JoinsChecked'
  <2>1. CASE Done(w)
    BY <1>2, <2>1, JoinsCheckedMove DEF Find, Done, Idle
  <2>2. CASE Goto(w, "found")
    <3> DEFINE q == [request[w] EXCEPT !.step = "found"]
    <3>1. request' = [request EXCEPT ![w] = q] /\ status' = status /\ w \in Joining
      BY <1>2, <2>2 DEF Find, Goto, Joining
    <3>2. q.event = request[w].event /\ q.overtaken = request[w].overtaken
      BY DEF Inv, TablesOK, Request
    <3> QED
      BY <3>1, <3>2, JoinsCheckedMove
  <2> QED
    BY <1>2, <2>1, <2>2 DEF Find
<1>3. ASSUME NEW w \in Workers,
             Insert(w) \/ StartLeave(w) \/ Update(w) \/ Count(w) \/ Publish(w)
               \/ Crash(w) \/ StartCancel(w)
      PROVE  JoinsChecked'
  <2>1. request[w] \in Request /\ request \in [Workers -> Request] /\ "join" # None
    BY NoneAssumption DEF Inv, TablesOK
  <2>2. \A v \in Workers : v # w => request'[v] = request[v]
    BY <1>3, <2>1 DEF Insert, StartLeave, Update, Count, Publish, Crash, StartCancel,
       Done, Goto
  <2>3. request'[w].op # "join" \/ request'[w].step \notin {"checked", "found"}
    <3>1. CASE Insert(w)
      <4>1. request'[w] = Idle \/ request'[w].step = "committed"
        BY <2>1, <3>1 DEF Insert, Done, Request
      <4> QED
        BY <2>1, <4>1 DEF Idle
    <3>2. CASE Update(w)
      <4>1. request'[w] = Idle \/ request'[w].step = "committed"
        BY <2>1, <3>2 DEF Update, Done, Goto, Request
      <4> QED
        BY <2>1, <4>1 DEF Idle
    <3>3. CASE Count(w)
      BY <2>1, <3>3 DEF Count, Request
    <3>4. CASE StartLeave(w)
      BY <2>1, <3>4 DEF StartLeave, Idle
    <3>5. CASE Publish(w) \/ Crash(w)
      BY <2>1, <3>5 DEF Publish, Crash, Done, Idle
    <3>6. CASE StartCancel(w)
      BY <2>1, <3>6 DEF StartCancel, Idle
    <3> QED
      BY <1>3, <3>1, <3>2, <3>3, <3>4, <3>5, <3>6
  <2>4. status' = status
    BY <1>3 DEF Insert, StartLeave, Update, Count, Publish, Crash, StartCancel
  <2>5. ASSUME NEW v \in Workers, v \in Joining'
        PROVE  v \in Joining /\ request'[v] = request[v]
    BY <2>2, <2>3, <2>5 DEF Joining
  <2> QED
    BY <2>4, <2>5 DEF JoinsChecked
<1>4. ASSUME NEW w \in Workers, CommitCancel(w)
      PROVE  JoinsChecked'
  <2> SUFFICES ASSUME NEW v \in Workers, v \in Joining'
               PROVE  \/ status'[request'[v].event] \in {"active", None}
                      \/ request'[v].overtaken
    BY DEF JoinsChecked
  <2> DEFINE e == request[w].event
             canceled == status[e] # None /\ request[w].op = "cancel"
  <2>1. v # w
    BY <1>4 DEF CommitCancel, Joining, Idle
  <2>2. request'[v] = IF canceled /\ v \in Joining /\ request[v].event = e
                      THEN [request[v] EXCEPT !.overtaken = TRUE]
                      ELSE request[v]
    BY <1>4, <2>1 DEF CommitCancel
  <2>3. request[v] \in Request /\ e \in Events /\ status \in [Events -> {"active", "canceled", None}]
    BY <1>4 DEF CommitCancel, Inv, TablesOK, Holds
  <2>4. CASE canceled /\ v \in Joining /\ request[v].event = e
    BY <2>2, <2>3, <2>4 DEF Request
  <2>5. CASE ~(canceled /\ v \in Joining /\ request[v].event = e)
    <3>1. request'[v] = request[v] /\ v \in Joining
      BY <2>2, <2>5 DEF Joining
    <3>2. \/ status[request[v].event] \in {"active", None}
          \/ request[v].overtaken
      BY <3>1 DEF JoinsChecked
    <3>3. CASE request[v].event # e
      BY <1>4, <2>3, <3>1, <3>2, <3>3 DEF CommitCancel
    <3>4. CASE request[v].event = e
      <4>1. status' = status \/ status'[e] = "active"
        BY <1>4, <2>3, <2>5, <3>1, <3>4 DEF CommitCancel
      <4> QED
        BY <3>1, <3>2, <3>4, <4>1
    <3> QED
      BY <3>3, <3>4
  <2> QED
    BY <2>4, <2>5
<1>5. ASSUME NEW e \in Events, FetchGuests(e) \/ FetchCount(e) \/ EndMoves(e)
      PROVE  JoinsChecked'
  BY <1>5 DEF FetchGuests, FetchCount, EndMoves, JoinsChecked, Joining
<1>6. ASSUME NEW e \in Events, DeleteEvent(e)
      PROVE  JoinsChecked'
  <2>1. request' = request /\ status' = [status EXCEPT ![e] = None]
    BY <1>6 DEF DeleteEvent
  <2> SUFFICES ASSUME NEW v \in Workers, v \in Joining
               PROVE  \/ status'[request[v].event] \in {"active", None}
                      \/ request[v].overtaken
    BY <2>1 DEF JoinsChecked, Joining
  <2>2. request[v].event \in Events
    BY DEF Inv, TablesOK, Holds, Joining
  <2> QED
    BY <2>1, <2>2 DEF JoinsChecked, Inv, TablesOK
<1>7. CASE UNCHANGED vars
  BY <1>7 DEF vars, JoinsChecked, Joining
<1> QED
  BY <1>1, <1>2, <1>3, <1>4, <1>5, <1>6, <1>7 DEF Next, Worker

\* A new row is that of an insert, whose event is there.
LEMMA NewRows ==
    ASSUME Inv, [Next]_vars, NEW r \in RowIds, rows[r] = None, rows'[r] # None
    PROVE  \E w \in Workers :
             /\ Insert(w) /\ w \in Joining
             /\ rows'[r].event = request[w].event
             /\ status[request[w].event] # None
             /\ request'[w] # request[w]
<1>1. PICK w \in Workers : Insert(w) \/ Update(w)
  <2>1. ASSUME NEW w \in Workers, Worker(w), ~Insert(w), ~Update(w)
        PROVE  rows' = rows
    BY <2>1 DEF Worker, StartJoin, Find, StartLeave, Count, Publish, Crash, StartCancel,
       CommitCancel
  <2>2. ASSUME NEW e \in Events,
               FetchGuests(e) \/ FetchCount(e) \/ DeleteEvent(e) \/ EndMoves(e)
        PROVE  rows'[r] = None
    BY <2>2 DEF FetchGuests, FetchCount, DeleteEvent, EndMoves
  <2> QED
    BY <2>1, <2>2 DEF Next, vars
<1>2. rows \in [RowIds -> Row \union {None}] /\ request[w] \in Request
  BY DEF Inv, TablesOK
<1>3. ~Update(w)
  BY <1>2 DEF Update
<1>4. Insert(w) /\ w \in Joining
  BY <1>1, <1>3 DEF Insert, Joining
<1> DEFINE u == request[w].user
           e == request[w].event
<1>5. CASE ConstraintsHold(u, e)
  <2>1. rows' = [rows EXCEPT ![nextRow] = [event |-> e, user |-> u, left |-> FALSE]]
    BY <1>4, <1>5 DEF Insert
  <2>2. rows'[r].event = e
    BY <1>2, <2>1
  <2>3. request'[w].step = "committed" /\ request[w].step = "found"
    BY <1>2, <1>4, <1>5 DEF Insert, Inv, TablesOK, Request
  <2> QED
    BY <1>4, <1>5, <2>2, <2>3 DEF ConstraintsHold
<1>6. CASE ~ConstraintsHold(u, e)
  BY <1>4, <1>6 DEF Insert
<1> QED
  BY <1>5, <1>6

LEMMA CanceledStep ==
    ASSUME Inv, JoinsChecked, [Next]_vars
    PROVE  \A r \in RowIds :
             (rows[r] = None /\ rows'[r] # None) =>
                 \/ status[rows'[r].event] = "active"
                 \/ OvertakenJoin(rows'[r].event)
<1> SUFFICES ASSUME NEW r \in RowIds, rows[r] = None, rows'[r] # None
             PROVE  \/ status[rows'[r].event] = "active"
                    \/ OvertakenJoin(rows'[r].event)
  OBVIOUS
<1>1. PICK w \in Workers :
        /\ w \in Joining
        /\ rows'[r].event = request[w].event
        /\ status[request[w].event] # None
        /\ request'[w] # request[w]
  BY NewRows
<1>2. request[w].op = "join"
  BY <1>1 DEF Joining
<1> QED
  BY <1>1, <1>2 DEF JoinsChecked, OvertakenJoin

\* Whatever comes between the check of a join and its INSERT, a participant of
\* an event that is not active is stored only by a join that a cancel overtook
\* (join_event.py; joiners_repository.py: create).
THEOREM OnlyOvertakenJoinCanceled == Spec => CanceledNotJoined
<1>1. JoinsChecked /\ Inv /\ [Next]_vars => JoinsChecked'
  BY JoinsCheckedStep
<1>2. JoinsChecked /\ Inv /\ [Next]_vars =>
          [\A r \in RowIds :
             (rows[r] = None /\ rows'[r] # None) =>
                 \/ status[rows'[r].event] = "active"
                 \/ OvertakenJoin(rows'[r].event)]_vars
  BY CanceledStep
<1> QED
  BY <1>1, <1>2, JoinsCheckedInit, Invariance, PTL DEF Spec, CanceledNotJoined

============================================================================
