------------------------ MODULE EventSelectionProofs ------------------------
(***************************************************************************)
(* The date filters select what their names say, for all days and times.   *)
(***************************************************************************)
EXTENDS EventSelection, TLAPS

\* A time lies between the midnights of its day (datetime.combine with
\* time.min in from_calendar_dates).
LEMMA MidnightsOfADay ==
    ASSUME NEW t \in Int
    PROVE  /\ Day(t) \in Int
           /\ Day(t) * DayLength <= t
           /\ t < (Day(t) + 1) * DayLength
BY SMT DEF Day, DayLength

\* The midnight a day begins with is a boundary of times as the day is one of
\* days (scheduled_from >= and scheduled_until < in _apply_schedule_filter).
LEMMA MidnightSeparates ==
    ASSUME NEW t \in Int, NEW d \in Int
    PROVE  /\ t >= d * DayLength <=> d <= Day(t)
           /\ t < (d + 1) * DayLength <=> Day(t) <= d
<1> DEFINE k == Day(t)
<1>1. /\ k \in Int
      /\ k * 86400 <= t
      /\ t < (k + 1) * 86400
  BY MidnightsOfADay DEF DayLength
<1>2. /\ t >= d * 86400 <=> d <= k
      /\ t < (d + 1) * 86400 <=> k <= d
  <2> HIDE DEF k
  <2> QED
    BY <1>1, SMT
<1> QED
  BY <1>2 DEF DayLength

\* Accepted dates give accepted boundaries, and these select the events of the
\* days from the first to the last, both included (from_calendar_dates,
\* validate_date_range, _apply_schedule_filter).
LEMMA DatesAreInclusive ==
    ASSUME NEW from_date \in Int \union {None}, NEW to_date \in Int \union {None},
           NEW t \in Int \union {None}
    PROVE  Inclusive(from_date, to_date, t)
<1> SUFFICES ASSUME AcceptsDates(from_date, to_date)
             PROVE  LET filters == from_calendar_dates(from_date, to_date) IN
                    /\ validate_date_range(filters)
                    /\ apply_schedule_filter(filters, [scheduled_at |-> t])
                         <=> OfDays(t, from_date, to_date)
  BY DEF Inclusive
<1> DEFINE filters == from_calendar_dates(from_date, to_date)
<1>2. /\ filters.scheduled_from =
             IF from_date = None THEN None ELSE from_date * DayLength
      /\ filters.scheduled_until =
             IF to_date = None THEN None ELSE (to_date + 1) * DayLength
      /\ filters.deletion_scheduled_from = None
      /\ filters.deletion_scheduled_until = None
  BY DEF from_calendar_dates, Filters
<1>3. /\ \A d \in Int : d * DayLength \in Int /\ (d + 1) * DayLength \in Int
      /\ \A d \in Int : d * DayLength # None /\ (d + 1) * DayLength # None
  BY NoneAssumption DEF DayLength
<1>4. validate_date_range(filters)
  <2>1. CASE from_date # None /\ to_date # None
    <3>1. from_date <= to_date
      BY <2>1 DEF AcceptsDates
    <3>2. from_date * DayLength < (to_date + 1) * DayLength
      BY <2>1, <3>1, SMT DEF DayLength
    <3> QED
      BY <1>2, <2>1, <3>2 DEF validate_date_range, Increasing
  <2>2. CASE from_date = None \/ to_date = None
    BY <1>2, <2>2 DEF validate_date_range, Increasing
  <2> QED
    BY <2>1, <2>2
<1>5. apply_schedule_filter(filters, [scheduled_at |-> t])
          <=> OfDays(t, from_date, to_date)
  <2>1. [scheduled_at |-> t].scheduled_at = t
    OBVIOUS
  <2>2. from_date # None /\ t # None => (t >= from_date * DayLength <=> from_date <= Day(t))
    BY MidnightSeparates
  <2>3. to_date # None /\ t # None => (t < (to_date + 1) * DayLength <=> Day(t) <= to_date)
    BY MidnightSeparates
  <2>4. apply_schedule_filter(filters, [scheduled_at |-> t])
          <=> /\ from_date # None => t # None /\ t >= from_date * DayLength
              /\ to_date # None => t # None /\ t < (to_date + 1) * DayLength
    BY <1>2, <1>3, <2>1 DEF apply_schedule_filter
  <2> QED
    BY <2>2, <2>3, <2>4 DEF OfDays
<1> QED
  BY <1>4, <1>5

\* Visible, due, expired and non-expired are consistent readings of the status
\* and the deletion date at every moment (get_visible_events, delete_due,
\* get_non_expired_events, get_expired_active_events).
LEMMA ReadingsOfADate ==
    ASSUME NEW status \in EventStatus, NEW d \in Int \union {None}, NEW t \in Int
    PROVE  ReadingsAgree(status, d, t)
<1> DEFINE row == [status |-> status, deletion_scheduled_at |-> d]
           nonExpired == Selected(non_expired(NoFilters, t), row)
           isExpired == Selected(expired(t), row)
<1>1. t # None
  BY NoneAssumption
<1>2. /\ non_expired(NoFilters, t).statuses = {}
      /\ non_expired(NoFilters, t).deletion_scheduled_from = t
      /\ non_expired(NoFilters, t).deletion_scheduled_until = None
  BY DEF non_expired, NoFilters, Filters
<1>3. /\ expired(t).statuses = {"active"}
      /\ expired(t).deletion_scheduled_from = None
      /\ expired(t).deletion_scheduled_until = t
  BY DEF expired, NoFilters, Filters
<1>4. nonExpired <=> d # None /\ d >= t
  BY <1>1, <1>2 DEF Selected, apply_status_filter, apply_deletion_filter
<1>5. isExpired <=> status = "active" /\ d # None /\ d < t
  BY <1>1, <1>3 DEF Selected, apply_status_filter, apply_deletion_filter
<1>6. /\ visible(row, t) <=> d = None \/ d > t
      /\ due(row, t) <=> d # None /\ d <= t
  BY DEF visible, due
<1>7. non_expired(expired(t), t) = expired(t)
  BY <1>1, <1>3 DEF non_expired
<1>8. /\ visible(row, t) <=> ~due(row, t)
      /\ d # None /\ status = "active" => (nonExpired <=> ~isExpired)
      /\ d # None /\ visible(row, t) => nonExpired
      /\ nonExpired /\ due(row, t) => d = t
      /\ isExpired => status = "active" /\ due(row, t) /\ d # t
  BY <1>4, <1>5, <1>6
<1> QED
  BY <1>7, <1>8 DEF ReadingsAgree

============================================================================
