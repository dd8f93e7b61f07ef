--------------------------- MODULE EventSelection ---------------------------
(***************************************************************************)
(* Which events a query selects: EventFilters and the conditions the       *)
(* repository makes of it, and the moments at which an event is visible,   *)
(* non-expired, expired, and due for deletion.                             *)
(*                                                                         *)
(* Time is in seconds, day 0 begins at 0, all in UTC as in the code.  The  *)
(* filters on title and location are conditions on one column each and     *)
(* left out.  A comparison with NULL selects nothing.                      *)
(***************************************************************************)
EXTENDS Integers

CONSTANT None     \* NULL

ASSUME NoneAssumption == None \notin Int

DayLength == 86400

Day(t) == t \div DayLength

EventStatus == {"active", "canceled"}

Filters(scheduled_from, scheduled_until, deletion_from, deletion_until) ==
    [statuses |-> {},
     scheduled_from |-> scheduled_from, scheduled_until |-> scheduled_until,
     deletion_scheduled_from |-> deletion_from, deletion_scheduled_until |-> deletion_until]

NoFilters == Filters(None, None, None, None)

\* The first check of from_calendar_dates.
AcceptsDates(from_date, to_date) ==
    from_date # None /\ to_date # None => from_date <= to_date

\* Mutated form of from_calendar_dates: the last day is left out.
FromDatesExclusive(from_date, to_date) ==
    Filters(IF from_date = None THEN None ELSE from_date * DayLength,
            IF to_date = None THEN None ELSE to_date * DayLength, None, None)

\* Half-open boundaries of inclusive dates.
from_calendar_dates(from_date, to_date) ==
    Filters(IF from_date = None THEN None ELSE from_date * DayLength,
            IF to_date = None THEN None ELSE (to_date + 1) * DayLength, None, None)

Increasing(from, until) == from # None /\ until # None => from < until

validate_date_range(filters) ==
    /\ Increasing(filters.scheduled_from, filters.scheduled_until)
    /\ Increasing(filters.deletion_scheduled_from, filters.deletion_scheduled_until)

\* No statuses, no condition.
apply_status_filter(filters, row) ==
    filters.statuses # {} => row.status \in filters.statuses

apply_schedule_filter(filters, row) ==
    /\ filters.scheduled_from # None =>
           row.scheduled_at # None /\ row.scheduled_at >= filters.scheduled_from
    /\ filters.scheduled_until # None =>
           row.scheduled_at # None /\ row.scheduled_at < filters.scheduled_until

apply_deletion_filter(filters, row) ==
    /\ filters.deletion_scheduled_from # None =>
           row.deletion_scheduled_at # None
             /\ row.deletion_scheduled_at >= filters.deletion_scheduled_from
    /\ filters.deletion_scheduled_until # None =>
           row.deletion_scheduled_at # None
             /\ row.deletion_scheduled_at < filters.deletion_scheduled_until

\* The filters get_non_expired_events puts in the place of those of its query.
non_expired(filters, now) ==
    IF filters.deletion_scheduled_from = None /\ filters.deletion_scheduled_until = None
    THEN [filters EXCEPT !.deletion_scheduled_from = now]
    ELSE filters

\* Mutated form of expired: canceled events are expired too.
ExpiredOfAnyStatus(now) == [NoFilters EXCEPT !.deletion_scheduled_until = now]

\* Those of get_expired_active_events.
expired(now) ==
    [NoFilters EXCEPT !.statuses = {"active"}, !.deletion_scheduled_until = now]

\* The condition of get_visible_events.
visible(row, now) ==
    row.deletion_scheduled_at = None \/ row.deletion_scheduled_at > now

\* The condition of delete_due.
due(row, now) ==
    row.deletion_scheduled_at # None /\ row.deletion_scheduled_at <= now

----------------------------------------------------------------------------
(* What the selections promise.                                            *)

\* The time lies within the days from from_date to to_date, both included;
\* without any date, events without a time do too.
OfDays(scheduled_at, from_date, to_date) ==
    from_date # None \/ to_date # None =>
        /\ scheduled_at # None
        /\ from_date # None => from_date <= Day(scheduled_at)
        /\ to_date # None => Day(scheduled_at) <= to_date

\* Dates that are accepted give boundaries that are accepted, and these select
\* the events of the days.
Inclusive(from_date, to_date, scheduled_at) ==
    AcceptsDates(from_date, to_date) =>
        LET filters == from_calendar_dates(from_date, to_date) IN
        /\ validate_date_range(filters)
        /\ apply_schedule_filter(filters, [scheduled_at |-> scheduled_at])
             <=> OfDays(scheduled_at, from_date, to_date)

\* What both filters leave.
Selected(filters, row) ==
    apply_status_filter(filters, row) /\ apply_deletion_filter(filters, row)

\* The four readings at time t of an event with this status and deletion date d.
ReadingsAgree(status, d, t) ==
    LET row == [status |-> status, deletion_scheduled_at |-> d]
        nonExpired == Selected(non_expired(NoFilters, t), row)
        isExpired == Selected(expired(t), row)
    IN /\ visible(row, t) <=> ~due(row, t)
       /\ d # None /\ status = "active" => (nonExpired <=> ~isExpired)
       /\ d # None /\ visible(row, t) => nonExpired
       /\ nonExpired /\ due(row, t) => d = t
       /\ isExpired => status = "active" /\ due(row, t) /\ d # t
       /\ non_expired(expired(t), t) = expired(t)

============================================================================
