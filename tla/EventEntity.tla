---------------------------- MODULE EventEntity ----------------------------
(***************************************************************************)
(* The Event entity (domain/entities/event.py) and the date check of       *)
(* verify_event_dates.py, as operators on event records.                   *)
(*                                                                         *)
(* Time is a natural number of minutes.  Title and location are left out:  *)
(* no operation of the entity depends on them.  The organizer stands for   *)
(* the pair organizer_id / organizer: SimpleNameAuthentication resolves    *)
(* one name to one user id.                                                *)
(***************************************************************************)
EXTENDS Integers

CONSTANTS
    None,                   \* Python's None, the SQL NULL
    EventDeletionDelay,     \* EVENT_DELETION_DELAY_MINUTES
    NoDateDeletionDelay,    \* EVENT_DELETION_DELAY_WHEN_NO_DATE_IN_MINUTES
    CanceledDeletionDelay   \* CANCELED_EVENT_DELETION_DELAY_MINUTES

\* settings.py reads the three delays with read_non_negative_int.
ASSUME DelaysAssumption ==
    /\ EventDeletionDelay \in Nat
    /\ NoDateDeletionDelay \in Nat
    /\ CanceledDeletionDelay \in Nat

ASSUME NoneAssumption == None \notin Int

----------------------------------------------------------------------------

EventStatus == {"active", "canceled"}

OptionalTime == Nat \union {None}

Event(Users) ==
    [organizer             : Users,
     scheduled_at          : OptionalTime,
     duration_in_minutes   : Nat \ {0},
     status                : EventStatus,
     canceled_at           : OptionalTime,
     deletion_scheduled_at : OptionalTime]

\* What Event(...) accepts, and what the CHECK constraints of the table
\* events accept: a cancellation time exactly for canceled events.
validate_state(e) == (e.status = "canceled") <=> (e.canceled_at # None)

event_end(e) == e.scheduled_at + e.duration_in_minutes

\* The deletion date of a dated event follows its end; that of an undated
\* one follows the time of the call.
schedule_deletion_after_event(e, now) ==
    [e EXCEPT !.deletion_scheduled_at =
        IF e.scheduled_at # None
        THEN event_end(e) + EventDeletionDelay
        ELSE now + NoDateDeletionDelay]

Earliest(s, t) == IF t < s THEN t ELSE s

\* Mutated form of cancel: the delay is taken off instead of added.
CancelBackwards(e, now) ==
    [e EXCEPT !.status = "canceled", !.canceled_at = now,
              !.deletion_scheduled_at = now - CanceledDeletionDelay]

\* Defined for active events: cancel raises on a canceled one.
cancel(e, now) ==
    LET cancellation == now + CanceledDeletionDelay IN
    [e EXCEPT !.status = "canceled",
              !.canceled_at = now,
              !.deletion_scheduled_at =
                  IF @ = None THEN cancellation ELSE Earliest(@, cancellation)]

\* Mutated forms of uncancel: the cancellation's deletion date stays, or no
\* deletion is scheduled at all.
UncancelKeepingDeletion(e, now) ==
    [e EXCEPT !.status = "active", !.canceled_at = None]

UncancelUnscheduled(e, now) ==
    [e EXCEPT !.status = "active", !.canceled_at = None,
              !.deletion_scheduled_at = None]

\* Defined for canceled events: uncancel raises on an active one.
uncancel(e, now) ==
    schedule_deletion_after_event(
        [e EXCEPT !.status = "active", !.canceled_at = None], now)

verify_event_dates_consistency(e, now) ==
    /\ e.deletion_scheduled_at # None
    /\ e.scheduled_at # None => event_end(e) >= now
    /\ e.deletion_scheduled_at >= now

----------------------------------------------------------------------------

\* The event a create request asks for, before its deletion is scheduled.
NewEvent(organizer, scheduled_at, duration) ==
    [organizer             |-> organizer,
     scheduled_at          |-> scheduled_at,
     duration_in_minutes   |-> duration,
     status                |-> "active",
     canceled_at           |-> None,
     deletion_scheduled_at |-> None]

\* delete_due's condition on a row.
IsDue(e, now) == e.deletion_scheduled_at # None /\ e.deletion_scheduled_at <= now

============================================================================
