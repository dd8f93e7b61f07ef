SPECIFICATION Spec
CONSTANTS
    None = None
    EventDeletionDelay = 1
    NoDateDeletionDelay = 1
    CanceledDeletionDelay = 1
    Workers = {w1}
    Users = {alice}
    Schedules = {1, 2}
    Durations = {1}
    MaxEvents = 1
    MaxTime = 6
    RequestHorizon = 3
PROPERTY OnlyDueEventsDeleted
