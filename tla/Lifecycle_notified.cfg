SPECIFICATION FairSpec
CONSTANTS
    None = None
    EventDeletionDelay = 2
    NoDateDeletionDelay = 1
    CanceledDeletionDelay = 1
    Workers = {w1}
    Users = {alice}
    Schedules = {1, 2}
    Durations = {1}
    MaxEvents = 1
    MaxTime = 5
    RequestHorizon = 2
PROPERTY DeletionNotified
