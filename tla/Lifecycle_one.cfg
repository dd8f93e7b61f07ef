SPECIFICATION FairSpec
CONSTANTS
    None = None
    EventDeletionDelay = 2
    NoDateDeletionDelay = 1
    CanceledDeletionDelay = 1
    Workers = {w1}
    Users = {alice, bob}
    Schedules = {1, 3}
    Durations = {1}
    MaxEvents = 1
    MaxTime = 6
    RequestHorizon = 3
INVARIANTS TypeOK ScheduleConsistent PublishedIsStored
PROPERTIES OnlyOrganizerChanges CanceledOnlyReactivated DueEventLeaves TableDrains
