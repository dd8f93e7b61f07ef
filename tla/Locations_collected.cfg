SPECIFICATION FairSpec
CONSTANTS
    None = None
    Workers = {w1}
    Names = {house, hall}
    Degrees = {}
    CreationDates = {0, 2}
    JobDelay = 0
    UnusedDelay = 1
    MaxLocations = 2
    MaxEvents = 1
    MaxTime = 3
    RequestHorizon = 1
INVARIANTS TypeOK NoEventWithoutLocation PublishedIsStored
PROPERTY UnusedCollected
