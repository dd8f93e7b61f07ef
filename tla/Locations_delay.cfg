SPECIFICATION Spec
CONSTANTS
    None = None
    Workers = {w1}
    Names = {name}
    Degrees = {north}
    CreationDates = {}
    JobDelay = 1
    UnusedDelay = 1
    MaxLocations = 1
    MaxEvents = 1
    MaxTime = 3
    RequestHorizon = 3
PROPERTY DelayHonoured
