SPECIFICATION Spec
CONSTANTS
    None = None
    Workers = {w1, w2}
    Names = {name}
    Degrees = {north, south}
    CreationDates = {}
    JobDelay = 0
    UnusedDelay = 1
    MaxLocations = 1
    MaxEvents = 0
    MaxTime = 1
    RequestHorizon = 1
INVARIANTS EveryLocationDescribed
SYMMETRY Symmetry
