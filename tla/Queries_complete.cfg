SPECIFICATION Spec
CONSTANTS
    None = None
    Days = {0, 1}
    DeletionDates = {86399, 86400}
    Places = {hall, park}
    PageSize = 1
    MaxEvents = 3
    FirstTime = 86399
    MaxTime = 86399
INVARIANT ListingComplete
