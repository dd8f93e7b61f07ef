SPECIFICATION FairSpec
CONSTANTS
    None = None
    Days = {0, 1}
    DeletionDates = {86399, 86400}
    Places = {hall, park}
    PageSize = 2
    MaxEvents = 3
    FirstTime = 86399
    MaxTime = 86400
INVARIANTS TypeOK NoEventTwice MissesAtMostDeleted FailsOnlyAfterChange PageAddsUp CalendarDaysInclusive DeletionReadingsAgree
PROPERTY QueryEnds
