SPECIFICATION FairSpec
CONSTANTS
    SecondsPerMinute = 4
    NoBuffer = NoBuffer
    NoOverride = NoOverride
    NoCalendar = NoCalendar
    NoRow = NoRow
    NoICalUID = NoICalUID
    r1 = r1
    r2 = r2
    w1 = w1
    w2 = w2
    meet = meet
    both = both
    cal = cal
    Requests = {r1, r2}
    Workers = {w1}
    WorkerOf <- MCOneWorker
    EventTypes = {both}
    Contacts <- MCContactsOfBoth
    Notifies = {both}
    Calendars = {cal}
    Schedules <- MCTwoSchedules
    Engagements = {}
    Availabilities <- MCOpen
    Outbounds = {cal, NoCalendar}
    ZoomSettings = {TRUE, FALSE}
    Now = 4
INVARIANTS TypeOK ConfirmedIsComplete RefusedLeavesNothing EffectsHaveRows LifecycleInv
PROPERTIES RowsOnlyAdvance EveryRequestEnds
CHECK_DEADLOCK FALSE
