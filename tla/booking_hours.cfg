SPECIFICATION Spec
CONSTANTS
    SecondsPerMinute = 4
    NoBuffer = NoBuffer
    NoOverride = NoOverride
    NoCalendar = NoCalendar
    NoRow = NoRow
    NoICalUID = NoICalUID
    r1 = r1
    r2 = r2
    w1 = w1
    w2 = w2
    meet = meet
    both = both
    cal = cal
    Requests = {r1}
    Workers = {w1}
    WorkerOf <- MCWorkerOfOne
    EventTypes = {meet}
    Contacts <- MCNoContacts
    Notifies = {}
    Calendars = {cal}
    Schedules <- MCEdgeSchedules
    Engagements <- MCEngagements
    Availabilities <- MCAvailabilities
    Outbounds = {cal}
    ZoomSettings = {TRUE}
    Now = 4
INVARIANT BookedWithinHours
CHECK_DEADLOCK FALSE
