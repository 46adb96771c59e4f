SPECIFICATION Spec
CONSTANTS
    SecondsPerMinute = 4
    NoBuffer = NoBuffer
    NoOverride = NoOverride
    NoCalendar = NoCalendar
    NoRow = NoRow
    NoICalUID = NoICalUID
    r1 = r1
    r2 = r2
    w1 = w1
    w2 = w2
    meet = meet
    both = both
    cal = cal
    Requests = {r1, r2}
    Workers = {w1}
    WorkerOf <- MCOneWorker
    EventTypes = {meet}
    Contacts <- MCNoContacts
    Notifies = {}
    Calendars = {cal}
    Schedules <- MCSchedules
    Engagements <- MCEngagements
    Availabilities <- MCOpen
    Outbounds = {cal}
    ZoomSettings = {TRUE}
    Now = 4
INVARIANT NoDoubleBooking
CHECK_DEADLOCK FALSE
