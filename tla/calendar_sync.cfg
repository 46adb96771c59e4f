SPECIFICATION Spec
CONSTANTS
    g1 = g1
    g2 = g2
    a1 = a1
    i1 = i1
    i2 = i2
    e1 = e1
    e2 = e2
    r1 = r1
    r2 = r2
    h1 = h1
    NoCall = NoCall
    NoCalendar = NoCalendar
    Calendars = {g1, g2, a1}
    Vendor <- MCVendor
    Integrations = {i1, i2}
    Of <- MCOf
    Primary = {g1}
    Given <- MCGiven
    Events = {e1, e2}
    There <- MCThere
    May <- MCMay
    Bookings = {e1}
    PageSize = 1
    Handlers = {h1}
    Requests = {r1, r2}
    Calls <- MCCalls
    MaxDeeds = 4
    MaxFailures = 1
INVARIANTS TypeOK RowsFollowCalendar OneRowPerEvent BookingsStay
    OneOutbound ChannelsKnown
PROPERTIES EventuallyMirrored
CHECK_DEADLOCK FALSE
