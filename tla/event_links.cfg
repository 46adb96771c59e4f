SPECIFICATION Spec
CONSTANTS
    Unused = Unused
    Gone = Gone
    NoId = NoId
    NoCall = NoCall
    NoLink = NoLink
    r1 = r1
    r2 = r2
    r3 = r3
    Ids = {1, 2, 3, 4, 5}
    Links <- MCLinks
    Numbers = {1}
    WithNumber <- MCWithNumber
    NewEventType <- MCNewEventType
    Given <- MCGiven
    Requests = {r1, r2, r3}
    Calls <- MCCalls
INVARIANTS TypeOK OneEventPerLink FlagsFollowRows BodiesFollowRows
SYMMETRY MCSymmetry
CHECK_DEADLOCK FALSE
