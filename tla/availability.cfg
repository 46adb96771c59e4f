SPECIFICATION Spec
CONSTANTS
    Unused = Unused
    Gone = Gone
    NoBody = NoBody
    NoRow = NoRow
    NoId = NoId
    NoCall = NoCall
    Absent = Absent
    r1 = r1
    r2 = r2
    a1 = a1
    a2 = a2
    a3 = a3
    a4 = a4
    a5 = a5
    Profiles = {1, 11}
    Ids = {a1, a2, a3, a4, a5}
    Hours = {"nine", "noon"}
    EventIds = {1, 2}
    LinkIds = {1, 2, 3}
    LinkEvent <- MCLinkEvent
    LinkProfile <- MCLinkProfile
    Containing <- MCContaining
    GivenRows <- MCGivenRows
    GivenLinks <- MCGivenLinks
    Requests = {r1, r2}
    Calls <- MCCalls
INVARIANTS TypeOK AtMostOneDefault LinksOwn BodiesAccounted
PROPERTIES BodiesStay SerialKeepsBook
SYMMETRY MCSymmetry
CHECK_DEADLOCK FALSE
