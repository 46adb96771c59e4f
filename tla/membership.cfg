SPECIFICATION Spec
CONSTANTS
    Unused = Unused
    Gone = Gone
    NoOrder = NoOrder
    NoCall = NoCall
    NoToken = NoToken
    Nobody = Nobody
    boss = boss
    aide = aide
    mate = mate
    kay = kay
    ann = ann
    bob = bob
    eve = eve
    order1 = order1
    order2 = order2
    order3 = order3
    order4 = order4
    r1 = r1
    r2 = r2
    People = {boss, aide, mate, kay, ann, bob, eve}
    Ids = {1, 2, 3, 4, 5}
    Orders = {order1, order2, order3, order4}
    TeamOrder = order1
    Requests = {r1, r2}
    Calls <- MCCalls
    Starts <- MCStarts
INVARIANTS TypeOK MoneyAccounted SeatsAccounted Removable
PROPERTY OrderlyKeepsRoster
SYMMETRY MCSymmetry
CHECK_DEADLOCK FALSE
