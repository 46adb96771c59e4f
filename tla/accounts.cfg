SPECIFICATION Spec
CONSTANTS
    TeamIds = {1, 2, 3, 4, 5}
    UserIds = {1, 2, 3, 4}
    Names <- MCNames
    NoName = NoName
    Numbers = {1}
    WithNumber <- MCWithNumber
    Unused = Unused
    Released = Released
    NoTeam = NoTeam
    Given <- MCGiven
    Persons <- PersonType
    Steps <- AllSteps
    Requests = {r1, r2}
    Calls <- MCCalls
    NoCall = NoCall
    Free = Free
    Disputed = Disputed
    ann = ann
    bob = bob
    bobPhone = bobPhone
    google = google
    kakao = kakao
    r1 = r1
    r2 = r2
    Emails = {ann, bob}
    Phones = {bobPhone}
    NoOne = NoOne
    Gone = Gone
    Providers = {google, kakao}
    NoProvider = NoProvider
    BaseName <- MCBaseName
    LastCode = 2
    Starts <- MCStarts
INVARIANTS TypeOK FlagsFollowNames TeamsWhole
    NoTwins AddressesProved NewestCodeCounts
PROPERTY KeepsRegister
SYMMETRY MCSymmetry
CHECK_DEADLOCK FALSE
