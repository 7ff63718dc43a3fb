SPECIFICATION Spec
CONSTANTS
    NumCards = 5
    DrawLimit = 2
    NoGame = NoGame
    Users = {u1}
    MaxVer = 11
INVARIANTS
    TypeOK
    WinsDecideStatus
    CheatReservationSound
    CardsAccounted
    OutOfCardsOnlyAtOneAll
PROPERTIES
    CheatSpentOnce
    VersionsAdvance
CHECK_DEADLOCK FALSE
