SPECIFICATION Spec
CONSTANTS
    NumCards = 3
    DrawLimit = 2
    NoGame = NoGame
    Users = {u1}
    Reqs = {r1}
    MaxVer = 10
    MaxFaults = 1
INVARIANTS
    TypeOK
    HistoryMatches
    HistoryNeverAhead
