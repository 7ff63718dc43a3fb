SPECIFICATION Spec
CONSTANTS
    NumCards = 3
    DrawLimit = 1
    NoGame = NoGame
    Users = {u1}
    Reqs = {r1, r2}
    MaxVer = 5
    MaxFaults = 0
PROPERTY ConflictLeavesNoTrace
