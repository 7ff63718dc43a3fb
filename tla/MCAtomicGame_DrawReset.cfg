SPECIFICATION Spec
CONSTANTS
    NumCards = 5
    DrawLimit = 2
    NoGame = NoGame
    Users = {u1}
    MaxVer = 11
PROPERTY DrawResetKeepsReservation
CHECK_DEADLOCK FALSE
