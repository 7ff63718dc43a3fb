SPECIFICATION Spec
CONSTANTS
    NumCards = 13
    DrawLimit = 5
    NoGame = NoGame
    Users = {u1}
    MaxVer = 15
CONSTRAINT InOrder
INVARIANT NeverOutOfCards
CHECK_DEADLOCK FALSE
