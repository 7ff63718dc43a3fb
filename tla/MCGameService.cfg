SPECIFICATION Spec
CONSTANTS
    NumCards = 3
    DrawLimit = 2
    NoGame = NoGame
    Users = {u1}
    Reqs = {r1, r2}
    MaxVer = 7
    MaxFaults = 1
INVARIANT
    PendingRowsSound
PROPERTY ImplementsAtomicGame
SYMMETRY Slots
VIEW RowsView
