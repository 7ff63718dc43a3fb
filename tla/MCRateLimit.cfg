SPECIFICATION Spec
CONSTANTS
    Capacity = 4
    RefillRate = 2
    TokenCost = 3
    TTL = 2
    NoBucket = NoBucket
    Forms = {}
    Users = {}
    Addresses = {}
    Emails = {}
    Reqs = {r1, r2}
    MaxTime = 6
INVARIANTS
    TypeOK
    AdmissionBound
    ExpiryForgetsOnlyFullBuckets
PROPERTY RetryAfterHonest
SYMMETRY Slots
