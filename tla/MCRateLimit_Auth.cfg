SPECIFICATION Spec
CONSTANTS
    Capacity = 4
    RefillRate = 2
    TokenCost = 2
    TTL = 2
    NoBucket = NoBucket
    Forms = {"login"}
    Users = {}
    Addresses = {a1}
    Emails = {e1}
    Reqs = {r1, r2}
    MaxTime = 2
INVARIANT ExpiryForgetsOnlyFullBuckets
PROPERTY RetryAdmitsRequest
SYMMETRY Slots
VIEW BucketView
