SPECIFICATION Spec
CONSTANTS
    Emails = {e1}
    Ids = {s1, s2}
    Browsers = {b1}
    Reqs = {r1, r2}
    TTL = 2
    NoId = NoId
    Unused = Unused
    Deleted = Deleted
    MaxTime = 4
    MaxFaults = 0
PROPERTY CookieKeepsUp
