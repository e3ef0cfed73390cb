\* Objects with parts of the metadata missing or unreadable; every request is answered.
SPECIFICATION FairSpec

CONSTANTS
    None = None  Garbled = Garbled
    d1 = d1  d2 = d2  a1 = a1  a2 = a2
    d3 = d3  d4 = d4  d5 = d5
    k1 = k1  k2 = k2  junk = junk  n1 = n1  n2 = n2
    Content = {k1, k2, junk}  Zip = {k1, k2}  Name = {n1, n2}
    Drawing = {d1, d2, d3, d4, d5, d6, d7}
    Admin = {a1, a2, a3, a4}
    Guessed = {a2}
    Request = {r1, r2}
    MaxAttempts = 1
    Ops = {"create", "get", "metadata", "check", "update", "delete"}
    Uploads <- TwoFiles
    InitialObjects <- LegacyBucket
    Faults = {"timeout", "crash"}
    MaxClock = 0

INVARIANT IdentityPreserved
PROPERTY EveryRequestAnswered
