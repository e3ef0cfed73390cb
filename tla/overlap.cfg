\* Three overlapping requests on an existing or a new drawing, behind a cache.
SPECIFICATION CachedSpec

CONSTANTS
    None = None  Garbled = Garbled
    d1 = d1  d2 = d2  a1 = a1  a2 = a2
    k1 = k1  k2 = k2  junk = junk  n1 = n1  n2 = n2
    Content = {k1, k2, junk}  Zip = {k1, k2}  Name = {n1, n2}
    Drawing = {d1, d2, d3, d4, d5}
    Admin = {a1, a2, a3, a4, a5}
    Guessed = {d5, a5}
    Request = {r1, r2, r3}
    MaxAttempts = 1
    Ops = {"create", "get", "metadata", "check", "update", "delete"}
    Uploads <- TwoFiles
    InitialObjects <- OneDrawing
    Faults = {}
    MaxClock = 0

SYMMETRY MintSymmetry
INVARIANT LastWriteStays
INVARIANT ConfirmedContentStays
INVARIANT DeletedStaysDeleted
INVARIANT ReadsLastWrite
INVARIANT AuthAnswersOwn
