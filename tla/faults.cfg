\* Two requests of any kind on one drawing: time-outs, refusals, retries, crashes.
SPECIFICATION CachedSpec

CONSTANTS
    None = None  Garbled = Garbled
    d1 = d1  d2 = d2  a1 = a1  a2 = a2
    k1 = k1  k2 = k2  junk = junk  n1 = n1  n2 = n2
    Content = {k1, k2, junk}  Zip = {k1, k2}  Name = {n1, n2}
    Drawing = {d1, d2, d3, d4}
    Admin = {a1, a2, a3, a4}
    Guessed = {d4, a4}
    Request = {r1, r2}
    MaxAttempts = 2
    Ops = {"create", "get", "metadata", "check", "update", "delete"}
    Uploads <- AllForms
    InitialObjects <- OneDrawing
    Faults = {"timeout", "refuse", "crash"}
    MaxClock = 2

SYMMETRY MintSymmetry
INVARIANT TypeOK
INVARIANT Integrity
INVARIANT CreatedStays
INVARIANT NotFoundIsTrue
INVARIANT LastWriteStays
INVARIANT ConfirmedContentStays
INVARIANT DeletedStaysDeleted
INVARIANT ReadsLastWrite
PROPERTY OnlyHolderMutates
