\* README.md:136: an update under way brings a deleted drawing back.
SPECIFICATION Spec

CONSTANTS
    None = None  Garbled = Garbled
    d1 = d1  d2 = d2  a1 = a1  a2 = a2
    k1 = k1  k2 = k2  junk = junk  n1 = n1  n2 = n2
    Content = {k1, k2, junk}  Zip = {k1, k2}  Name = {n1, n2}
    Drawing = {d1, d2}
    Admin = {a1, a2}
    Guessed = {d2, a2}
    Request = {r1, r2}
    MaxAttempts = 1
    Ops = {"update", "delete"}
    Uploads <- TwoFiles
    InitialObjects <- OneDrawing
    Faults = {}
    MaxClock = 1

SYMMETRY RequestSymmetry
INVARIANT DeletionPermanent
