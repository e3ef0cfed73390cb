------------------------------ MODULE MCDrawings ------------------------------
(***************************************************************************)
(* Small instances of DrawingsService for TLC: what the bucket holds at    *)
(* the start and which forms the clients send, for the runs to pick from.  *)
(***************************************************************************)
EXTENDS CachedService, TLC

CONSTANTS
    d1, d2,         \* drawings; in the runs that start with one, it is d1
    a1, a2,         \* admin ids; a1 is the one of d1
    k1, k2, junk,   \* two KMZ files, and one that is no ZIP archive
    n1, n2          \* filenames

\* The requests are interchangeable: none is named in a definition.
RequestSymmetry == Permutations(Request)

\* So are the drawings that may be minted; d1 is in the bucket already.
MintSymmetry == RequestSymmetry \cup Permutations(Drawing \ (Guessed \cup {d1}))

Sha256(content, case) == [of |-> Whole(content), case |-> case]

Form(content, case, name) ==
    [content |-> content, sha256 |-> Sha256(content, case), name |-> name]

\* Two different drawings, one with an uppercase digest and no filename.
TwoFiles == {Form(k1, "lower", n1), Form(k2, "upper", None)}

\* The same content under another name, and another content.
Renamed == {Form(k1, "upper", n2), Form(k2, "lower", n2)}

\* Also a file that is no ZIP archive and a digest of another content.
AllForms ==
    TwoFiles \cup {Form(junk, "lower", n1),
                   [content |-> k1, sha256 |-> Sha256(k2, "lower"), name |-> n1]}

\* An object create_drawing() wrote at time 0.
Stored(content, a, name, d) ==
    NewObject(Form(content, "lower", name), Received(content), d, a, 0, 0)

EmptyBucket == [d \in Drawing |-> None]

\* The bucket holds drawing d1, created with k1, n1 and a1.
OneDrawing == [EmptyBucket EXCEPT ![d1] = Stored(k1, a1, n1, d1)]
===============================================================================
