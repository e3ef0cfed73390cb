--------------------------- MODULE DrawingRegistry ---------------------------
(***************************************************************************)
(* What the drawings API promises, without handlers, head requests, wire   *)
(* or faults: a register per drawing, changed by writes. A write takes     *)
(* effect in one step, some time after it has been accepted and perhaps    *)
(* more than once or never; it is accepted only for a new drawing or from  *)
(* the holder of the drawing's admin id, it never changes the drawing's    *)
(* identity, it stores a whole KMZ file, and it is acknowledged only after *)
(* it has taken effect.                                                    *)
(***************************************************************************)
EXTENDS DrawingsData

CONSTANTS
    Request,
    InitialObjects

VARIABLES
    identity,   \* identity[d]: admin id and creation time of d, or None
    stored,     \* stored[d]: the object, or None
    accepted,   \* accepted[r]: the write accepted from r, or None
    effected,   \* the requests whose write has taken effect
    acked       \* those whose client was told so

regvars == <<identity, stored, accepted, effected, acked>>

Write == [drawing : Drawing, by : Admin \cup {None}, object : Object \cup {None}]

Identity(o) == [admin |-> o.admin, created |-> o.created]

Genuine(o) ==
    \E c \in Zip : /\ o.body = Whole(c)
                   /\ o.sha256 = [of |-> Whole(c), case |-> "lower"]

RegInit ==
    /\ stored = InitialObjects
    /\ identity = [d \in Drawing |->
                     IF InitialObjects[d] = None THEN None ELSE Identity(InitialObjects[d])]
    /\ accepted = [r \in Request |-> None]
    /\ effected = {}
    /\ acked = {}

\* A write is accepted from r: the object to store under the drawing's key, or
\* None to remove it, and the admin id r presented.
Accept(r) ==
    /\ accepted[r] = None
    /\ accepted'[r] \in Write
    /\ accepted' = [accepted EXCEPT ![r] = accepted'[r]]
    /\ UNCHANGED <<stored, effected, acked>>

\* The first write of a drawing gives it its identity.
Register(r) ==
    /\ Accept(r)
    /\ LET w == accepted'[r]
       IN  /\ identity[w.drawing] = None
           /\ w.object # None
           /\ Genuine(w.object)
           /\ identity' = [identity EXCEPT ![w.drawing] = Identity(w.object)]

\* A later one replaces the object and keeps the identity, or removes it.
Replace(r) ==
    /\ Accept(r)
    /\ LET w == accepted'[r]
       IN  /\ identity[w.drawing] # None
           /\ w.by = identity[w.drawing].admin
           /\ w.object # None => /\ Genuine(w.object)
                                 /\ Identity(w.object) = identity[w.drawing]
    /\ UNCHANGED identity

Effect(r) ==
    /\ accepted[r] # None
    /\ stored' = [stored EXCEPT ![accepted[r].drawing] = accepted[r].object]
    /\ effected' = effected \cup {r}
    /\ UNCHANGED <<identity, accepted, acked>>

Acknowledge(r) ==
    /\ r \in effected
    /\ acked' = acked \cup {r}
    /\ UNCHANGED <<identity, stored, accepted, effected>>

RegNext ==
    \E r \in Request : Register(r) \/ Replace(r) \/ Effect(r) \/ Acknowledge(r)

RegSpec == RegInit /\ [][RegNext]_regvars
===============================================================================
