------------------------------- MODULE S3Bucket -------------------------------
(***************************************************************************)
(* The S3 bucket as the service meets it through aioboto3 (external: it is *)
(* modelled from the calls app/core/s3.py makes). Reads are atomic and see *)
(* the latest completed write. A mutating call (upload or delete) is on    *)
(* the wire from the moment it is sent; S3 performs it at any later time,  *)
(* in any order with other calls, also after its sender has given up on it *)
(* or died, or never. botocore retries put further copies on the wire.     *)
(***************************************************************************)
EXTENDS DrawingsData

CONSTANTS
    Request,        \* request ids; each is used for one HTTP request
    MaxAttempts     \* how often botocore sends one call

VARIABLES
    objects,    \* objects[d]: the object stored under d's key, or None
    wire,       \* wire[r]: copies of r's mutating call S3 has yet to perform
    applied     \* the requests S3 has performed a copy of the call of

s3vars == <<objects, wire, applied>>

\* A mutating call: put the object under the drawing's key, or (None) delete.
Call == [drawing : Drawing, object : Object \cup {None}]

ASSUME CallAssumption == None \notin Call

S3TypeOK ==
    /\ objects \in [Drawing -> Object \cup {None}]
    /\ wire \in [Request -> 0..MaxAttempts]
    /\ applied \in SUBSET Request

S3Init(initial) ==
    /\ objects = initial
    /\ wire = [r \in Request |-> 0]
    /\ applied = {}

\* One more copy of r's call leaves for S3.
Send(r) ==
    /\ wire' = [wire EXCEPT ![r] = @ + 1]
    /\ UNCHANGED <<objects, applied>>

\* S3 performs a copy of call c of request r.
Perform(r, c) ==
    /\ wire[r] > 0
    /\ wire' = [wire EXCEPT ![r] = @ - 1]
    /\ objects' = [objects EXCEPT ![c.drawing] = c.object]
    /\ applied' = applied \cup {r}

\* S3 answers a copy of r's call with an error and does not perform it.
Refuse(r) ==
    /\ wire[r] > 0
    /\ wire' = [wire EXCEPT ![r] = @ - 1]
    /\ UNCHANGED <<objects, applied>>
===============================================================================
