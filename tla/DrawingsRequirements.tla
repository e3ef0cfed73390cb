------------------------- MODULE DrawingsRequirements -------------------------
(***************************************************************************)
(* What the drawings API owes its clients, as properties of                *)
(* DrawingsService. The last section holds claims of the repository's own  *)
(* documentation that the code does not keep in every interleaving.        *)
(***************************************************************************)
EXTENDS DrawingsService

\* r has made a mutating call on drawing d.
Mutates(r, d) == call[r] # None /\ call[r].drawing = d

\* r's mutating call was confirmed to the client.
Acknowledged(r) == call[r] # None /\ answer[r] # None /\ answer[r].kind = "ok"

\* r came in after q had been answered.
After(r, q) == q \in before[r]

\* q's mutating call is over: it was sent once, and S3 has confirmed or
\* refused it. A call that timed out or was repeated may still be performed.
Finished(q) == answer[q] \notin {None, StorageFailed} /\ attempts[q] = 1

\* r is a confirmed write of d, and every other write of d was over before r
\* came in: r is the last write anybody can speak of.
LastWrite(r, d) ==
    /\ Acknowledged(r) /\ Mutates(r, d)
    /\ \A q \in Request \ {r} : Mutates(q, d) => Finished(q) /\ After(r, q)

-------------------------------------------------------------------------------
(* Safety.                                                                 *)

\* Every object the service has written holds the whole file the client
\* sent, from its first byte, a ZIP archive, under the lowercase digest of
\* just these bytes, although the file was read twice before it was uploaded
\* (validate_kmz and _validate_digest each move the read position).
Integrity ==
    \A d \in Drawing :
        \/ objects[d] \in {None, InitialObjects[d]}
        \/ \E c \in Zip :
             /\ objects[d].body = Whole(c)
             /\ objects[d].sha256 = [of |-> Whole(c), case |-> "lower"]

\* A drawing keeps the admin id and the creation time it was born with, over
\* any number of updates, overlapping ones included.
IdentityPreserved ==
    \A d \in Drawing :
        objects[d] # None => /\ birth[d] # None
                             /\ objects[d].admin = birth[d].admin
                             /\ objects[d].created = birth[d].created

\* A stored drawing is never modified before it was created: the creation
\* time is copied from an object read earlier, the other one is read from
\* the clock later.
ModifiedAfterCreated ==
    \A d \in Drawing :
        objects[d] \notin {None, InitialObjects[d]} /\ Parsable(objects[d].created)
            => objects[d].created <= objects[d].modified

\* An object changes or goes away only by the call of a request that created
\* the drawing (a repeated one) or presented the drawing's own admin id, and
\* that is never refused with a 4xx.
HolderMutates ==
    \A d \in Drawing :
        objects[d] # None /\ objects'[d] # objects[d] =>
            \E r \in Request :
                /\ wire'[r] < wire[r] /\ Mutates(r, d)
                /\ objects'[d] = call[r].object
                /\ input[r].op = "create" \/ input[r].admin = birth[d].admin
                /\ answer[r] = None \/ answer[r].status \notin 400..499

OnlyHolderMutates == [][HolderMutates]_vars

\* A drawing whose creation was confirmed is there for as long as no request
\* has asked S3 to delete it.
CreatedStays ==
    \A d \in Drawing :
        /\ \E r \in Request : Acknowledged(r) /\ Mutates(r, d) /\ input[r].op = "create"
        /\ \A r \in Request : Mutates(r, d) => call[r].object # None
        => objects[d] # None

\* The last confirmed write of a drawing is what the bucket holds, whatever
\* faults it and the writes before it met.
LastWriteStays ==
    \A d \in Drawing, r \in Request :
        LastWrite(r, d) => objects[d] = call[r].object

\* So is the content of a confirmed update, also of one that found the same
\* digest recorded and therefore wrote nothing.
ConfirmedContentStays ==
    \A r \in Request :
        /\ answer[r] # None /\ answer[r].kind = "ok" /\ input[r].op = "update"
        /\ \A q \in Request \ {r} :
             Mutates(q, input[r].drawing) => Finished(q) /\ After(r, q)
        => LET o == objects[input[r].drawing]
           IN  o # None /\ o.body = Whole(input[r].upload.content)

\* Once a delete is confirmed, no update that came in afterwards brings the
\* drawing back, nor does a write that was over before the delete came in.
DeletedStaysDeleted ==
    \A d \in Drawing, r \in Request :
        /\ Acknowledged(r) /\ Mutates(r, d) /\ input[r].op = "delete"
        /\ \A q \in Request \ {r} :
             Mutates(q, d) => (Finished(q) /\ After(r, q)) \/ After(q, r)
        => objects[d] = None

\* Whoever asks after the last write was confirmed, and is answered while it
\* still is the last one, sees that write: a download has its content and its
\* filename, the metadata have its filename and its times.
ReadsLastWrite ==
    \A d \in Drawing, r, q \in Request :
        /\ LastWrite(q, d) /\ After(r, q)
        /\ input[r].op \in {"get", "metadata"} /\ input[r].drawing = d
        /\ answer[r] # None /\ answer[r].kind = "ok"
        => LET o == call[q].object
               seen == answer[r].report
           IN  /\ o # None
               /\ seen.name = DecodeFilename(o.name)
               /\ input[r].op = "get" => seen.body = o.body
               /\ input[r].op = "metadata" => /\ seen.created = o.created
                                              /\ seen.modified = o.modified

\* A client is told that a drawing does not exist only if it never did or if
\* some request has asked S3 to delete it: storage failures, overlapping
\* updates and retries never look like a 404.
NotFoundIsTrue ==
    \A r \in Request :
        answer[r] = DrawingNotFound =>
            LET d == input[r].drawing
            IN  \/ birth[d] = None
                \/ \E q \in Request : Mutates(q, d) /\ call[q].object = None

\* Whatever timestamps an update or a metadata request reports, the first is
\* the drawing's creation time and the second is not before it.
ReportedTimes ==
    \A r \in Request :
        answer[r] # None /\ answer[r].report # None /\ input[r].op # "get" =>
            /\ answer[r].report.created = birth[input[r].drawing].created
            /\ answer[r].report.created <= answer[r].report.modified

-------------------------------------------------------------------------------
(* The inductive invariant behind TypeOK, Integrity, IdentityPreserved,    *)
(* ModifiedAfterCreated and OnlyHolderMutates.                             *)

\* Object o carries drawing d's identity.
OfDrawing(o, d) ==
    /\ birth[d] # None
    /\ birth[d] = BirthOf(o)

\* Object o is what one upload writes: a whole KMZ file under its digest,
\* modified by now and not before it was created.
Sound(o) ==
    /\ \E c \in Zip : /\ o.body = Whole(c)
                      /\ o.sha256 = [of |-> Whole(c), case |-> "lower"]
    /\ o.modified \in 0..clock
    /\ Parsable(o.created) => o.created <= o.modified

\* Where a handler is tells what it has and what it has sent.
LocalsOK ==
    \A r \in Request :
        /\ pc[r] # "idle" => input[r] # None
        /\ pc[r] \in {"idle", "create", "head", "update", "stream"} =>
              call[r] = None /\ wire[r] = 0 /\ r \notin applied
        /\ pc[r] = "create" => input[r].op = "create" /\ input[r].upload \in Uploads
        /\ pc[r] \in {"head", "update", "stream"} => input[r].drawing \in Drawing
        /\ pc[r] = "update" => input[r].op = "update" /\ input[r].upload \in Uploads
        /\ pc[r] = "head" /\ input[r].op = "update" => input[r].upload \in Uploads
        /\ pc[r] = "head" => input[r].op # "create"
        /\ pc[r] \in {"idle", "create", "head"} => existing[r] = None
        /\ pc[r] \in {"update", "stream"} => existing[r] # None
        /\ pc[r] = "head" /\ input[r].op \in Guarded => input[r].admin # None
        /\ pc[r] = "calling" => call[r] # None /\ input[r].op \in {"create", "update", "delete"}
        /\ pc[r] = "calling" /\ input[r].op = "update" => call[r].object # None
        /\ wire[r] <= attempts[r]
        /\ pc[r] # "answered" => answer[r] = None
        /\ call[r] # None /\ answer[r] # None => answer[r].status \notin 400..499

\* The stored objects, the copies the handlers have read and the ones they
\* are sending all carry the identity their drawing was born with.
ObjectsOK ==
    /\ \A d \in Drawing : objects[d] # None =>
          OfDrawing(objects[d], d) /\ (objects[d] = InitialObjects[d] \/ Sound(objects[d]))
    /\ \A r \in Request : existing[r] # None => OfDrawing(existing[r], input[r].drawing)
    /\ \A r \in Request : call[r] # None /\ call[r].object # None =>
          OfDrawing(call[r].object, call[r].drawing) /\ Sound(call[r].object)

\* The creation times known to the service are in the past.
BirthsInPast ==
    \A d \in Drawing : birth[d] # None /\ Parsable(birth[d].created) => birth[d].created <= clock

\* An update gets beyond its head request, and a mutating call is made, only
\* with the admin id the drawing was born with.
CallersAuthorized ==
    \A r \in Request :
        /\ pc[r] = "update" => /\ input[r].admin = existing[r].admin
                               /\ input[r].admin # None
        /\ call[r] # None /\ input[r].op # "create" =>
              /\ birth[call[r].drawing] # None
              /\ input[r].admin = birth[call[r].drawing].admin

IInv ==
    /\ TypeOK
    /\ LocalsOK
    /\ ObjectsOK
    /\ BirthsInPast
    /\ CallersAuthorized

-------------------------------------------------------------------------------
(* Refinement.                                                             *)

Registry == INSTANCE DrawingRegistry WITH
    identity <- birth,
    stored   <- objects,
    accepted <- [r \in Request |->
                   IF call[r] = None THEN None
                   ELSE [drawing |-> call[r].drawing, by |-> input[r].admin,
                         object |-> call[r].object]],
    effected <- applied,
    acked    <- {r \in Request : Acknowledged(r)}

ASSUME WriteAssumption == None \notin Registry!Write

\* The service is a registry of drawings: whatever the handlers of concurrent
\* requests read before they write, however calls are delayed, repeated,
\* refused or orphaned by a crash, each step is one write accepted, taking
\* effect or being acknowledged, or nothing.
RegistryImplemented == Registry!RegSpec

-------------------------------------------------------------------------------
(* Liveness.                                                               *)

\* Every request that comes in is answered, unless its replica dies.
EveryRequestAnswered ==
    \A r \in Request : pc[r] \in Handling ~> pc[r] \in {"answered", "lost"}

-------------------------------------------------------------------------------
(* Claims of the documentation, the comments and the tests.                *)

\* README.md:136, "The deletion is irreversible": what a confirmed delete has
\* removed stays away.
DeletionPermanent ==
    \A d \in Drawing, r \in Request :
        Acknowledged(r) /\ Mutates(r, d) /\ input[r].op = "delete"
            => objects[d] = None

\* test_drawings_endpoints.py:588, "modified_at moves forward": a client that
\* asks again is not told an earlier modification time than before.
ModifiedMovesForward ==
    \A r, q \in Request :
        /\ After(r, q) /\ input[r].drawing = input[q].drawing
        /\ \A s \in {r, q} : /\ answer[s] # None /\ answer[s].report # None
                             /\ input[s].op \in {"update", "metadata"}
        => answer[q].report.modified <= answer[r].report.modified

\* drawings.py:400, the head request makes a missing drawing a 404 "before
\* the response starts".
MissingRaisedBeforeStart ==
    \A r \in Request : answer[r] # Aborted

\* README.md:227, errors have the uniform {"detail": ...} body.
UniformErrors ==
    \A r \in Request :
        answer[r] # None /\ answer[r].status >= 400 => answer[r].kind = "detail"

\* drawings.py:448, the update path "reads timestamps it has just written",
\* so that it never meets unusable ones.
UpdateReadsOwnTimestamps ==
    \A r \in Request :
        answer[r] # None /\ input[r].op = "update" => answer[r].kind # "plain"
===============================================================================
