--------------------------- MODULE DrawingsService ---------------------------
(***************************************************************************)
(* The drawings API of service-drawings (app/api/wps.py, app/core/         *)
(* drawings.py, app/core/s3.py): concurrent requests, possibly on several  *)
(* replicas of the service, against one S3 bucket. The service holds no    *)
(* lock and sends no conditional request: a handler runs from one await to *)
(* the next, and between its head_object and its upload, delete or         *)
(* get_object anything may happen to the object.                           *)
(***************************************************************************)
EXTENDS S3Bucket

CONSTANTS
    Ops,            \* the operations the clients use
    Uploads,        \* the upload forms they send
    InitialObjects, \* what the bucket holds at the start
    Guessed,        \* ids clients make up: no drawing ever gets one
    Faults,         \* which of "timeout", "refuse" and "crash" can happen
    MaxClock        \* bound on the wall clock

ASSUME ServiceAssumption ==
    /\ Ops \subseteq Operation
    /\ Uploads \subseteq Upload
    /\ InitialObjects \in [Drawing -> Object \cup {None}]
    /\ \A d \in Drawing : InitialObjects[d] # None /\ Parsable(InitialObjects[d].created)
                            => InitialObjects[d].created <= 0
    /\ Guessed \subseteq Drawing \cup Admin
    /\ \A d \in Guessed \cap Drawing : InitialObjects[d] = None
    /\ Faults \subseteq {"timeout", "refuse", "crash"}
    /\ MaxClock \in Nat
    /\ MaxAttempts \in Nat \ {0}

VARIABLES
    pc,         \* where each request's handler is
    input,      \* what the request carries
    existing,   \* local: the object as head_drawing() saw it
    call,       \* local: the mutating call the handler has made
    attempts,   \* copies of that call botocore has sent
    answer,     \* what the client got
    clock,      \* datetime.now(UTC), one clock for all replicas
    birth,      \* history: the admin id and created-at a drawing got at first
    before      \* history: the requests already answered when r came in

locals == <<pc, input, existing, call, attempts, answer>>
vars == <<objects, wire, applied, locals, clock, birth, before>>

\* A handler is about to validate a new drawing, to read the object's
\* metadata, to validate an update, to send the first body chunk; or it
\* awaits S3's answer to its mutating call.
Handling == {"create", "head", "update", "stream", "calling"}

Birth == [admin : Admin \cup {None}, created : Stamp]

ASSUME BirthAssumption == None \notin Birth

TypeOK ==
    /\ S3TypeOK
    /\ pc \in [Request -> {"idle", "answered", "lost"} \cup Handling]
    /\ input \in [Request -> Input \cup {None}]
    /\ existing \in [Request -> Object \cup {None}]
    /\ call \in [Request -> Call \cup {None}]
    /\ attempts \in [Request -> 0..MaxAttempts]
    /\ answer \in [Request -> Answer \cup {None}]
    /\ clock \in 0..MaxClock
    /\ birth \in [Drawing -> Birth \cup {None}]
    /\ before \in [Request -> SUBSET Request]

BirthOf(o) == IF o = None THEN None ELSE [admin |-> o.admin, created |-> o.created]

Init ==
    /\ S3Init(InitialObjects)
    /\ pc = [r \in Request |-> "idle"]
    /\ input = [r \in Request |-> None]
    /\ existing = [r \in Request |-> None]
    /\ call = [r \in Request |-> None]
    /\ attempts = [r \in Request |-> 0]
    /\ answer = [r \in Request |-> None]
    /\ clock = 0
    /\ birth = [d \in Drawing |-> BirthOf(InitialObjects[d])]
    /\ before = [r \in Request |-> {}]

-------------------------------------------------------------------------------
(* Identifiers. uuid4() never repeats and cannot be guessed: a client may  *)
(* present an id it was told or one that is never minted (Guessed).        *)

Answered == {r \in Request : pc[r] = "answered"}

Disclosed(d) ==
    \/ InitialObjects[d] # None
    \/ \E r \in Answered : answer[r].status = 201 /\ call[r].drawing = d

PresentableDrawing == {d \in Drawing : d \in Guessed \/ Disclosed(d)}

PresentableAdmin ==
    {a \in Admin : \/ a \in Guessed
                   \/ \E d \in PresentableDrawing : birth[d] # None /\ birth[d].admin = a}

FreshDrawing == {d \in Drawing \ Guessed : birth[d] = None}

FreshAdmin ==
    {a \in Admin \ Guessed : \A d \in Drawing : birth[d] # None => birth[d].admin # a}

\* What a client may send: the paths, headers and forms of app/api/wps.py.
\* An admin of None is an Swissgeo-Admin-Id header that is missing or no UUID.
Requests ==
    {i \in
        [op : {"create"}, drawing : {None}, admin : {None}, upload : Uploads]
        \cup [op : {"get", "metadata"}, drawing : PresentableDrawing,
              admin : {None}, upload : {None}]
        \cup [op : {"check", "delete"}, drawing : PresentableDrawing,
              admin : PresentableAdmin \cup {None}, upload : {None}]
        \cup [op : {"update"}, drawing : PresentableDrawing,
              admin : PresentableAdmin \cup {None}, upload : Uploads]
     : i.op \in Ops}

-------------------------------------------------------------------------------
(* Steps of a handler.                                                     *)

Reply(r, a) ==
    /\ pc' = [pc EXCEPT ![r] = "answered"]
    /\ answer' = [answer EXCEPT ![r] = a]

Goto(r, label) ==
    /\ pc' = [pc EXCEPT ![r] = label]
    /\ UNCHANGED answer

\* The handler sends its mutating call and awaits the answer.
SendCall(r, d, object) ==
    /\ Goto(r, "calling")
    /\ Send(r)
    /\ call' = [call EXCEPT ![r] = [drawing |-> d, object |-> object]]
    /\ attempts' = [attempts EXCEPT ![r] = 1]

NoCall == UNCHANGED <<s3vars, call, attempts>>

\* The request comes in. get_admin_id() runs before the handler does.
Receive(r) ==
    /\ pc[r] = "idle"
    /\ \E i \in Requests :
         /\ input' = [input EXCEPT ![r] = i]
         /\ IF i.op \in Guarded /\ i.admin = None
            THEN Reply(r, MissingCredentials)
            ELSE Goto(r, IF i.op = "create" THEN "create" ELSE "head")
    /\ before' = [before EXCEPT ![r] = Answered]
    /\ NoCall
    /\ UNCHANGED <<existing, clock, birth>>

\* create_drawing() up to its upload.
Create(r) ==
    /\ pc[r] = "create"
    /\ LET upload == input[r].upload
           valid  == Validate(upload)
       IN  \/ /\ valid.refusal # None
              /\ Reply(r, valid.refusal)
              /\ NoCall
              /\ UNCHANGED birth
           \/ /\ valid.refusal = None
              /\ \E d \in FreshDrawing, a \in FreshAdmin :
                   LET o == NewObject(upload, valid.file, d, a, clock, clock)
                   IN  /\ SendCall(r, d, o)
                       /\ birth' = [birth EXCEPT ![d] = BirthOf(o)]
    /\ UNCHANGED <<input, existing, clock, before>>

\* What the handlers do with the metadata o of drawing d they have read.
AfterHead(r, o) ==
    LET i == input[r]
    IN  \/ /\ i.op \in Guarded
           /\ ~Authorized(o, i.admin)
           /\ Reply(r, AdminIdMismatch)
           /\ NoCall
        \/ /\ i.op \in Guarded => Authorized(o, i.admin)
           /\ \/ i.op = "get" /\ Goto(r, "stream") /\ NoCall
              \/ i.op = "update" /\ Goto(r, "update") /\ NoCall
              \/ i.op = "metadata" /\ Reply(r, MetadataResponse(o)) /\ NoCall
              \/ i.op = "check" /\ Reply(r, Ok(204, None)) /\ NoCall
              \/ i.op = "delete" /\ SendCall(r, i.drawing, None)

\* head_drawing(), and the handler up to its next await.
Head(r) ==
    /\ pc[r] = "head"
    /\ LET o == objects[input[r].drawing]
       IN  \/ /\ o = None
              /\ Reply(r, DrawingNotFound)
              /\ NoCall
              /\ UNCHANGED existing
           \/ /\ o # None /\ NoMetadata(o)
              /\ Reply(r, StorageFailed)
              /\ NoCall
              /\ UNCHANGED existing
           \/ /\ o # None /\ ~NoMetadata(o)
              /\ existing' = [existing EXCEPT ![r] = o]
              /\ AfterHead(r, o)
    /\ UNCHANGED <<input, clock, birth, before>>

BadHeadFails(r) ==
    /\ pc[r] = "head"
    /\ Faults \cap {"timeout", "refuse"} # {}
    /\ Reply(r, DrawingNotFound)
    /\ NoCall
    /\ UNCHANGED <<input, existing, clock, birth, before>>

\* head_object fails with a BotoCoreError or a ClientError other than 404.
HeadFails(r) ==
    /\ pc[r] = "head"
    /\ Faults \cap {"timeout", "refuse"} # {}
    /\ Reply(r, StorageFailed)
    /\ NoCall
    /\ UNCHANGED <<input, existing, clock, birth, before>>

\* update_drawing() after the authorization.
Update(r) ==
    /\ pc[r] = "update"
    /\ LET i     == input[r]
           o     == existing[r]
           valid == Validate(i.upload)
       IN  \/ /\ valid.refusal # None
              /\ Reply(r, valid.refusal)
              /\ NoCall
           \/ /\ valid.refusal = None
              /\ SameContent(o, i.upload.sha256)
              /\ Reply(r, UpdateResponse(o))
              /\ NoCall
           \/ /\ valid.refusal = None
              /\ ~SameContent(o, i.upload.sha256)
              /\ o.created = None
              /\ Reply(r, Unhandled)
              /\ NoCall
           \/ /\ valid.refusal = None
              /\ ~SameContent(o, i.upload.sha256)
              /\ o.created # None
              /\ SendCall(r, i.drawing,
                          UpdatedObject(i.upload, valid.file, i.drawing, i.admin, o, clock))
    /\ UNCHANGED <<input, existing, clock, birth, before>>

\* The answer to a mutating call S3 has confirmed.
Confirmation(r) ==
    CASE input[r].op = "create" -> Ok(201, None)
      [] input[r].op = "update" -> UpdateResponse(call[r].object)
      [] input[r].op = "delete" -> Ok(204, None)

BadConfirmed(r) ==
    /\ pc[r] = "calling"
    /\ Reply(r, Confirmation(r))
    /\ NoCall
    /\ UNCHANGED <<input, existing, clock, birth, before>>

\* S3 has answered the call: the handler returns.
Confirmed(r) ==
    /\ pc[r] = "calling"
    /\ r \in applied
    /\ Reply(r, Confirmation(r))
    /\ NoCall
    /\ UNCHANGED <<input, existing, clock, birth, before>>

BadCallFails(r) ==
    /\ pc[r] = "calling"
    /\ "timeout" \in Faults
    /\ r \in applied
    /\ Reply(r, StorageFailed)
    /\ NoCall
    /\ UNCHANGED <<input, existing, clock, birth, before>>

BadGiveUp(r) ==
    /\ pc[r] = "calling"
    /\ "timeout" \in Faults
    /\ Reply(r, Confirmation(r))
    /\ NoCall
    /\ UNCHANGED <<input, existing, clock, birth, before>>

\* A BotoCoreError (timeout, lost connection), whatever S3 has done or will
\* still do with the call: raised as S3Error.
CallFails(r) ==
    /\ pc[r] = "calling"
    /\ "timeout" \in Faults
    /\ Reply(r, StorageFailed)
    /\ NoCall
    /\ UNCHANGED <<input, existing, clock, birth, before>>

BadCallRefused(r) ==
    /\ pc[r] = "calling"
    /\ "refuse" \in Faults
    /\ Refuse(r)
    /\ Reply(r, Confirmation(r))
    /\ UNCHANGED <<input, existing, call, attempts, clock, birth, before>>

\* S3 refuses the call with a ClientError: upload_drawing() and
\* delete_drawing() of s3.py do not catch it, and main.py has no handler.
CallRefused(r) ==
    /\ pc[r] = "calling"
    /\ "refuse" \in Faults
    /\ Refuse(r)
    /\ Reply(r, Unhandled)
    /\ UNCHANGED <<input, existing, call, attempts, clock, birth, before>>

\* get_object, after the 200 and its headers are on their way.
Stream(r) ==
    /\ pc[r] = "stream"
    /\ LET d == input[r].drawing
       IN  IF objects[d] = None
           THEN Reply(r, Aborted)
           ELSE Reply(r, Ok(200, [name     |-> DownloadName(existing[r].name, d),
                                  body     |-> objects[d].body,
                                  created  |-> None,
                                  modified |-> None]))
    /\ NoCall
    /\ UNCHANGED <<input, existing, clock, birth, before>>

\* get_object, or the reading of its body, fails.
StreamFails(r) ==
    /\ pc[r] = "stream"
    /\ Faults \cap {"timeout", "refuse"} # {}
    /\ Reply(r, Aborted)
    /\ NoCall
    /\ UNCHANGED <<input, existing, clock, birth, before>>

Handle(r) ==
    \/ Create(r)
    \/ Head(r) \/ HeadFails(r)
    \/ Update(r)
    \/ Confirmed(r) \/ CallFails(r) \/ CallRefused(r)
    \/ Stream(r) \/ StreamFails(r)

-------------------------------------------------------------------------------
(* The environment: botocore, S3, the operating system and the clock.      *)

BadRetry(r) ==
    /\ pc[r] = "calling"
    /\ attempts' = [attempts EXCEPT ![r] = @ + 1]
    /\ Send(r)
    /\ UNCHANGED <<pc, input, existing, call, answer, clock, birth, before>>

\* botocore sends the call again: it saw no answer in time, or an error.
Retry(r) ==
    /\ pc[r] = "calling"
    /\ attempts[r] < MaxAttempts
    /\ attempts' = [attempts EXCEPT ![r] = @ + 1]
    /\ Send(r)
    /\ UNCHANGED <<pc, input, existing, call, answer, clock, birth, before>>

Deliver(r) ==
    /\ call[r] # None
    /\ Perform(r, call[r])
    /\ UNCHANGED <<locals, clock, birth, before>>

\* The replica that handles r dies. What r has sent to S3 stays sent.
Crash(r) ==
    /\ pc[r] \in Handling
    /\ "crash" \in Faults
    /\ pc' = [pc EXCEPT ![r] = "lost"]
    /\ UNCHANGED <<s3vars, input, existing, call, attempts, answer>>
    /\ UNCHANGED <<clock, birth, before>>

Tick ==
    /\ clock < MaxClock
    /\ clock' = clock + 1
    /\ UNCHANGED <<s3vars, locals, birth, before>>

\* Every request has been dealt with.
Done ==
    /\ \A r \in Request : pc[r] \in {"answered", "lost"}
    /\ UNCHANGED vars

Next ==
    \/ \E r \in Request :
         Receive(r) \/ Handle(r) \/ Retry(r) \/ Deliver(r) \/ Crash(r)
    \/ Tick
    \/ Done

Spec == Init /\ [][Next]_vars

\* A handler never waits for another one: its steps are its own code and the
\* answers of S3, and botocore's connect and read timeouts ("timeout" in
\* Faults) bound the wait for these. Nothing is assumed of the clients, of S3
\* or of the clock; no call needs ever be performed.
FairSpec == Spec /\ \A r \in Request : WF_vars(Handle(r))
===============================================================================
