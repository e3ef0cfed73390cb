---------------------------- MODULE DrawingsProofs ----------------------------
(***************************************************************************)
(* Proofs about DrawingsService for every set of requests, drawings, admin *)
(* ids and forms, every initial bucket, every bound and every set of       *)
(* faults. The inductive invariant is IInv of DrawingsRequirements: the    *)
(* types and the handlers' locals first, which are inductive on their own, *)
(* then what the stored, the read and the travelling objects have in       *)
(* common with the birth of their drawing.                                 *)
(***************************************************************************)
EXTENDS DrawingsRequirements, TLAPS

-------------------------------------------------------------------------------
(* What the pure functions return.                                         *)

\* Every fixed answer is an answer, hence not None.
LEMMA FixedAnswers ==
    /\ {InvalidKMZ, DigestMismatch, MissingCredentials, AdminIdMismatch,
        DrawingNotFound, StorageFailed, Unhandled, Aborted, Ok(201, None), Ok(204, None)}
         \subseteq Answer
    /\ None \notin Answer
    /\ StorageFailed.status = 500 /\ Unhandled.status = 500
BY DataAssumption
   DEF InvalidKMZ, DigestMismatch, MissingCredentials, AdminIdMismatch, DrawingNotFound,
       StorageFailed, Unhandled, Aborted, Ok, Detail, Answer

\* A form that passes validate_kmz and _validate_digest carries a ZIP archive
\* under its own digest, and the file is back at its first byte.
LEMMA ValidForm ==
    ASSUME NEW u \in Upload
    PROVE  /\ Validate(u).refusal \in Answer \cup {None}
           /\ Validate(u).refusal = None =>
                /\ u.content \in Zip
                /\ Rest(Validate(u).file) = Whole(u.content)
                /\ Lower(u.sha256) = [of |-> Whole(u.content), case |-> "lower"]
<1>1. ValidateKmz(Received(u.content)).file = Received(u.content)
  BY DEF ValidateKmz, Received, Rewind
<1>2. ValidateKmz(Received(u.content)).ok => u.content \in Zip
  BY Zenon DEF ValidateKmz, Received
<1>3. /\ ValidateDigest(Received(u.content), u.sha256).file = Received(u.content)
      /\ ValidateDigest(Received(u.content), u.sha256).ok
           => Lower(u.sha256) = [of |-> Whole(u.content), case |-> "lower"]
  BY DEF ValidateDigest, Received, Rewind, Rest, Whole
<1>4. Rest(Received(u.content)) = Whole(u.content)
  BY DEF Rest, Received, Whole
<1> QED
  BY <1>1, <1>2, <1>3, <1>4, FixedAnswers DEF Validate

\* An object an upload writes is an object.
LEMMA NewObjectType ==
    ASSUME NEW u \in Upload, NEW d \in Drawing, NEW a \in Admin \cup {None},
           NEW c \in Stamp, NEW now \in Nat, Validate(u).refusal = None
    PROVE  NewObject(u, Validate(u).file, d, a, c, now) \in Object
<1>1. Rest(Validate(u).file) = Whole(u.content) /\ Whole(u.content) \in Bytes
  BY ValidForm DEF Whole, Bytes, Position, Upload
<1>2. Lower(u.sha256) \in Digest
  BY DEF Lower, Digest, Upload
<1>3. EncodeFilename(u.name, d) \in StoredName
  BY DEF EncodeFilename, StoredName, ShownName, Upload
<1> QED
  BY <1>1, <1>2, <1>3 DEF NewObject, Object, Stamp

\* The answers built from metadata are answers.
LEMMA MetadataAnswers ==
    ASSUME NEW o \in Object
    PROVE  UpdateResponse(o) \in Answer /\ MetadataResponse(o) \in Answer
<1>1. DecodeFilename(o.name) \in ShownName \cup {None}
  BY DataAssumption DEF DecodeFilename, Object, StoredName
<1> QED
  BY <1>1, FixedAnswers
     DEF UpdateResponse, MetadataResponse, Ok, Answer, Report, Object, Parsable, Stamp

-------------------------------------------------------------------------------
(* Types and locals.                                                       *)

\* What a client sends is an input, with the header and form its operation
\* calls for.
LEMMA RequestsAreInputs ==
    ASSUME NEW i \in Requests
    PROVE  /\ i \in Input
           /\ i.op \in {"create", "update"} => i.upload \in Uploads
           /\ i.op # "create" => i.drawing \in Drawing
           /\ i.op = "create" => i.admin = None
BY ServiceAssumption
   DEF Requests, Input, Operation, PresentableDrawing, PresentableAdmin, Disclosed

LEMMA InitLocals == Init => TypeOK /\ LocalsOK
<1> SUFFICES ASSUME Init PROVE TypeOK /\ LocalsOK
  OBVIOUS
<1>1. S3TypeOK
  BY ServiceAssumption DEF Init, S3Init, S3TypeOK
<1>2. birth \in [Drawing -> Birth \cup {None}]
  BY ServiceAssumption DEF Init, BirthOf, Birth, Object
<1>3. TypeOK
  BY <1>1, <1>2, ServiceAssumption DEF Init, TypeOK
<1>4. LocalsOK
  BY ServiceAssumption DEF Init, S3Init, LocalsOK
<1> QED
  BY <1>3, <1>4

LEMMA ReceiveLocals ==
    ASSUME TypeOK, LocalsOK, NEW r \in Request, Receive(r)
    PROVE  TypeOK' /\ LocalsOK'
<1>1. PICK i \in Requests :
        /\ input' = [input EXCEPT ![r] = i]
        /\ \/ Reply(r, MissingCredentials)
           \/ i.op = "create" /\ Goto(r, "create")
           \/ /\ i.op # "create" /\ Goto(r, "head")
              /\ i.op \in Guarded => i.admin # None
  BY DEF Receive
<1>2. i \in Input /\ i # None
  BY RequestsAreInputs, DataAssumption
<1>3. TypeOK'
  BY <1>1, <1>2, FixedAnswers
     DEF Receive, NoCall, s3vars, Reply, Goto, TypeOK, S3TypeOK, Handling, Answered
<1>4. LocalsOK'
  BY <1>1, <1>2, RequestsAreInputs
     DEF Receive, NoCall, s3vars, Reply, Goto, LocalsOK, TypeOK, S3TypeOK
<1> QED
  BY <1>3, <1>4

\* A handler's first mutating call keeps the types and is its only one.
LEMMA SendCallTypes ==
    ASSUME TypeOK, LocalsOK, NEW r \in Request, pc[r] \in {"create", "head", "update"},
           NEW d \in Drawing, NEW o \in Object \cup {None}, SendCall(r, d, o)
    PROVE  /\ S3TypeOK'
           /\ pc' = [pc EXCEPT ![r] = "calling"]
           /\ answer' = answer
           /\ call' \in [Request -> Call \cup {None}]
           /\ call' = [call EXCEPT ![r] = [drawing |-> d, object |-> o]]
           /\ call'[r] # None
           /\ attempts' \in [Request -> 0..MaxAttempts]
           /\ \A q \in Request : wire'[q] <= attempts'[q]
           /\ \A q \in Request \ {r} : wire'[q] = wire[q]
           /\ applied' = applied
<1>1. [drawing |-> d, object |-> o] \in Call /\ None \notin Call
  BY CallAssumption DEF Call
<1>2. wire[r] = 0
  BY DEF LocalsOK
<1> QED
  BY <1>1, <1>2, ServiceAssumption
     DEF SendCall, Goto, Send, TypeOK, S3TypeOK, LocalsOK

\* Answering without a call, from anywhere in a handler.
LEMMA ReplyLocals ==
    ASSUME TypeOK, LocalsOK, NEW r \in Request, pc[r] \in Handling,
           NEW a \in Answer, Reply(r, a), NoCall,
           call[r] # None => a.status \notin 400..499,
           existing' \in [Request -> Object \cup {None}],
           \A q \in Request \ {r} : existing'[q] = existing[q],
           UNCHANGED <<input, clock, birth, before>>
    PROVE  TypeOK' /\ LocalsOK'
<1>1. TypeOK'
  BY DEF Reply, NoCall, s3vars, TypeOK, S3TypeOK
<1>2. LocalsOK'
  BY DEF Reply, NoCall, s3vars, TypeOK, S3TypeOK, LocalsOK, Handling
<1> QED
  BY <1>1, <1>2

LEMMA CreateLocals ==
    ASSUME TypeOK, LocalsOK, NEW r \in Request, Create(r)
    PROVE  TypeOK' /\ LocalsOK'
<1> DEFINE u == input[r].upload
<1>1. pc[r] = "create" /\ u \in Upload /\ input[r] # None /\ call[r] = None
  BY ServiceAssumption DEF Create, LocalsOK
<1>2. CASE Reply(r, Validate(u).refusal) /\ Validate(u).refusal # None /\ NoCall
           /\ UNCHANGED birth
  BY <1>1, <1>2, ValidForm, ReplyLocals DEF Create, TypeOK, Handling
<1>3. ASSUME Validate(u).refusal = None, NEW d \in FreshDrawing, NEW a \in FreshAdmin,
             LET o == NewObject(u, Validate(u).file, d, a, clock, clock)
             IN  SendCall(r, d, o) /\ birth' = [birth EXCEPT ![d] = BirthOf(o)]
      PROVE  TypeOK' /\ LocalsOK'
  <2> DEFINE o == NewObject(u, Validate(u).file, d, a, clock, clock)
  <2>1. d \in Drawing /\ a \in Admin
    BY DEF FreshDrawing, FreshAdmin
  <2>2. clock \in Nat /\ clock \in Stamp
    BY ServiceAssumption DEF TypeOK, Stamp
  <2>3. o \in Object
    BY <1>1, <1>3, <2>1, <2>2, NewObjectType
  <2>4. BirthOf(o) \in Birth
    BY <2>3, DataAssumption DEF BirthOf, Birth, Object
  <2> HIDE DEF o
  <2>5. SendCall(r, d, o) /\ birth' = [birth EXCEPT ![d] = BirthOf(o)]
    BY <1>3 DEF o
  <2>6. TypeOK'
    BY <1>1, <2>1, <2>3, <2>4, <2>5, SendCallTypes DEF Create, TypeOK, Handling
  <2>7. input' = input /\ existing' = existing
    BY DEF Create
  <2>8. LocalsOK'
    <3>1. input[r].op = "create"
      BY <1>1 DEF LocalsOK
    <3> QED
      BY <1>1, <2>1, <2>3, <2>5, <2>7, <3>1, SendCallTypes DEF LocalsOK, TypeOK
  <2> QED
    BY <2>6, <2>8
<1> QED
  BY <1>2, <1>3 DEF Create

LEMMA HeadLocals ==
    ASSUME TypeOK, LocalsOK, NEW r \in Request, Head(r) \/ HeadFails(r)
    PROVE  TypeOK' /\ LocalsOK'
<1> DEFINE d == input[r].drawing
           o == objects[d]
<1>1. /\ pc[r] = "head" /\ pc[r] \in Handling /\ call[r] = None
      /\ d \in Drawing /\ input[r] # None /\ input[r].op # "create"
      /\ o \in Object \cup {None}
      /\ input[r].op = "update" => input[r].upload \in Uploads
      /\ UNCHANGED <<input, clock, birth, before>>
  BY DEF Head, HeadFails, LocalsOK, TypeOK, S3TypeOK, Handling
<1>2. CASE /\ Reply(r, DrawingNotFound) \/ Reply(r, StorageFailed)
           /\ NoCall /\ UNCHANGED existing
  BY <1>1, <1>2, ReplyLocals, FixedAnswers DEF TypeOK
<1>3. CASE /\ o # None /\ existing' = [existing EXCEPT ![r] = o] /\ AfterHead(r, o)
  <2>1. /\ existing' \in [Request -> Object \cup {None}]
        /\ existing'[r] = o
        /\ \A q \in Request \ {r} : existing'[q] = existing[q]
    BY <1>1, <1>3 DEF TypeOK
  <2>2. CASE NoCall /\ \/ Reply(r, AdminIdMismatch)
                       \/ Reply(r, MetadataResponse(o))
                       \/ Reply(r, Ok(204, None))
    BY <1>1, <1>3, <2>1, <2>2, ReplyLocals, FixedAnswers, MetadataAnswers
  <2>3. CASE NoCall /\ \/ Goto(r, "stream")
                       \/ input[r].op = "update" /\ Goto(r, "update")
    <3>1. TypeOK'
      BY <1>1, <2>1, <2>3 DEF Goto, NoCall, s3vars, TypeOK, S3TypeOK, Handling
    <3>2. LocalsOK'
      BY <1>1, <1>3, <2>1, <2>3 DEF Goto, NoCall, s3vars, LocalsOK, TypeOK, S3TypeOK
    <3> QED
      BY <3>1, <3>2
  <2>4. CASE input[r].op = "delete" /\ SendCall(r, d, None)
    <3>1. TypeOK'
      BY <1>1, <2>1, <2>4, SendCallTypes DEF TypeOK, Handling
    <3>2. LocalsOK'
      BY <1>1, <2>1, <2>4, SendCallTypes DEF LocalsOK, TypeOK
    <3> QED
      BY <3>1, <3>2
  <2> QED
    BY <1>3, <2>2, <2>3, <2>4 DEF AfterHead
<1> QED
  BY <1>2, <1>3 DEF Head, HeadFails

LEMMA UpdateLocals ==
    ASSUME TypeOK, LocalsOK, NEW r \in Request, Update(r)
    PROVE  TypeOK' /\ LocalsOK'
<1> DEFINE i == input[r]
           o == existing[r]
           n == UpdatedObject(i.upload, Validate(i.upload).file, i.drawing, i.admin, o, clock)
<1>1. /\ pc[r] = "update" /\ pc[r] \in Handling /\ call[r] = None
      /\ i \in Input /\ i.op = "update" /\ i.drawing \in Drawing /\ i.upload \in Upload
      /\ o \in Object
      /\ UNCHANGED <<input, existing, clock, birth, before>>
  BY ServiceAssumption DEF Update, LocalsOK, TypeOK, Handling
<1>2. CASE /\ \/ Validate(i.upload).refusal # None /\ Reply(r, Validate(i.upload).refusal)
              \/ Reply(r, UpdateResponse(o))
              \/ Reply(r, Unhandled)
           /\ NoCall
  <2> DEFINE v == Validate(i.upload).refusal
             w == UpdateResponse(o)
  <2>1. v \in Answer \cup {None} /\ w \in Answer /\ Unhandled \in Answer
    BY <1>1, FixedAnswers, MetadataAnswers, ValidForm
  <2> HIDE DEF v, w
  <2>2. PICK a \in Answer : Reply(r, a)
    <3>1. (v # None /\ Reply(r, v)) \/ Reply(r, w) \/ Reply(r, Unhandled)
      BY <1>2 DEF v, w
    <3> QED
      BY <2>1, <3>1
  <2> QED
    BY <1>1, <1>2, <2>2, ReplyLocals DEF TypeOK
<1>3. CASE Validate(i.upload).refusal = None /\ SendCall(r, i.drawing, n)
  <2>1. i.admin \in Admin \cup {None} /\ o.created \in Stamp /\ clock \in Nat
    BY <1>1, ServiceAssumption DEF Input, Object, TypeOK
  <2>2. n \in Object
    BY <1>1, <1>3, <2>1, NewObjectType DEF UpdatedObject
  <2> HIDE DEF n
  <2>3. TypeOK'
    BY <1>1, <1>3, <2>2, SendCallTypes DEF TypeOK, Handling
  <2>4. n # None
    BY <2>2, DataAssumption
  <2>5. LocalsOK'
    BY <1>1, <1>3, <2>2, <2>4, SendCallTypes DEF LocalsOK, TypeOK
  <2> QED
    BY <2>3, <2>5
<1> QED
  BY <1>2, <1>3 DEF Update

\* The answer to a confirmed call is one, and never a refusal.
LEMMA ConfirmationType ==
    ASSUME TypeOK, LocalsOK, NEW r \in Request, pc[r] = "calling"
    PROVE  Confirmation(r) \in Answer /\ Confirmation(r).status \notin 400..499
<1>1. input[r].op \in {"create", "update", "delete"}
  BY DEF LocalsOK
<1>2. CASE input[r].op = "update"
  <2>1. call[r].object \in Object
    BY <1>2 DEF LocalsOK, TypeOK, Call
  <2> QED
    BY <1>2, <2>1, MetadataAnswers DEF Confirmation, UpdateResponse, Ok, Unhandled
<1>3. CASE input[r].op \in {"create", "delete"}
  BY <1>3, FixedAnswers DEF Confirmation, Ok
<1> QED
  BY <1>1, <1>2, <1>3

LEMMA CallingLocals ==
    ASSUME TypeOK, LocalsOK, NEW r \in Request,
           Confirmed(r) \/ CallFails(r) \/ CallRefused(r)
    PROVE  TypeOK' /\ LocalsOK'
<1>1. pc[r] = "calling" /\ pc[r] \in Handling
  BY DEF Confirmed, CallFails, CallRefused, Handling
<1>2. CASE Confirmed(r) \/ CallFails(r)
  <2>1. PICK a \in Answer : Reply(r, a) /\ a.status \notin 400..499
    BY <1>1, <1>2, ConfirmationType, FixedAnswers DEF Confirmed, CallFails
  <2>2. NoCall /\ UNCHANGED <<input, existing, clock, birth, before>>
    BY <1>2 DEF Confirmed, CallFails
  <2> QED
    BY <1>1, <2>1, <2>2, ReplyLocals DEF TypeOK
<1>3. CASE CallRefused(r)
  <2>1. TypeOK'
    BY <1>3, FixedAnswers, ServiceAssumption DEF CallRefused, Refuse, Reply, TypeOK, S3TypeOK
  <2>2. LocalsOK'
    BY <1>1, <1>3, FixedAnswers DEF CallRefused, Refuse, Reply, TypeOK, S3TypeOK, LocalsOK
  <2> QED
    BY <2>1, <2>2
<1> QED
  BY <1>2, <1>3

\* A download is cut off, or complete with a name and a body.
LEMMA StreamAnswer ==
    ASSUME TypeOK, LocalsOK, NEW r \in Request, Stream(r) \/ StreamFails(r)
    PROVE  \/ Reply(r, Aborted)
           \/ \E shown : Ok(200, shown) \in Answer /\ Reply(r, Ok(200, shown))
<1> DEFINE d == input[r].drawing
           shown == [name     |-> DownloadName(existing[r].name, d),
                     body     |-> objects[d].body,
                     created  |-> None,
                     modified |-> None]
<1>1. d \in Drawing /\ existing[r] \in Object
  BY DEF Stream, StreamFails, LocalsOK, TypeOK
<1>2. DownloadName(existing[r].name, d) \in ShownName
  BY <1>1, DataAssumption DEF DownloadName, DecodeFilename, Object, StoredName, ShownName
<1>3. objects[d] # None => objects[d].body \in Bytes
  BY <1>1 DEF TypeOK, S3TypeOK, Object
<1>4. objects[d] # None => Ok(200, shown) \in Answer
  BY <1>2, <1>3 DEF Ok, Answer, Report, Stamp
<1> HIDE DEF shown
<1>5. \/ Reply(r, Aborted)
      \/ objects[d] # None /\ Reply(r, Ok(200, shown))
  BY DEF Stream, StreamFails, shown
<1> QED
  BY <1>4, <1>5

LEMMA StreamLocals ==
    ASSUME TypeOK, LocalsOK, NEW r \in Request, Stream(r) \/ StreamFails(r)
    PROVE  TypeOK' /\ LocalsOK'
<1>1. pc[r] = "stream" /\ pc[r] \in Handling /\ call[r] = None
  BY DEF Stream, StreamFails, Handling, LocalsOK
<1>2. PICK a \in Answer : Reply(r, a)
  BY StreamAnswer, FixedAnswers
<1> QED
  BY <1>1, <1>2, ReplyLocals DEF Stream, StreamFails, TypeOK

LEMMA EnvironmentLocals ==
    ASSUME TypeOK, LocalsOK, NEW r \in Request,
           Retry(r) \/ Deliver(r) \/ Crash(r)
    PROVE  TypeOK' /\ LocalsOK'
<1>1. CASE Retry(r)
  <2>1. TypeOK'
    BY <1>1, ServiceAssumption DEF Retry, Send, TypeOK, S3TypeOK, LocalsOK
  <2>2. LocalsOK'
    BY <1>1 DEF Retry, Send, TypeOK, S3TypeOK, LocalsOK
  <2> QED
    BY <2>1, <2>2
<1>2. CASE Deliver(r)
  <2>1. call[r].drawing \in Drawing /\ call[r].object \in Object \cup {None}
    BY <1>2 DEF Deliver, TypeOK, Call
  <2>2. TypeOK'
    BY <1>2, <2>1, ServiceAssumption DEF Deliver, Perform, locals, TypeOK, S3TypeOK
  <2>3. LocalsOK'
    BY <1>2 DEF Deliver, Perform, locals, TypeOK, S3TypeOK, LocalsOK
  <2> QED
    BY <2>2, <2>3
<1>3. CASE Crash(r)
  <2>1. TypeOK'
    BY <1>3 DEF Crash, s3vars, TypeOK, S3TypeOK
  <2>2. LocalsOK'
    BY <1>3 DEF Crash, s3vars, TypeOK, S3TypeOK, LocalsOK, Handling
  <2> QED
    BY <2>1, <2>2
<1> QED
  BY <1>1, <1>2, <1>3

LEMMA NextLocals ==
    ASSUME TypeOK, LocalsOK, [Next]_vars
    PROVE  TypeOK' /\ LocalsOK'
<1>1. CASE \E r \in Request :
             \/ Receive(r) \/ Create(r) \/ Head(r) \/ HeadFails(r) \/ Update(r)
             \/ Confirmed(r) \/ CallFails(r) \/ CallRefused(r)
             \/ Stream(r) \/ StreamFails(r)
  BY <1>1, ReceiveLocals, CreateLocals, HeadLocals, UpdateLocals, CallingLocals, StreamLocals
<1>2. CASE \E r \in Request : Retry(r) \/ Deliver(r) \/ Crash(r)
  BY <1>2, EnvironmentLocals
<1>3. CASE Tick \/ UNCHANGED vars
  <2>1. CASE Tick
    <3>1. TypeOK'
      BY <2>1, ServiceAssumption DEF Tick, s3vars, locals, TypeOK, S3TypeOK
    <3>2. LocalsOK'
      BY <2>1 DEF Tick, s3vars, locals, LocalsOK
    <3> QED
      BY <3>1, <3>2
  <2>2. CASE UNCHANGED vars
    BY <2>2 DEF vars, locals, TypeOK, S3TypeOK, LocalsOK
  <2> QED
    BY <1>3, <2>1, <2>2
<1> QED
  BY <1>1, <1>2, <1>3 DEF Next, Handle, Done

-------------------------------------------------------------------------------
(* Identity and soundness of the objects.                                  *)

\* An object with some birth has the birth of the drawing it belongs to.
LEMMA BirthType ==
    ASSUME NEW o \in Object
    PROVE  BirthOf(o) = [admin |-> o.admin, created |-> o.created] /\ BirthOf(o) # None
<1>1. o # None
  BY DataAssumption
<1>2. BirthOf(o) = [admin |-> o.admin, created |-> o.created]
  BY <1>1 DEF BirthOf
<1>3. [admin |-> o.admin, created |-> o.created] \in Birth
  BY DEF Birth, Object
<1> QED
  BY <1>2, <1>3, BirthAssumption

Identities == ObjectsOK /\ BirthsInPast /\ CallersAuthorized

LEMMA InitIdentities == Init => Identities
<1> SUFFICES ASSUME Init PROVE Identities
  OBVIOUS
<1>1. \A d \in Drawing : objects[d] # None => objects[d] \in Object
  BY ServiceAssumption DEF Init, S3Init
<1>2. \A d \in Drawing : birth[d] = BirthOf(objects[d])
  BY DEF Init, S3Init
<1>3. ObjectsOK
  BY <1>1, <1>2, BirthType DEF Init, S3Init, ObjectsOK, OfDrawing
<1>4. BirthsInPast
  <2> SUFFICES ASSUME NEW d \in Drawing, birth[d] # None, Parsable(birth[d].created)
               PROVE  birth[d].created <= clock
    BY DEF BirthsInPast
  <2>1. objects[d] \in Object /\ objects[d] = InitialObjects[d] /\ objects[d] # None
    BY <1>1, <1>2, DataAssumption DEF BirthOf, Init, S3Init
  <2>2. birth[d].created = InitialObjects[d].created
    BY <1>2, <2>1, BirthType
  <2> QED
    BY <2>1, <2>2, ServiceAssumption DEF Init
<1>5. CallersAuthorized
  BY DEF Init, CallersAuthorized
<1> QED
  BY <1>3, <1>4, <1>5 DEF Identities

\* A step that touches no object, no call and no birth, and authorizes nobody.
LEMMA QuietIdentities ==
    ASSUME Identities, UNCHANGED <<objects, input, existing, call, clock, birth>>,
           \A q \in Request : pc'[q] = "update" => pc[q] = "update"
    PROVE  Identities'
BY DEF Identities, ObjectsOK, BirthsInPast, CallersAuthorized, OfDrawing, Sound

LEMMA ReceiveIdentities ==
    ASSUME TypeOK, LocalsOK, Identities, NEW r \in Request, Receive(r)
    PROVE  Identities'
<1>1. /\ UNCHANGED <<objects, existing, call, clock, birth>>
      /\ existing[r] = None /\ call[r] = None
      /\ \A q \in Request \ {r} : input'[q] = input[q] /\ pc'[q] = pc[q]
      /\ pc'[r] # "update"
  BY DEF Receive, NoCall, s3vars, Reply, Goto, LocalsOK, TypeOK
<1> QED
  BY <1>1 DEF Identities, ObjectsOK, BirthsInPast, CallersAuthorized, OfDrawing, Sound

LEMMA CreateIdentities ==
    ASSUME TypeOK, LocalsOK, Identities, NEW r \in Request, Create(r)
    PROVE  Identities'
<1> DEFINE u == input[r].upload
<1>1. u \in Upload /\ input[r].op = "create" /\ pc[r] = "create"
  BY ServiceAssumption DEF Create, LocalsOK
<1>2. CASE Reply(r, Validate(u).refusal) /\ NoCall /\ UNCHANGED birth
  <2>1. \A q \in Request : pc'[q] = "update" => pc[q] = "update"
    BY <1>2 DEF Reply, TypeOK
  <2> QED
    BY <1>2, <2>1, QuietIdentities DEF Create, NoCall, s3vars
<1>3. ASSUME Validate(u).refusal = None, NEW d \in FreshDrawing, NEW a \in FreshAdmin,
             LET o == NewObject(u, Validate(u).file, d, a, clock, clock)
             IN  SendCall(r, d, o) /\ birth' = [birth EXCEPT ![d] = BirthOf(o)]
      PROVE  Identities'
  <2> DEFINE o == NewObject(u, Validate(u).file, d, a, clock, clock)
  <2>1. d \in Drawing /\ a \in Admin /\ birth[d] = None
    BY DEF FreshDrawing, FreshAdmin
  <2>2. clock \in Nat /\ clock \in Stamp
    BY ServiceAssumption DEF TypeOK, Stamp
  <2>3. o \in Object
    BY <1>1, <1>3, <2>1, <2>2, NewObjectType
  <2>4. Sound(o) /\ o.created = clock
    BY <1>1, <1>3, <2>2, ValidForm DEF Sound, NewObject
  <2> HIDE DEF o
  <2>5. /\ SendCall(r, d, o)
        /\ birth' = [birth EXCEPT ![d] = BirthOf(o)]
        /\ UNCHANGED <<objects, input, existing, clock>>
    BY <1>3 DEF o, Create, SendCall, Send
  <2>6. /\ call' = [call EXCEPT ![r] = [drawing |-> d, object |-> o]]
        /\ \A q \in Request : pc'[q] = "update" => pc[q] = "update"
    BY <1>1, <2>1, <2>3, <2>5, SendCallTypes DEF TypeOK
  <2>7. /\ birth'[d] = BirthOf(o) /\ BirthOf(o) # None /\ BirthOf(o).created = clock
        /\ \A e \in Drawing : birth[e] # None => e # d /\ birth'[e] = birth[e]
        /\ \A e \in Drawing \ {d} : birth'[e] = birth[e]
    BY <2>1, <2>3, <2>4, <2>5, BirthType DEF TypeOK
  <2>8. \A e \in Drawing, p \in Object : OfDrawing(p, e) => OfDrawing(p, e)'
    BY <2>7 DEF OfDrawing, BirthOf
  <2>9. \A p \in Object : Sound(p) => Sound(p)'
    BY <2>5 DEF Sound
  <2>10. ObjectsOK'
    <3>1. \A e \in Drawing : objects'[e] # None =>
            OfDrawing(objects[e], e)' /\ (objects'[e] = InitialObjects[e] \/ Sound(objects[e])')
      BY <2>5, <2>8, <2>9 DEF Identities, ObjectsOK, TypeOK, S3TypeOK, OfDrawing, Sound
    <3>2. \A q \in Request : existing'[q] # None => OfDrawing(existing[q], input[q].drawing)'
      BY <2>5, <2>7 DEF Identities, ObjectsOK, TypeOK, OfDrawing, BirthOf
    <3>3. \A q \in Request \ {r} : call'[q] # None /\ call'[q].object # None =>
            OfDrawing(call[q].object, call[q].drawing)' /\ Sound(call[q].object)'
      BY <2>5, <2>6, <2>8, <2>9 DEF Identities, ObjectsOK, TypeOK, Call, OfDrawing, Sound
    <3>4. OfDrawing(call[r].object, call[r].drawing)' /\ Sound(call[r].object)'
      BY <2>4, <2>5, <2>6, <2>7 DEF TypeOK, OfDrawing, Sound
    <3> QED
      BY <3>1, <3>2, <3>3, <3>4 DEF ObjectsOK
  <2>11. BirthsInPast'
    BY <2>2, <2>5, <2>7 DEF Identities, BirthsInPast
  <2>12. CallersAuthorized'
    BY <1>1, <2>5, <2>6, <2>7 DEF Identities, CallersAuthorized, TypeOK, Call
  <2> QED
    BY <2>10, <2>11, <2>12 DEF Identities
<1> QED
  BY <1>2, <1>3 DEF Create

LEMMA HeadIdentities ==
    ASSUME TypeOK, LocalsOK, Identities, NEW r \in Request, Head(r)
    PROVE  Identities'
<1> DEFINE d == input[r].drawing
           o == objects[d]
<1>1. /\ d \in Drawing /\ o \in Object \cup {None} /\ call[r] = None
      /\ input[r].op \in Guarded => input[r].admin # None
      /\ pc[r] = "head" /\ input[r].op # "create"
      /\ UNCHANGED <<input, clock, birth, before>>
  BY DEF Head, LocalsOK, TypeOK, S3TypeOK
<1>2. CASE /\ Reply(r, DrawingNotFound) \/ Reply(r, StorageFailed)
           /\ NoCall /\ UNCHANGED existing
  <2>1. \A q \in Request : pc'[q] = "update" => pc[q] = "update"
    BY <1>2 DEF Reply, TypeOK
  <2> QED
    BY <1>1, <1>2, <2>1, QuietIdentities DEF NoCall, s3vars
<1>3. CASE /\ o # None /\ existing' = [existing EXCEPT ![r] = o] /\ AfterHead(r, o)
  <2>1. /\ existing'[r] = o
        /\ \A q \in Request \ {r} : existing'[q] = existing[q]
    BY <1>1, <1>3 DEF TypeOK
  <2>2. OfDrawing(o, d)
    BY <1>1, <1>3 DEF Identities, ObjectsOK
  <2>3. birth[d] # None /\ birth[d].admin = o.admin
    BY <1>1, <1>3, <2>2, BirthType DEF OfDrawing
  <2>4. UNCHANGED objects
    BY <1>3 DEF AfterHead, NoCall, s3vars, SendCall, Send
  <2>5. \/ /\ UNCHANGED call
           /\ \A q \in Request : pc'[q] = "update" => 
                \/ pc[q] = "update"
                \/ q = r /\ input[r].admin = o.admin /\ input[r].admin # None
        \/ /\ call' = [call EXCEPT ![r] = [drawing |-> d, object |-> None]]
           /\ input[r].admin = o.admin
           /\ \A q \in Request : pc'[q] = "update" => pc[q] = "update" /\ q # r
    BY <1>1, <1>3
       DEF AfterHead, NoCall, Reply, Goto, SendCall, Authorized, Guarded, TypeOK
  <2>6. ObjectsOK'
    <3>1. \A q \in Request : existing'[q] # None => OfDrawing(existing[q], input[q].drawing)'
      BY <1>1, <2>1, <2>2 DEF Identities, ObjectsOK, OfDrawing
    <3>2. \A q \in Request : call'[q] # None /\ call'[q].object # None =>
            call'[q] = call[q]
      BY <1>1, <2>5 DEF TypeOK
    <3> QED
      BY <1>1, <2>4, <3>1, <3>2 DEF Identities, ObjectsOK, OfDrawing, Sound
  <2>7. BirthsInPast'
    BY <1>1 DEF Identities, BirthsInPast
  <2>8. CallersAuthorized'
    BY <1>1, <2>1, <2>3, <2>5 DEF Identities, CallersAuthorized, TypeOK
  <2> QED
    BY <2>6, <2>7, <2>8 DEF Identities
<1> QED
  BY <1>2, <1>3 DEF Head

LEMMA UpdateIdentities ==
    ASSUME TypeOK, LocalsOK, Identities, NEW r \in Request, Update(r)
    PROVE  Identities'
<1> DEFINE i == input[r]
           o == existing[r]
           n == UpdatedObject(i.upload, Validate(i.upload).file, i.drawing, i.admin, o, clock)
<1>1. /\ pc[r] = "update"
      /\ i \in Input /\ i.op = "update" /\ i.drawing \in Drawing /\ i.upload \in Upload
      /\ o \in Object /\ o # None
      /\ UNCHANGED <<objects, input, existing, clock, birth, before>>
  BY ServiceAssumption
     DEF Update, LocalsOK, TypeOK, NoCall, s3vars, SendCall, Send
<1>2. CASE /\ \E a \in Answer \cup {None} : Reply(r, a)
           /\ NoCall
  <2>1. \A q \in Request : pc'[q] = "update" => pc[q] = "update"
    BY <1>2 DEF Reply, TypeOK
  <2> QED
    BY <1>1, <1>2, <2>1, QuietIdentities DEF NoCall, s3vars
<1>3. CASE Validate(i.upload).refusal = None /\ SendCall(r, i.drawing, n)
  <2>1. i.admin \in Admin \cup {None} /\ o.created \in Stamp /\ clock \in Nat
    BY <1>1, ServiceAssumption DEF Input, Object, TypeOK
  <2>2. n \in Object
    BY <1>1, <1>3, <2>1, NewObjectType DEF UpdatedObject
  <2>3. OfDrawing(o, i.drawing) /\ i.admin = o.admin
    BY <1>1 DEF Identities, ObjectsOK, CallersAuthorized
  <2>4. n.admin = o.admin /\ n.created = o.created /\ n.modified = clock
    BY <2>3 DEF UpdatedObject, NewObject
  <2>5. /\ birth[i.drawing] # None
        /\ birth[i.drawing] = [admin |-> o.admin, created |-> o.created]
    BY <1>1, <2>3, BirthType DEF OfDrawing
  <2>6. OfDrawing(n, i.drawing)
    BY <2>2, <2>4, <2>5, BirthType DEF OfDrawing
  <2>7. Parsable(o.created) => o.created <= clock
    BY <1>1, <2>5 DEF Identities, BirthsInPast
  <2>8. Sound(n)
    <3>1. \E c \in Zip : /\ n.body = Whole(c)
                         /\ n.sha256 = [of |-> Whole(c), case |-> "lower"]
      BY <1>1, <1>3, ValidForm DEF UpdatedObject, NewObject
    <3> QED
      BY <2>1, <2>4, <2>7, <3>1 DEF Sound
  <2> HIDE DEF n
  <2>9. /\ call' = [call EXCEPT ![r] = [drawing |-> i.drawing, object |-> n]]
        /\ \A q \in Request : pc'[q] = "update" => pc[q] = "update"
    BY <1>1, <1>3, <2>2, SendCallTypes DEF TypeOK
  <2>10. ObjectsOK'
    BY <1>1, <2>6, <2>8, <2>9 DEF Identities, ObjectsOK, OfDrawing, Sound, TypeOK
  <2>11. BirthsInPast'
    BY <1>1 DEF Identities, BirthsInPast
  <2>12. CallersAuthorized'
    BY <1>1, <2>3, <2>5, <2>9 DEF Identities, CallersAuthorized, TypeOK
  <2> QED
    BY <2>10, <2>11, <2>12 DEF Identities
<1>4. /\ Validate(i.upload).refusal \in Answer \cup {None}
      /\ UpdateResponse(o) \in Answer /\ Unhandled \in Answer
  BY <1>1, ValidForm, MetadataAnswers, FixedAnswers
<1> QED
  BY <1>2, <1>3, <1>4 DEF Update

LEMMA DeliverIdentities ==
    ASSUME TypeOK, Identities, NEW r \in Request, Deliver(r)
    PROVE  Identities'
<1>1. /\ UNCHANGED <<pc, input, existing, call, clock, birth>>
      /\ objects' = [objects EXCEPT ![call[r].drawing] = call[r].object]
      /\ call[r] # None
  BY DEF Deliver, Perform, locals
<1> QED
  BY <1>1 DEF Identities, ObjectsOK, BirthsInPast, CallersAuthorized, OfDrawing, Sound,
              TypeOK, S3TypeOK

LEMMA TickIdentities ==
    ASSUME TypeOK, Identities, Tick
    PROVE  Identities'
<1>1. clock \in Nat /\ clock' = clock + 1
  BY ServiceAssumption DEF Tick, TypeOK
<1>2. UNCHANGED <<pc, objects, input, existing, call, birth>>
  BY DEF Tick, s3vars, locals
<1>3. \A o \in Object : Sound(o) => Sound(o)'
  BY <1>1 DEF Sound
<1>4. ObjectsOK'
  BY <1>1, <1>2, <1>3 DEF Identities, ObjectsOK, OfDrawing, Sound, TypeOK, S3TypeOK, Call
<1>5. BirthsInPast'
  BY <1>1, <1>2 DEF Identities, BirthsInPast, Parsable
<1>6. CallersAuthorized'
  BY <1>2 DEF Identities, CallersAuthorized
<1> QED
  BY <1>4, <1>5, <1>6 DEF Identities

\* The steps that only answer, send again or stop.
LEMMA OtherIdentities ==
    ASSUME TypeOK, LocalsOK, Identities, NEW r \in Request,
           \/ HeadFails(r) \/ Confirmed(r) \/ CallFails(r) \/ CallRefused(r)
           \/ Stream(r) \/ StreamFails(r) \/ Retry(r) \/ Crash(r) \/ UNCHANGED vars
    PROVE  Identities'
<1>1. UNCHANGED <<objects, input, existing, call, clock, birth>>
  BY DEF HeadFails, Confirmed, CallFails, CallRefused, Stream, StreamFails, Retry, Crash,
         NoCall, s3vars, Send, Refuse, vars, locals
<1>2. \A q \in Request : pc'[q] = "update" => pc[q] = "update"
  BY DEF HeadFails, Confirmed, CallFails, CallRefused, Stream, StreamFails, Retry, Crash,
         Reply, TypeOK, vars, locals
<1> QED
  BY <1>1, <1>2, QuietIdentities

LEMMA NextIdentities ==
    ASSUME TypeOK, LocalsOK, Identities, [Next]_vars
    PROVE  Identities'
<1>1. CASE \E r \in Request :
             Receive(r) \/ Create(r) \/ Head(r) \/ Update(r) \/ Deliver(r)
  BY <1>1, ReceiveIdentities, CreateIdentities, HeadIdentities, UpdateIdentities,
     DeliverIdentities
<1>2. CASE \E r \in Request :
             \/ HeadFails(r) \/ Confirmed(r) \/ CallFails(r) \/ CallRefused(r)
             \/ Stream(r) \/ StreamFails(r) \/ Retry(r) \/ Crash(r)
  BY <1>2, OtherIdentities
<1>3. CASE Tick
  BY <1>3, TickIdentities
<1>4. CASE UNCHANGED vars
  <2>1. UNCHANGED <<objects, input, existing, call, clock, birth>> /\ pc' = pc
    BY <1>4 DEF vars, locals
  <2> QED
    BY <2>1, QuietIdentities
<1> QED
  BY <1>1, <1>2, <1>3, <1>4 DEF Next, Handle, Done

-------------------------------------------------------------------------------
(* What follows from the invariant.                                        *)

LEMMA Consequences ==
    ASSUME IInv
    PROVE  TypeOK /\ Integrity /\ IdentityPreserved /\ ModifiedAfterCreated
<1>1. TypeOK /\ Integrity /\ ModifiedAfterCreated
  BY DEF IInv, ObjectsOK, Sound, Integrity, ModifiedAfterCreated
<1>2. IdentityPreserved
  <2> SUFFICES ASSUME NEW d \in Drawing, objects[d] # None
               PROVE  /\ birth[d] # None
                      /\ objects[d].admin = birth[d].admin
                      /\ objects[d].created = birth[d].created
    BY DEF IdentityPreserved
  <2>1. objects[d] \in Object /\ OfDrawing(objects[d], d)
    BY DEF IInv, TypeOK, S3TypeOK, ObjectsOK
  <2> QED
    BY <2>1, BirthType DEF OfDrawing
<1> QED
  BY <1>1, <1>2

LEMMA StepAuthorized ==
    ASSUME IInv, [Next]_vars
    PROVE  HolderMutates
<1> SUFFICES ASSUME NEW d \in Drawing, objects[d] # None, objects'[d] # objects[d]
             PROVE  \E r \in Request :
                      /\ wire'[r] < wire[r] /\ Mutates(r, d)
                      /\ objects'[d] = call[r].object
                      /\ input[r].op = "create" \/ input[r].admin = birth[d].admin
                      /\ answer[r] = None \/ answer[r].status \notin 400..499
  BY DEF HolderMutates
<1>1. PICK r \in Request : Deliver(r)
  <2>1. ASSUME NEW r \in Request, Receive(r) \/ Handle(r) \/ Retry(r) \/ Crash(r)
        PROVE  UNCHANGED objects
    BY <2>1
       DEF Handle, s3vars, Receive, Create, Head, HeadFails, AfterHead, Update, Confirmed,
           CallFails, CallRefused, Stream, StreamFails, Retry, Crash, NoCall, SendCall, Send,
           Refuse
  <2>2. Tick \/ UNCHANGED vars => UNCHANGED objects
    BY DEF Tick, vars, s3vars
  <2> QED
    BY <2>1, <2>2 DEF Next, Done
<1>2. /\ wire[r] > 0 /\ wire' = [wire EXCEPT ![r] = @ - 1]
      /\ objects' = [objects EXCEPT ![call[r].drawing] = call[r].object]
      /\ call[r] # None
  BY <1>1 DEF Deliver, Perform
<1>3. wire'[r] < wire[r]
  BY <1>2, ServiceAssumption DEF IInv, TypeOK, S3TypeOK
<1>4. call[r].drawing = d /\ objects'[d] = call[r].object
  BY <1>2 DEF IInv, TypeOK, S3TypeOK
<1>5. /\ input[r].op = "create" \/ input[r].admin = birth[d].admin
      /\ answer[r] = None \/ answer[r].status \notin 400..499
  BY <1>2, <1>4 DEF IInv, CallersAuthorized, LocalsOK
<1> QED
  BY <1>2, <1>3, <1>4, <1>5 DEF Mutates
-------------------------------------------------------------------------------
(* The theorems.                                                           *)

\* IInv holds in every state of every behavior: the three facts an inductive
\* invariant is made of, for the whole next-state relation.
THEOREM Inductive == Spec => []IInv
<1>1. Init => IInv
  BY InitLocals, InitIdentities DEF IInv, Identities
<1>2. IInv /\ [Next]_vars => IInv'
  BY NextLocals, NextIdentities DEF IInv, Identities
<1> QED
  BY <1>1, <1>2, PTL DEF Spec

\* Every variable keeps its type: in particular no more copies of a call are
\* under way than botocore was allowed to send.
THEOREM TypeCorrect == Spec => []TypeOK
BY Consequences, Inductive, PTL

\* However updates overlap, a stored drawing has the admin id and the
\* creation time of its birth.
THEOREM IdentityCorrect == Spec => []IdentityPreserved
BY Consequences, Inductive, PTL

\* No object the service writes is cut, misread or stored under a digest of
\* something else.
THEOREM IntegrityCorrect == Spec => []Integrity
BY Consequences, Inductive, PTL

\* A drawing the service has written was not modified before it was created.
THEOREM TimesCorrect == Spec => []ModifiedAfterCreated
BY Consequences, Inductive, PTL

\* An object is changed or removed only by its creator or a holder of its
\* admin id, and a request refused with a 4xx changes nothing, before or after.
THEOREM MutationsAuthorized == Spec => OnlyHolderMutates
BY StepAuthorized, Inductive, PTL DEF Spec, OnlyHolderMutates
===============================================================================
