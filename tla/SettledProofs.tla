---------------------------- MODULE SettledProofs ----------------------------
(***************************************************************************)
(* Proofs about CachedService, for every value of the constants that the   *)
(* assumptions below admit, with any time-outs, refusals, retries and      *)
(* crashes: the last confirmed write is what the bucket holds and what the *)
(* readers see, if every other write was over (Finished) before it came    *)
(* in; and the times and the content a client is told of are right, if the *)
(* digests and times already recorded in the bucket are (InitialRecorded). *)
(* time_reversal shows what happens when writes overlap, unusable_times    *)
(* what happens when the recorded times are not right.                     *)
(***************************************************************************)
EXTENDS CachedProofs

-------------------------------------------------------------------------------
(* What a handler reads and sends first is also the last it reads or sends. *)

LEMMA FirstRead ==
    ASSUME CInv, [CachedNext]_vars, NEW r \in Request,
           existing[r] = None, existing'[r] # None
    PROVE  /\ Head(r)
           /\ input[r].drawing \in Drawing
           /\ existing'[r] = objects[input[r].drawing]
           /\ UNCHANGED <<objects, applied, input, before>>
<1>1. Head(r)
  BY Actor
     DEF Own, CInv, IInv, Receive, ServeCached, Create, HeadFails, Update, Confirmed, CallFails,
         CallRefused, Stream, StreamFails, Crash
<1>2. existing'[r] = objects[input[r].drawing] /\ UNCHANGED <<input, before>>
  BY <1>1 DEF Head, CInv, IInv, TypeOK
<1>3. input[r].drawing \in Drawing
  BY <1>1 DEF Head, CInv, IInv, LocalsOK
<1>4. UNCHANGED <<objects, applied>>
  BY <1>1 DEF Head, AfterHead, NoCall, s3vars, SendCall, Send
<1> QED
  BY <1>1, <1>2, <1>3, <1>4

\* The object an upload sends has a name and the body of the form's content.
LEMMA ObjectSent ==
    ASSUME NEW u \in Upload, NEW d \in Drawing, NEW a, NEW c, NEW now,
           Validate(u).refusal = None
    PROVE  LET o == NewObject(u, Validate(u).file, d, a, c, now)
           IN  o.name # None /\ o.body = Whole(u.content)
<1>1. EncodeFilename(u.name, d) \in StoredName
  BY DEF EncodeFilename, StoredName, ShownName, Upload
<1> QED
  BY <1>1, ValidForm, DataAssumption DEF NewObject

LEMMA FirstCall ==
    ASSUME CInv, [CachedNext]_vars, NEW r \in Request, call[r] = None, call'[r] # None
    PROVE  /\ UNCHANGED <<objects, applied, input, before>>
           /\ \/ /\ pc[r] = "create" /\ input[r].op = "create"
                 /\ call'[r].drawing \in FreshDrawing
                 /\ call'[r].object # None /\ call'[r].object.name # None
              \/ /\ pc[r] = "update" /\ input[r].op = "update"
                 /\ call'[r].drawing = input[r].drawing
                 /\ call'[r].object # None /\ call'[r].object.name # None
                 /\ call'[r].object.body = Whole(input[r].upload.content)
              \/ /\ pc[r] = "head" /\ input[r].op = "delete"
                 /\ call'[r].drawing = input[r].drawing /\ call'[r].object = None
                 /\ objects[input[r].drawing] # None
<1>1. Create(r) \/ Head(r) \/ Update(r)
  BY Actor
     DEF Own, CInv, IInv, Receive, ServeCached, HeadFails, Confirmed, CallFails,
         CallRefused, Stream, StreamFails, Crash, NoCall
<1>2. UNCHANGED <<objects, applied, input, before>>
  BY <1>1 DEF Create, Head, AfterHead, Update, NoCall, s3vars, SendCall, Send
<1>3. call'[r] \in Call /\ None \notin Object
  BY CachedIInv, DataAssumption DEF CInv, IInv, TypeOK
<1>4. CASE Create(r)
  <2>1. input[r].upload \in Upload /\ pc[r] = "create" /\ input[r].op = "create"
    BY <1>4, ServiceAssumption DEF Create, CInv, IInv, LocalsOK
  <2>2. PICK d \in FreshDrawing, a \in FreshAdmin :
          /\ Validate(input[r].upload).refusal = None
          /\ SendCall(r, d, NewObject(input[r].upload, Validate(input[r].upload).file, d, a,
                                      clock, clock))
    BY <1>4 DEF Create, NoCall
  <2> DEFINE o == NewObject(input[r].upload, Validate(input[r].upload).file, d, a, clock, clock)
  <2>3. d \in Drawing /\ a \in Admin /\ clock \in Nat /\ clock \in Stamp
    BY ServiceAssumption DEF FreshDrawing, FreshAdmin, CInv, IInv, TypeOK, Stamp
  <2>4. o \in Object /\ o.name # None
    <3>1. o \in Object
      BY <2>1, <2>2, <2>3, NewObjectType
    <3>2. o.name # None
      BY <2>1, <2>2, <2>3, ObjectSent
    <3> QED
      BY <3>1, <3>2
  <2> HIDE DEF o
  <2>5. call'[r] = [drawing |-> d, object |-> o]
    BY <2>2 DEF o, SendCall, CInv, IInv, TypeOK
  <2> QED
    BY <1>2, <1>3, <2>1, <2>4, <2>5
<1>5. CASE Update(r)
  <2> DEFINE i == input[r]
             o == UpdatedObject(i.upload, Validate(i.upload).file, i.drawing, i.admin,
                                existing[r], clock)
  <2>1. /\ i.upload \in Upload /\ i.drawing \in Drawing /\ pc[r] = "update"
        /\ i.op = "update" /\ i.admin \in Admin \cup {None} /\ clock \in Nat
        /\ existing[r].created \in Stamp
    BY <1>5, ServiceAssumption DEF Update, CInv, IInv, LocalsOK, TypeOK, Input, Object
  <2>2. Validate(i.upload).refusal = None /\ SendCall(r, i.drawing, o)
    BY <1>5 DEF Update, NoCall
  <2>3. o \in Object /\ o.name # None /\ o.body = Whole(i.upload.content)
    <3>1. o \in Object
      BY <2>1, <2>2, NewObjectType DEF UpdatedObject
    <3>2. o.name # None /\ o.body = Whole(i.upload.content)
      BY <2>1, <2>2, ObjectSent DEF UpdatedObject
    <3> QED
      BY <3>1, <3>2
  <2> HIDE DEF o
  <2>4. call'[r] = [drawing |-> i.drawing, object |-> o]
    BY <2>2 DEF SendCall, CInv, IInv, TypeOK
  <2> QED
    BY <1>2, <1>3, <2>1, <2>3, <2>4
<1>6. CASE Head(r)
  <2>1. /\ pc[r] = "head" /\ input[r].op = "delete"
        /\ objects[input[r].drawing] # None /\ SendCall(r, input[r].drawing, None)
    BY <1>6 DEF Head, AfterHead, NoCall
  <2>2. call'[r] = [drawing |-> input[r].drawing, object |-> None]
    BY <2>1 DEF SendCall, CInv, IInv, TypeOK
  <2> QED
    BY <1>2, <2>1, <2>2
<1> QED
  BY <1>1, <1>4, <1>5, <1>6

-------------------------------------------------------------------------------
(* What is sent.                                                           *)

SentOK ==
    \A r \in Request : call[r] # None =>
        /\ input[r].op \in {"create", "update", "delete"}
        /\ call[r].object = None <=> input[r].op = "delete"
        /\ call[r].object # None => call[r].object.name # None
        /\ input[r].op = "update" => call[r].object.body = Whole(input[r].upload.content)

LEMMA SentStays ==
    ASSUME CInv, SentOK, [CachedNext]_vars
    PROVE  SentOK'
<1> SUFFICES ASSUME NEW r \in Request, call'[r] # None
             PROVE  /\ input'[r].op \in {"create", "update", "delete"}
                    /\ call'[r].object = None <=> input'[r].op = "delete"
                    /\ call'[r].object # None => call'[r].object.name # None
                    /\ input'[r].op = "update" =>
                          call'[r].object.body = Whole(input'[r].upload.content)
  BY DEF SentOK
<1>1. CASE call[r] # None
  <2>1. call'[r] = call[r] /\ input'[r] = input[r]
    BY <1>1, NextGrows DEF Grows, CInv, IInv, LocalsOK
  <2> QED
    BY <1>1, <2>1 DEF SentOK
<1>2. CASE call[r] = None
  BY <1>2, FirstCall
<1> QED
  BY <1>1, <1>2

-------------------------------------------------------------------------------
(* What is recorded, and what is told of it.                               *)

\* The recorded digest, if there is one, is the body's, and the recorded times
\* are in order.
Recorded(o) ==
    /\ o.sha256 # None => o.sha256.of = o.body
    /\ Parsable(o.created) /\ Parsable(o.modified) => o.created <= o.modified

\* What the bucket holds at the start is recorded as the service does it;
\* entries may be missing or garbled.
InitialRecorded ==
    \A d \in Drawing : InitialObjects[d] # None => Recorded(InitialObjects[d])

\* What answer a to request r says about times and content is true.
Telling(r, a) ==
    LET i == input[r]
        b == birth[i.drawing]
        o == existing[r]
    IN  /\ a.report # None /\ i.op # "get" =>
              /\ b # None /\ a.report.created = b.created
              /\ a.report.created <= a.report.modified
        /\ a.kind = "ok" /\ i.op = "update" =>
              \/ call[r] # None
              \/ o # None /\ o.sha256 # None /\ o.sha256.of = Whole(i.upload.content)

RecordsOK ==
    \A r \in Request :
        /\ existing[r] # None => Recorded(existing[r])
        /\ answer[r] # None => Telling(r, answer[r])

LEMMA SoundRecorded ==
    ASSUME NEW o \in Object, Sound(o)
    PROVE  Recorded(o)
BY DEF Sound, Recorded, Parsable

LEMMA StoredRecorded ==
    ASSUME CInv, InitialRecorded, NEW d \in Drawing, objects[d] # None
    PROVE  /\ objects[d] \in Object /\ Recorded(objects[d])
           /\ birth[d] # None /\ birth[d].created = objects[d].created
<1>1. objects[d] \in Object
  BY DEF CInv, IInv, TypeOK, S3TypeOK
<1>2. OfDrawing(objects[d], d) /\ (objects[d] = InitialObjects[d] \/ Sound(objects[d]))
  BY DEF CInv, IInv, ObjectsOK
<1> QED
  BY <1>1, <1>2, SoundRecorded, BirthType DEF InitialRecorded, OfDrawing

\* A response with an object's times reports them in order.
LEMMA ResponsesTell ==
    ASSUME NEW o \in Object, Recorded(o),
           NEW a \in {UpdateResponse(o), MetadataResponse(o)}, a.report # None
    PROVE  a.report.created = o.created /\ a.report.created <= a.report.modified
BY DEF UpdateResponse, MetadataResponse, Ok, Unhandled, StorageFailed, Detail, Recorded

LEMMA HandlerTells ==
    ASSUME CInv, RecordsOK, InitialRecorded, NEW r \in Request,
           answer[r] = None, answer'[r] # None,
           \/ Receive(r) \/ ServeCached(r) \/ Create(r) \/ Head(r) \/ HeadFails(r) \/ Update(r)
           \/ Confirmed(r) \/ CallFails(r) \/ CallRefused(r) \/ Stream(r) \/ StreamFails(r)
    PROVE  Telling(r, answer[r])'
<1>1. CASE ServeCached(r)
  <2>1. PICK i \in Requests, q \in Answered :
               /\ input[q].op = i.op /\ i.op \in Readable
               /\ answer[q] \in Answer /\ Fitting(q, answer[q])
               /\ Cacheable(i.op, answer[q])
               /\ input' = [input EXCEPT ![r] = i]
               /\ Reply(r, answer[q])
    BY <1>1, CachedAnswers DEF CInv, IInv
  <2>2. input'[r] = i /\ answer'[r] = answer[q]
    BY <2>1 DEF CInv, IInv, TypeOK, Reply
  <2> QED
    BY <2>1, <2>2
       DEF Telling, Fitting, Readable, Cacheable, HandlerNoStore, EndpointNoStore
<1>2. CASE Receive(r) \/ Create(r) \/ HeadFails(r) \/ CallFails(r) \/ CallRefused(r)
  <2>1. answer'[r].report = None /\ answer'[r].kind # "ok"
    <3>1. CASE Create(r)
      <4>1. answer'[r] = Validate(input[r].upload).refusal
        BY <1>2, <3>1 DEF Create, Reply, SendCall, Goto, CInv, IInv, TypeOK
      <4>2. answer'[r] \in {InvalidKMZ, DigestMismatch}
        BY <4>1, Zenon DEF Validate
      <4> QED
        BY <4>2 DEF InvalidKMZ, DigestMismatch, Detail
    <3>2. CASE Receive(r) \/ HeadFails(r) \/ CallFails(r) \/ CallRefused(r)
      BY <3>2 DEF Receive, HeadFails, CallFails, CallRefused, Reply, Goto, CInv, IInv, TypeOK,
                  MissingCredentials, StorageFailed, Unhandled, Detail
    <3> QED
      BY <1>2, <3>1, <3>2
  <2> QED
    BY <2>1 DEF Telling
<1>3. CASE Head(r)
  <2> DEFINE d == input[r].drawing
  <2>1. d \in Drawing /\ UNCHANGED <<input, birth>>
    BY <1>3 DEF Head, CInv, IInv, LocalsOK
  <2>2. CASE answer'[r] = MetadataResponse(objects[d]) /\ objects[d] # None
             /\ input[r].op = "metadata"
    BY <2>1, <2>2, StoredRecorded, ResponsesTell DEF Telling
  <2>3. CASE answer'[r] \in {DrawingNotFound, StorageFailed, AdminIdMismatch, Ok(204, None)}
             /\ (answer'[r] = Ok(204, None) => input[r].op = "check")
    BY <2>1, <2>3 DEF Telling, DrawingNotFound, StorageFailed, AdminIdMismatch, Ok, Detail
  <2>4. \/ Reply(r, DrawingNotFound) \/ Reply(r, StorageFailed)
        \/ objects[d] # None /\ AfterHead(r, objects[d])
    BY <1>3 DEF Head
  <2>5. CASE objects[d] # None /\ AfterHead(r, objects[d])
    <3>1. \/ Reply(r, AdminIdMismatch)
          \/ input[r].op = "metadata" /\ Reply(r, MetadataResponse(objects[d]))
          \/ input[r].op = "check" /\ Reply(r, Ok(204, None))
          \/ answer' = answer
      BY <2>5 DEF AfterHead, SendCall, Goto
    <3> QED
      BY <2>2, <2>3, <2>5, <3>1 DEF Reply, CInv, IInv, TypeOK, AdminIdMismatch, Ok, Detail
  <2> QED
    BY <2>3, <2>4, <2>5
       DEF Reply, CInv, IInv, TypeOK, DrawingNotFound, StorageFailed, Ok, Detail
<1>4. CASE Update(r)
  <2> DEFINE u == input[r].upload
             o == existing[r]
  <2>1. /\ o \in Object /\ o # None /\ u \in Upload /\ input[r].op = "update"
        /\ Recorded(o) /\ OfDrawing(o, input[r].drawing)
        /\ UNCHANGED <<input, birth, existing>>
    BY <1>4, ServiceAssumption
       DEF Update, RecordsOK, CInv, IInv, LocalsOK, TypeOK, ObjectsOK
  <2>2. CASE /\ answer'[r] = UpdateResponse(o)
             /\ Validate(u).refusal = None /\ SameContent(o, u.sha256)
    <3>1. o.sha256 # None /\ o.sha256.of = Whole(u.content)
      <4>1. Lower(u.sha256) = [of |-> Whole(u.content), case |-> "lower"]
        BY <2>1, <2>2, ValidForm
      <4>2. o.sha256 \in Digest /\ Lower(o.sha256) = Lower(u.sha256)
        BY <2>1, <2>2 DEF SameContent, Object
      <4> QED
        BY <4>1, <4>2, DataAssumption DEF Lower, Digest
    <3>2. birth[input[r].drawing] # None /\ birth[input[r].drawing].created = o.created
      BY <2>1, BirthType DEF OfDrawing
    <3> QED
      BY <2>1, <2>2, <3>1, <3>2, ResponsesTell DEF Telling
  <2>3. CASE answer'[r] \in {Unhandled, Validate(u).refusal}
    <3>1. answer'[r] \in {Unhandled, InvalidKMZ, DigestMismatch}
      <4>1. answer'[r] = Unhandled \/ (answer'[r] = Validate(u).refusal /\ answer'[r] # None)
        BY <2>3
      <4> QED
        BY <4>1, Zenon DEF Validate
    <3> QED
      BY <2>1, <3>1 DEF Telling, Unhandled, InvalidKMZ, DigestMismatch, Detail
  <2> QED
    BY <1>4, <2>2, <2>3 DEF Update, SendCall, Reply, Goto, CInv, IInv, TypeOK
<1>5. CASE Confirmed(r)
  <2>1. /\ answer'[r] = Confirmation(r) /\ call[r] # None /\ call'[r] = call[r]
        /\ input[r].op \in {"create", "update", "delete"}
        /\ UNCHANGED <<input, birth>>
    BY <1>5 DEF Confirmed, NoCall, Reply, CInv, IInv, LocalsOK, TypeOK
  <2>2. CASE input[r].op = "update"
    <3>1. /\ call[r].object \in Object /\ Sound(call[r].object)
          /\ call[r].drawing = input[r].drawing
          /\ OfDrawing(call[r].object, input[r].drawing)
      BY <1>5, <2>1, <2>2
         DEF Confirmed, CInv, IInv, HistoryOK, LocalsOK, ObjectsOK, TypeOK, Call
    <3>2. /\ birth[input[r].drawing] # None
          /\ birth[input[r].drawing].created = call[r].object.created
      BY <3>1, BirthType DEF OfDrawing
    <3>3. answer'[r] = UpdateResponse(call[r].object)
      BY <2>1, <2>2 DEF Confirmation
    <3> QED
      BY <2>1, <2>2, <3>1, <3>2, <3>3, SoundRecorded, ResponsesTell DEF Telling
  <2>3. CASE input[r].op # "update"
    BY <2>1, <2>3 DEF Confirmation, Ok, Telling
  <2> QED
    BY <2>2, <2>3
<1>6. CASE Stream(r) \/ StreamFails(r)
  <2>1. input'[r].op = "get"
    BY <1>6 DEF Stream, StreamFails, CInv, HistoryOK
  <2> QED
    BY <2>1 DEF Telling
<1> QED
  BY <1>1, <1>2, <1>3, <1>4, <1>5, <1>6

LEMMA RecordsStay ==
    ASSUME CInv, RecordsOK, InitialRecorded, [CachedNext]_vars
    PROVE  RecordsOK'
<1>1. Grows /\ LocalsOK'
  BY NextGrows, CachedIInv DEF CInv, IInv
<1>2. ASSUME NEW r \in Request, existing'[r] # None
      PROVE  Recorded(existing'[r])
  <2>1. CASE existing[r] # None
    BY <1>1, <2>1 DEF Grows, RecordsOK
  <2>2. CASE existing[r] = None
    BY <1>2, <2>2, FirstRead, StoredRecorded
  <2> QED
    BY <2>1, <2>2
<1>3. ASSUME NEW r \in Request, answer'[r] # None
      PROVE  Telling(r, answer[r])'
  <2>1. CASE answer[r] # None
    <3>1. /\ answer'[r] = answer[r] /\ call'[r] = call[r] /\ existing'[r] = existing[r]
          /\ input'[r] = input[r] /\ Telling(r, answer[r])
      BY <1>1, <2>1 DEF Grows, CInv, IInv, LocalsOK, RecordsOK
    <3>2. CASE input[r].op # "create"
      <4>1. input[r].drawing \in Drawing
        BY <2>1, <3>2 DEF CInv, IInv, LocalsOK, HistoryOK
      <4>2. birth[input[r].drawing] # None => birth'[input[r].drawing] = birth[input[r].drawing]
        BY <1>1, <4>1 DEF Grows
      <4> QED
        BY <3>1, <4>2 DEF Telling
    <3>3. CASE input[r].op = "create"
      BY <2>1, <3>1, <3>3 DEF Telling, CInv, AnswersOK, Fitting
    <3> QED
      BY <3>2, <3>3
  <2>2. CASE answer[r] = None
    <3>1. \/ Receive(r) \/ ServeCached(r) \/ Create(r) \/ Head(r) \/ HeadFails(r) \/ Update(r)
          \/ Confirmed(r) \/ CallFails(r) \/ CallRefused(r) \/ Stream(r) \/ StreamFails(r)
      BY <1>3, <2>2, Actor DEF Own, CInv, IInv, TypeOK, Crash
    <3> QED
      BY <1>3, <2>2, <3>1, HandlerTells
  <2> QED
    BY <2>1, <2>2
<1> QED
  BY <1>2, <1>3 DEF RecordsOK

-------------------------------------------------------------------------------
(* The order of the writes of one drawing.                                 *)

Writers(d) == {q \in Request : Mutates(q, d)}

\* No client has been told that r's call failed.
Trusted(r) == answer[r] # None => answer[r].kind = "ok"

\* q's write has been performed, and q came in after all others of d were
\* over.
Last(q, d) ==
    /\ q \in applied /\ Mutates(q, d) /\ Trusted(q)
    /\ \A p \in Writers(d) \ {q} : Finished(p) /\ p \in before[q]

\* r's delete has been performed, and no write of d overlapped with it.
Removed(r, d) ==
    /\ r \in applied /\ Mutates(r, d) /\ call[r].object = None /\ Trusted(r)
    /\ \A q \in Writers(d) \ {r} : (Finished(q) /\ q \in before[r]) \/ r \in before[q]

\* Answer a to the reading request r shows object o.
Shows(r, a, o) ==
    /\ o # None
    /\ a.report.name = DecodeFilename(o.name)
    /\ input[r].op = "get" => a.report.body = o.body
    /\ input[r].op = "metadata" => a.report.created = o.created /\ a.report.modified = o.modified

\* A call that was performed, or whose request was answered with what S3 has
\* said to it, has left the wire with at least one of its copies.
CallsSettled ==
    \A r \in Request :
        /\ before[r] \subseteq Answered
        /\ r \in applied => wire[r] < attempts[r]
        /\ call[r] # None /\ answer[r] \notin {None, StorageFailed} => wire[r] < attempts[r]

\* While q's write is the last one, it is what is stored, read and shown.
LastSeen ==
    \A d \in Drawing, q \in Request : Last(q, d) =>
        /\ objects[d] = call[q].object
        /\ \A r \in Request : q \in before[r] /\ input[r].drawing = d =>
             /\ existing[r] # None => existing[r] = call[q].object
             /\ answer[r] # None /\ answer[r].kind = "ok" /\ input[r].op \in {"get", "metadata"}
                   => Shows(r, answer[r], call[q].object)

\* Nobody who came in after a delete finds the drawing or writes it.
RemovedStays ==
    \A d \in Drawing, r \in Request : Removed(r, d) =>
        /\ objects[d] = None
        /\ \A q \in Request : r \in before[q] =>
             ~Mutates(q, d) /\ (existing[q] # None => input[q].drawing # d)

\* What a request has read is still there, unless somebody else's write
\* overlaps with it.
ReadStays ==
    \A r \in Request :
        /\ existing[r] # None /\ call[r] = None
        /\ \A q \in Writers(input[r].drawing) : Finished(q) /\ q \in before[r]
        => objects[input[r].drawing] = existing[r]

\* An answer changes nothing about the calls it comes after.
LEMMA AttemptsStay ==
    ASSUME CInv, [CachedNext]_vars, NEW r \in Request, answer[r] # None
    PROVE  attempts'[r] = attempts[r] /\ answer'[r] = answer[r]
<1>1. pc[r] = "answered"
  BY DEF CInv, IInv, LocalsOK
<1>2. ASSUME NEW q \in Request,
             \/ Receive(q) \/ ServeCached(q) \/ Handle(q) \/ Retry(q) \/ Deliver(q) \/ Crash(q)
      PROVE  attempts'[r] = attempts[r]
  BY <1>1, <1>2
     DEF Receive, ServeCached, Handle, Create, Head, AfterHead, HeadFails, Update, Confirmed,
         CallFails, CallRefused, Stream, StreamFails, Retry, Deliver, Crash, NoCall,
         locals, SendCall, CInv, IInv, TypeOK
<1>3. attempts'[r] = attempts[r]
  BY <1>2 DEF CachedNext, Next, Handle, Done, Tick, vars, locals
<1> QED
  BY <1>3, NextGrows DEF Grows, CInv, IInv

LEMMA CallsStay ==
    ASSUME CInv, CallsSettled, [CachedNext]_vars
    PROVE  CallsSettled'
<1>1. Grows /\ TypeOK' /\ LocalsOK'
  BY NextGrows, CachedIInv DEF CInv, IInv
<1>2. ASSUME NEW r \in Request PROVE before'[r] \subseteq Answered'
  <2>1. Answered \subseteq Answered'
    BY <1>1 DEF Answered, Grows
  <2>2. before'[r] \in {before[r], Answered}
    BY Actor
       DEF Own, CInv, IInv, TypeOK, Receive, ServeCached, Create, Head, HeadFails, Update,
           Confirmed, CallFails, CallRefused, Stream, StreamFails, Crash
  <2> QED
    BY <2>1, <2>2 DEF CallsSettled
<1>3. ASSUME NEW r \in Request
      PROVE  /\ r \in applied' => wire'[r] < attempts'[r]
             /\ call'[r] # None /\ answer'[r] \notin {None, StorageFailed}
                   => wire'[r] < attempts'[r]
  <2>1. /\ wire[r] \in Nat /\ attempts[r] \in Nat /\ wire[r] <= attempts[r]
        /\ pc[r] \in {"idle", "create", "head", "update", "stream"} =>
              call[r] = None /\ wire[r] = 0 /\ r \notin applied
        /\ pc[r] # "answered" => answer[r] = None
    BY ServiceAssumption DEF CInv, IInv, TypeOK, S3TypeOK, LocalsOK
  <2>2. CASE \/ Receive(r) \/ ServeCached(r) \/ HeadFails(r) \/ Stream(r) \/ StreamFails(r)
             \/ Crash(r)
    BY <2>1, <2>2
       DEF CInv, IInv, TypeOK, S3TypeOK, CallsSettled, Receive, ServeCached, HeadFails,
           Stream, StreamFails, Crash, NoCall, s3vars, Handling
  <2>3. CASE Create(r) \/ Head(r) \/ Update(r)
    <3>1. \/ UNCHANGED <<s3vars, attempts, call>> /\ pc[r] \in {"create", "head", "update"}
          \/ pc[r] \in {"create", "head", "update"} /\ \E d, o : SendCall(r, d, o)
      BY <2>3 DEF Create, Head, AfterHead, Update, NoCall
    <3> QED
      BY <2>1, <3>1
         DEF SendCall, Send, Goto, s3vars, CInv, IInv, TypeOK, S3TypeOK
  <2>4. CASE Confirmed(r) \/ CallFails(r)
    BY <2>1, <2>4
       DEF CInv, IInv, TypeOK, S3TypeOK, CallsSettled, Confirmed, CallFails, NoCall, s3vars, Reply
  <2>5. CASE CallRefused(r) \/ Retry(r) \/ Deliver(r)
    BY <2>1, <2>5
       DEF CInv, IInv, TypeOK, S3TypeOK, CallsSettled, CallRefused, Refuse, Retry,
           Send, Deliver, Perform, Reply, locals
  <2>6. CASE UNCHANGED <<call[r], answer[r], wire[r], attempts[r], r \in applied>>
    BY <2>6 DEF CallsSettled
  <2> QED
    <3>1. ASSUME NEW q \in Request \ {r},
                 \/ Receive(q) \/ ServeCached(q) \/ Handle(q) \/ Retry(q) \/ Deliver(q) \/ Crash(q)
          PROVE  UNCHANGED <<wire[r], attempts[r], r \in applied>>
      BY <3>1
         DEF Receive, ServeCached, Handle, Create, Head, AfterHead, HeadFails, Update, Confirmed,
             CallFails, CallRefused, Stream, StreamFails, Retry, Deliver, Crash, NoCall, s3vars,
             locals, SendCall, Send, Refuse, Perform, CInv, IInv, TypeOK, S3TypeOK
    <3>2. CASE UNCHANGED vars \/ Tick
      BY <3>2, <2>6 DEF vars, Tick, s3vars, locals
    <3>3. ASSUME NEW q \in Request \ {r},
                 \/ Receive(q) \/ ServeCached(q) \/ Handle(q) \/ Retry(q) \/ Deliver(q) \/ Crash(q)
          PROVE  call'[r] = call[r] /\ answer'[r] = answer[r]
      BY <3>3, OthersKeep DEF Own, CInv, IInv
    <3> QED
      BY <2>2, <2>3, <2>4, <2>5, <2>6, <3>1, <3>2, <3>3 DEF CachedNext, Next, Handle, Done
<1> QED
  BY <1>2, <1>3 DEF CallsSettled

Settled == CallsSettled /\ LastSeen /\ RemovedStays /\ ReadStays

\* A call that S3 performs was not over; it is a copy of one performed already,
\* or nobody has come in after its request.
LEMMA DeliverSettled ==
    ASSUME CInv, Settled, NEW p \in Request, Deliver(p)
    PROVE  LastSeen' /\ RemovedStays' /\ ReadStays'
<1>1. /\ UNCHANGED <<input, existing, call, attempts, answer, before>>
      /\ call[p] # None /\ call[p].drawing \in Drawing
      /\ applied' = applied \cup {p}
      /\ objects' = [objects EXCEPT ![call[p].drawing] = call[p].object]
      /\ objects \in [Drawing -> Object \cup {None}]
  BY DEF Deliver, Perform, locals, CInv, IInv, TypeOK, S3TypeOK, Call
<1>2. ~Finished(p)
  BY DEF Deliver, Perform, Finished, Settled, CallsSettled, CInv, IInv, TypeOK, S3TypeOK
<1>3. ASSUME p \notin applied, Trusted(p)
      PROVE  \A r \in Request : p \notin before[r]
  <2>1. answer[p] = None
    BY <1>1, <1>3 DEF Trusted, CInv, AnswersOK, Fitting
  <2> QED
    BY <2>1 DEF Settled, CallsSettled, Answered, CInv, AnswersOK
<1>4. /\ \A d : Writers(d)' = Writers(d)
      /\ \A q : (Finished(q) <=> Finished(q)') /\ (Trusted(q) <=> Trusted(q)')
  BY <1>1 DEF Writers, Mutates, Finished, Trusted
<1>5. \A d \in Drawing : ~Mutates(p, d) => objects'[d] = objects[d]
  BY <1>1 DEF Mutates
<1>6. \A d \in Drawing : Mutates(p, d) => objects'[d] = call[p].object
  BY <1>1 DEF Mutates
<1>7. LastSeen'
  <2> SUFFICES ASSUME NEW d \in Drawing, NEW q \in Request, Last(q, d)'
               PROVE  /\ objects'[d] = call[q].object
                      /\ \A r \in Request : q \in before[r] /\ input[r].drawing = d =>
                           /\ existing[r] # None => existing[r] = call[q].object
                           /\ answer[r] # None /\ answer[r].kind = "ok"
                              /\ input[r].op \in {"get", "metadata"}
                                 => Shows(r, answer[r], call[q].object)
    BY <1>1 DEF LastSeen, Shows
  <2>1. Trusted(q) /\ Mutates(q, d) /\ (q \in applied => Last(q, d))
    BY <1>1, <1>4 DEF Last, Mutates
  <2>2. CASE q = p
    <3>1. objects'[d] = call[q].object
      BY <1>6, <2>1, <2>2
    <3>2. CASE p \in applied
      BY <2>1, <2>2, <3>1, <3>2 DEF Settled, LastSeen
    <3>3. CASE p \notin applied
      BY <1>3, <2>1, <2>2, <3>1, <3>3
    <3> QED
      BY <3>2, <3>3
  <2>3. CASE q # p
    <3>1. Last(q, d)
      BY <1>1, <2>1, <2>3 DEF Last
    <3>2. ~Mutates(p, d)
      BY <1>2, <2>3, <3>1 DEF Last, Writers
    <3> QED
      BY <1>5, <3>1, <3>2 DEF Settled, LastSeen
  <2> QED
    BY <2>2, <2>3
<1>8. RemovedStays'
  <2> SUFFICES ASSUME NEW d \in Drawing, NEW r \in Request, Removed(r, d)'
               PROVE  /\ objects'[d] = None
                      /\ \A q \in Request : r \in before[q] =>
                           ~Mutates(q, d) /\ (existing[q] # None => input[q].drawing # d)
    BY <1>1 DEF RemovedStays, Mutates
  <2>1. /\ Trusted(r) /\ Mutates(r, d) /\ call[r].object = None
        /\ r \in applied => Removed(r, d)
    BY <1>1, <1>4 DEF Removed, Mutates
  <2>2. CASE r = p
    <3>1. objects'[d] = None
      BY <1>6, <2>1, <2>2
    <3>2. CASE p \in applied
      BY <2>1, <2>2, <3>1, <3>2 DEF Settled, RemovedStays
    <3>3. CASE p \notin applied
      BY <1>3, <2>1, <2>2, <3>1, <3>3
    <3> QED
      BY <3>2, <3>3
  <2>3. CASE r # p
    <3>1. Removed(r, d)
      BY <1>1, <2>1, <2>3 DEF Removed
    <3>2. ~Mutates(p, d)
      BY <1>2, <2>3, <3>1 DEF Removed, Writers, Settled, RemovedStays
    <3> QED
      BY <1>5, <3>1, <3>2 DEF Settled, RemovedStays
  <2> QED
    BY <2>2, <2>3
<1>9. ReadStays'
  <2> SUFFICES ASSUME NEW r \in Request, existing[r] # None, call[r] = None,
                      \A q \in Writers(input[r].drawing) : Finished(q) /\ q \in before[r]
               PROVE  objects'[input[r].drawing] = existing[r]
    BY <1>1, <1>4 DEF ReadStays
  <2>1. ~Mutates(p, input[r].drawing)
    BY <1>2 DEF Writers
  <2>2. input[r].drawing \in Drawing
    BY DEF CInv, HistoryOK
  <2> QED
    BY <1>5, <2>1, <2>2 DEF Settled, ReadStays
<1> QED
  BY <1>7, <1>8, <1>9

\* A new answer shows what was read.
LEMMA NewAnswerShows ==
    ASSUME CInv, SentOK, Settled, [CachedNext]_vars, NEW d \in Drawing,
           NEW q \in Request, Last(q, d),
           NEW r \in Request, answer[r] = None, answer'[r] # None, answer'[r].kind = "ok",
           input'[r].op \in {"get", "metadata"}, input'[r].drawing = d, q \in before'[r]
    PROVE  Shows(r, answer[r], call[q].object)'
<1>1. \/ Receive(r) \/ ServeCached(r) \/ Create(r) \/ Head(r) \/ HeadFails(r) \/ Update(r)
      \/ Confirmed(r) \/ CallFails(r) \/ CallRefused(r) \/ Stream(r) \/ StreamFails(r)
  BY Actor DEF Own, CInv, IInv, TypeOK, Crash
<1>2. call[q] # None /\ call'[q] = call[q] /\ objects[d] = call[q].object
  BY NextGrows DEF Grows, CInv, IInv, Last, Mutates, Settled, LastSeen
<1>3. ~ServeCached(r)
  <2> SUFFICES ASSUME ServeCached(r) PROVE FALSE
    OBVIOUS
  <2>1. PICK i \in Requests, s \in Answered :
               /\ input[s].op = i.op
               /\ Fitting(s, answer[s])
               /\ Cacheable(i.op, answer[s])
               /\ input' = [input EXCEPT ![r] = i]
               /\ Reply(r, answer[s])
    BY CachedAnswers DEF CInv, IInv
  <2>2. input'[r] = i /\ answer'[r] = answer[s]
    BY <2>1 DEF CInv, IInv, TypeOK, Reply
  <2> QED
    BY <2>1, <2>2 DEF Fitting, Cacheable, EndpointNoStore
<1>4. ~Receive(r)
  BY DEF Receive, Reply, Goto, MissingCredentials, Detail, CInv, IInv, TypeOK
<1>5. input' = input /\ before' = before /\ input[r].op \in {"get", "metadata"}
  BY <1>1, <1>3, <1>4
     DEF Create, Head, HeadFails, Update, Confirmed, CallFails, CallRefused, Stream, StreamFails
<1>6. \/ Head(r) /\ input[r].op = "metadata"
      \/ Stream(r) /\ input[r].op = "get"
  <2>1. ~HeadFails(r) /\ ~StreamFails(r)
    BY DEF HeadFails, StreamFails, Reply, StorageFailed, Aborted, Detail, CInv, IInv, TypeOK
  <2>2. ~Create(r) /\ ~Update(r) /\ ~Confirmed(r) /\ ~CallFails(r) /\ ~CallRefused(r)
    BY <1>5 DEF Create, Update, Confirmed, CallFails, CallRefused, CInv, IInv, LocalsOK
  <2>3. Stream(r) => input[r].op = "get"
    BY DEF Stream, CInv, HistoryOK
  <2>4. Head(r) => input[r].op = "metadata"
    <3> SUFFICES ASSUME Head(r), input[r].op = "get" PROVE FALSE
      BY <1>5
    <3>1. Reply(r, DrawingNotFound) \/ Reply(r, StorageFailed) \/ answer' = answer
      BY DEF Head, AfterHead, Goto, Guarded
    <3> QED
      BY <3>1 DEF Reply, DrawingNotFound, StorageFailed, Detail, CInv, IInv, TypeOK
  <2> QED
    BY <1>1, <1>3, <1>4, <2>1, <2>2, <2>3, <2>4
<1>7. CASE Head(r) /\ input[r].op = "metadata"
  <2>1. \/ Reply(r, DrawingNotFound) \/ Reply(r, StorageFailed)
        \/ objects[d] # None /\ Reply(r, MetadataResponse(objects[d]))
    BY <1>5, <1>7 DEF Head, AfterHead, Guarded
  <2>2. objects[d] # None /\ answer'[r] = MetadataResponse(objects[d])
    BY <2>1 DEF Reply, DrawingNotFound, StorageFailed, Detail, CInv, IInv, TypeOK
  <2> QED
    BY <1>2, <1>5, <1>7, <2>2 DEF Shows, MetadataResponse, Ok, StorageFailed, Detail
<1>8. CASE Stream(r) /\ input[r].op = "get"
  <2>1. existing[r] = call[q].object /\ existing[r] # None
    BY <1>5, <1>8 DEF Stream, CInv, IInv, LocalsOK, Settled, LastSeen
  <2>2. existing[r].name # None
    BY <1>2, <2>1 DEF SentOK
  <2>3. answer'[r] = Ok(200, [name     |-> DownloadName(existing[r].name, d),
                              body     |-> objects[d].body,
                              created  |-> None,
                              modified |-> None])
    BY <1>5, <1>8 DEF Stream, Reply, Aborted, CInv, IInv, TypeOK
  <2>4. DownloadName(existing[r].name, d) = DecodeFilename(existing[r].name)
    BY <2>1, <2>2, DataAssumption
       DEF DownloadName, DecodeFilename, CInv, IInv, TypeOK, Object, StoredName, ShownName
  <2> QED
    BY <1>2, <1>5, <1>8, <2>1, <2>3, <2>4 DEF Shows, Ok
<1> QED
  BY <1>6, <1>7, <1>8

\* Steps other than S3's: the bucket stays, and no write is new to it.
LEMMA OtherSettled ==
    ASSUME CInv, SentOK, Settled, [CachedNext]_vars, UNCHANGED <<objects, applied>>
    PROVE  LastSeen' /\ RemovedStays' /\ ReadStays'
<1>1. Grows /\ LocalsOK' /\ TypeOK'
  BY NextGrows, CachedIInv DEF CInv, IInv
<1>2. ASSUME NEW q \in Request, call[q] # None
      PROVE  pc[q] # "idle" /\ call'[q] = call[q] /\ before'[q] = before[q] /\ input'[q] = input[q]
  BY <1>1, <1>2 DEF Grows, CInv, IInv, LocalsOK
<1>3. \A d : Writers(d) \subseteq Writers(d)'
  BY <1>2 DEF Writers, Mutates
<1>4. \A q \in applied : q \in Request /\ call[q] # None
  BY DEF CInv, IInv, HistoryOK, TypeOK, S3TypeOK
<1>5. ASSUME NEW q \in Request, NEW p \in before[q], Finished(p)'
      PROVE  Finished(p)
  <2>1. p \in Request /\ answer[p] # None
    BY DEF Settled, CallsSettled, Answered, CInv, AnswersOK
  <2> QED
    BY <1>5, <2>1, AttemptsStay DEF Finished
<1>6. \A q \in Request : Trusted(q)' => Trusted(q)
  BY <1>1 DEF Trusted, Grows
<1>7. LastSeen'
  <2> SUFFICES ASSUME NEW d \in Drawing, NEW q \in Request, Last(q, d)'
               PROVE  /\ objects'[d] = call'[q].object
                      /\ \A r \in Request : q \in before'[r] /\ input'[r].drawing = d =>
                           /\ existing'[r] # None => existing'[r] = call'[q].object
                           /\ answer'[r] # None /\ answer'[r].kind = "ok"
                              /\ input'[r].op \in {"get", "metadata"}
                                 => Shows(r, answer[r], call[q].object)'
    BY DEF LastSeen
  <2>1. Last(q, d)
    <3>1. q \in applied /\ Mutates(q, d) /\ before'[q] = before[q] /\ Trusted(q)
      BY <1>2, <1>4, <1>6 DEF Last, Mutates
    <3> QED
      BY <1>3, <1>5, <3>1 DEF Last
  <2>2. objects[d] = call[q].object /\ call'[q] = call[q]
    BY <1>2, <1>4, <2>1 DEF Settled, LastSeen, Last
  <2>3. ASSUME NEW r \in Request, q \in before'[r], input'[r].drawing = d, existing'[r] # None
        PROVE  existing'[r] = call'[q].object
    <3>1. CASE existing[r] # None
      <4>1. /\ existing'[r] = existing[r] /\ before'[r] = before[r] /\ input'[r] = input[r]
        BY <1>1, <3>1 DEF Grows, CInv, HistoryOK
      <4> QED
        BY <2>1, <2>2, <2>3, <3>1, <4>1 DEF Settled, LastSeen
    <3>2. CASE existing[r] = None
      BY <2>2, <2>3, <3>2, FirstRead
    <3> QED
      BY <3>1, <3>2
  <2>4. ASSUME NEW r \in Request, q \in before'[r], input'[r].drawing = d,
               answer'[r] # None, answer'[r].kind = "ok", input'[r].op \in {"get", "metadata"}
        PROVE  Shows(r, answer[r], call[q].object)'
    <3>1. CASE answer[r] # None
      <4>1. /\ answer'[r] = answer[r] /\ before'[r] = before[r] /\ input'[r] = input[r]
        BY <1>1, <3>1 DEF Grows, CInv, IInv, LocalsOK
      <4>2. Shows(r, answer[r], call[q].object)
        BY <2>1, <2>4, <3>1, <4>1 DEF Settled, LastSeen
      <4> QED
        BY <2>2, <4>1, <4>2 DEF Shows
    <3>2. CASE answer[r] = None
      BY <2>1, <2>4, <3>2, NewAnswerShows
    <3> QED
      BY <3>1, <3>2
  <2> QED
    BY <2>2, <2>3, <2>4
<1>8. RemovedStays'
  <2> SUFFICES ASSUME NEW d \in Drawing, NEW r \in Request, Removed(r, d)'
               PROVE  /\ objects'[d] = None
                      /\ \A q \in Request : r \in before'[q] =>
                           ~Mutates(q, d)' /\ (existing'[q] # None => input'[q].drawing # d)
    BY DEF RemovedStays
  <2>1. r \in applied /\ call[r] # None /\ Removed(r, d)
    <3>1. /\ r \in applied /\ call[r] # None /\ call'[r] = call[r] /\ before'[r] = before[r]
          /\ Trusted(r)
      BY <1>2, <1>4, <1>6 DEF Removed
    <3>2. \A q \in Writers(d) : q \in Request /\ before'[q] = before[q]
      BY <1>2 DEF Writers, Mutates
    <3> QED
      BY <1>3, <1>5, <3>1, <3>2 DEF Removed, Mutates
  <2>2. objects[d] = None /\ objects'[d] = None
    BY <2>1 DEF Settled, RemovedStays
  <2>3. birth[d] # None
    BY <2>1 DEF Removed, Mutates, SentOK, CInv, IInv, CallersAuthorized
  <2>4. ASSUME NEW q \in Request, r \in before'[q], Mutates(q, d)'
        PROVE  FALSE
    <3>1. CASE call[q] # None
      BY <1>2, <2>1, <2>4, <3>1 DEF Mutates, Settled, RemovedStays
    <3>2. CASE call[q] = None
      <4>1. call'[q].drawing = d /\ before'[q] = before[q]
        BY <2>4, <3>2, FirstCall DEF Mutates
      <4>2. CASE pc[q] = "create" /\ call'[q].drawing \in FreshDrawing
        BY <2>3, <4>1, <4>2 DEF FreshDrawing
      <4>3. CASE pc[q] = "update" /\ call'[q].drawing = input[q].drawing
        BY <2>1, <2>4, <4>1, <4>3 DEF Settled, RemovedStays, CInv, IInv, LocalsOK
      <4>4. CASE call'[q].drawing = input[q].drawing /\ objects[input[q].drawing] # None
        BY <2>2, <4>1, <4>4
      <4> QED
        BY <2>4, <3>2, <4>2, <4>3, <4>4, FirstCall DEF Mutates
    <3> QED
      BY <3>1, <3>2
  <2>5. ASSUME NEW q \in Request, r \in before'[q], existing'[q] # None
        PROVE  input'[q].drawing # d
    <3>1. CASE existing[q] # None
      <4>1. before'[q] = before[q] /\ input'[q] = input[q]
        BY <1>1, <3>1 DEF Grows, CInv, HistoryOK
      <4> QED
        BY <2>1, <2>5, <3>1, <4>1 DEF Settled, RemovedStays
    <3>2. CASE existing[q] = None
      BY <2>2, <2>5, <3>2, FirstRead
    <3> QED
      BY <3>1, <3>2
  <2> QED
    BY <2>2, <2>4, <2>5
<1>9. ReadStays'
  <2> SUFFICES ASSUME NEW r \in Request, existing'[r] # None, call'[r] = None,
                      \A q \in Writers(input[r].drawing)' : Finished(q)' /\ q \in before'[r]
               PROVE  objects'[input'[r].drawing] = existing'[r]
    BY DEF ReadStays
  <2>1. CASE existing[r] # None
    <3>1. existing'[r] = existing[r] /\ before'[r] = before[r] /\ input'[r] = input[r]
      BY <1>1, <2>1 DEF Grows, CInv, HistoryOK
    <3>2. call[r] = None
      BY <1>2
    <3>3. \A q \in Writers(input[r].drawing) : Finished(q) /\ q \in before[r]
      BY <1>3, <1>5, <3>1 DEF Writers, Mutates
    <3> QED
      BY <2>1, <3>1, <3>2, <3>3 DEF Settled, ReadStays
  <2>2. CASE existing[r] = None
    BY <2>2, FirstRead
  <2> QED
    BY <2>1, <2>2
<1> QED
  BY <1>7, <1>8, <1>9

LEMMA SettledStays ==
    ASSUME CInv, SentOK, Settled, [CachedNext]_vars
    PROVE  Settled'
<1>1. CASE \E p \in Request : Deliver(p)
  BY <1>1, DeliverSettled, CallsStay DEF Settled
<1>2. CASE ~ \E p \in Request : Deliver(p)
  <2>1. UNCHANGED <<objects, applied>>
    BY <1>2, BucketStays
  <2> QED
    BY <2>1, OtherSettled, CallsStay DEF Settled
<1> QED
  BY <1>1, <1>2

LEMMA InitSettled == Init => SentOK /\ RecordsOK /\ Settled
<1> SUFFICES ASSUME Init PROVE SentOK /\ RecordsOK /\ Settled
  OBVIOUS
<1>1. SentOK /\ RecordsOK
  BY DEF Init, SentOK, RecordsOK
<1>2. CallsSettled
  BY DEF Init, S3Init, CallsSettled
<1>3. LastSeen /\ RemovedStays /\ ReadStays
  BY DEF Init, S3Init, LastSeen, Last, RemovedStays, Removed, ReadStays
<1> QED
  BY <1>1, <1>2, <1>3 DEF Settled

-------------------------------------------------------------------------------
(* The theorems.                                                           *)

\* What a handler has read and sent fits together, whatever the constants.
THEOREM SentInductive == CachedSpec => [](CInv /\ SentOK)
<1>1. Init => CInv /\ SentOK
  BY InitCInv, InitSettled
<1>2. CInv /\ SentOK /\ [CachedNext]_vars => (CInv /\ SentOK)'
  BY CachedIInv, AnswersStay, HistoryStays, SentStays DEF CInv
<1> QED
  BY <1>1, <1>2, PTL DEF CachedSpec

\* If the initial bucket is recorded as the service does it, what clients are
\* told of times and content is right.
THEOREM RecordsInductive ==
    ASSUME InitialRecorded
    PROVE  CachedSpec => [](CInv /\ RecordsOK)
<1>1. Init => CInv /\ RecordsOK
  BY InitCInv, InitSettled
<1>2. CInv /\ RecordsOK /\ [CachedNext]_vars => (CInv /\ RecordsOK)'
  BY CachedIInv, AnswersStay, HistoryStays, RecordsStay DEF CInv
<1> QED
  BY <1>1, <1>2, PTL DEF CachedSpec

\* The writes of a drawing that do not overlap are settled in the order of
\* their requests, whatever becomes of their calls.
THEOREM SettledInductive == CachedSpec => [](CInv /\ SentOK /\ Settled)
<1>1. Init => CInv /\ SentOK /\ Settled
  BY InitCInv, InitSettled
<1>2. CInv /\ SentOK /\ Settled /\ [CachedNext]_vars => (CInv /\ SentOK /\ Settled)'
  BY CachedIInv, AnswersStay, HistoryStays, SentStays, SettledStays DEF CInv
<1> QED
  BY <1>1, <1>2, PTL DEF CachedSpec

\* An update and a metadata request report the drawing's creation time and a
\* modification time that is not before it, also if the update was a short cut.
THEOREM ReportedTimesCorrect ==
    ASSUME InitialRecorded
    PROVE  CachedSpec => []ReportedTimes
<1>1. RecordsOK => ReportedTimes
  BY DEF RecordsOK, Telling, ReportedTimes
<1> QED
  BY <1>1, RecordsInductive, PTL

\* A write that is confirmed is acknowledged only once S3 has performed it.
LEMMA AcknowledgedApplied ==
    ASSUME CInv, NEW r \in Request, Acknowledged(r)
    PROVE  r \in applied
BY DEF CInv, AnswersOK, Fitting, Acknowledged

LEMMA LastWriteLast ==
    ASSUME CInv, NEW r \in Request, NEW d \in Drawing, LastWrite(r, d)
    PROVE  Last(r, d)
BY AcknowledgedApplied DEF LastWrite, Last, Writers, After, Trusted, Acknowledged

\* The bucket holds the last confirmed write of each drawing, unless a write
\* that was not over before it came in may still be performed.
THEOREM LastWriteCorrect == CachedSpec => []LastWriteStays
<1>1. CInv /\ Settled => LastWriteStays
  BY LastWriteLast DEF Settled, LastSeen, LastWriteStays
<1> QED
  BY <1>1, SettledInductive, PTL

\* A delete that no write overlapped with is final.
THEOREM DeletedCorrect == CachedSpec => []DeletedStaysDeleted
<1>1. CInv /\ SentOK /\ Settled => DeletedStaysDeleted
  <2> SUFFICES ASSUME CInv, SentOK, Settled, NEW d \in Drawing, NEW r \in Request,
                      Acknowledged(r), Mutates(r, d), input[r].op = "delete",
                      \A q \in Request \ {r} :
                        Mutates(q, d) => (Finished(q) /\ After(r, q)) \/ After(q, r)
               PROVE  objects[d] = None
    BY DEF DeletedStaysDeleted
  <2>1. r \in applied /\ call[r] # None /\ call[r].object = None
    BY AcknowledgedApplied DEF SentOK, Acknowledged
  <2>2. Removed(r, d)
    BY <2>1 DEF Removed, Writers, After, Trusted, Acknowledged
  <2> QED
    BY <2>2 DEF Settled, RemovedStays
<1> QED
  BY <1>1, SettledInductive, PTL

\* Who asks after the last write was confirmed sees it: content, name, times.
THEOREM ReadsCorrect == CachedSpec => []ReadsLastWrite
<1>1. CInv /\ Settled => ReadsLastWrite
  <2> SUFFICES ASSUME CInv, Settled, NEW d \in Drawing, NEW r \in Request, NEW q \in Request,
                      LastWrite(q, d), q \in before[r],
                      input[r].op \in {"get", "metadata"}, input[r].drawing = d,
                      answer[r] # None, answer[r].kind = "ok"
               PROVE  Shows(r, answer[r], call[q].object)
    BY DEF ReadsLastWrite, After, Shows
  <2> QED
    BY LastWriteLast DEF Settled, LastSeen
<1> QED
  BY <1>1, SettledInductive, PTL

\* The content of a confirmed update is stored, whether the update wrote it
\* itself or relied on the recorded digest.
THEOREM ContentCorrect ==
    ASSUME InitialRecorded
    PROVE  CachedSpec => []ConfirmedContentStays
<1>1. CInv /\ SentOK /\ RecordsOK /\ Settled => ConfirmedContentStays
  <2> SUFFICES ASSUME CInv, SentOK, RecordsOK, Settled, NEW r \in Request,
                      answer[r] # None, answer[r].kind = "ok", input[r].op = "update",
                      \A q \in Request \ {r} :
                        Mutates(q, input[r].drawing) => Finished(q) /\ q \in before[r]
               PROVE  /\ objects[input[r].drawing] # None
                      /\ objects[input[r].drawing].body = Whole(input[r].upload.content)
    BY DEF ConfirmedContentStays, After
  <2>1. CASE call[r] # None
    <3>1. call[r].drawing = input[r].drawing /\ call[r].drawing \in Drawing
      BY <2>1 DEF CInv, IInv, HistoryOK, TypeOK, Call
    <3>2. Last(r, input[r].drawing)
      BY <2>1, <3>1, AcknowledgedApplied DEF Last, Writers, Mutates, Acknowledged, Trusted
    <3> QED
      BY <2>1, <3>1, <3>2 DEF Settled, LastSeen, SentOK
  <2>2. CASE call[r] = None
    <3>1. /\ existing[r] # None /\ existing[r].sha256 # None
          /\ existing[r].sha256.of = Whole(input[r].upload.content)
          /\ Recorded(existing[r])
      BY <2>2 DEF RecordsOK, Telling
    <3>2. \A q \in Writers(input[r].drawing) : Finished(q) /\ q \in before[r]
      BY <2>2 DEF Writers, Mutates
    <3> QED
      BY <2>2, <3>1, <3>2 DEF Settled, ReadStays, Recorded
  <2> QED
    BY <2>1, <2>2
<1> QED
  BY <1>1, RecordsInductive, SettledInductive, PTL
===============================================================================
