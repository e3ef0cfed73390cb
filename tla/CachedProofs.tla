----------------------------- MODULE CachedProofs -----------------------------
(***************************************************************************)
(* Proofs about CachedService, that is about DrawingsService behind a      *)
(* cache, for every value of the constants: what the answers say. The      *)
(* inductive invariant adds to IInv what a drawing's history and the       *)
(* answers given so far have in common. That history only grows (Grows),   *)
(* so what an answer says stays true once it is (FittingStays), and each   *)
(* action only has to be looked at for the answer that it gives.           *)
(***************************************************************************)
EXTENDS CachedService, RegistryProofs

-------------------------------------------------------------------------------
(* The invariant.                                                          *)

\* Some request has asked S3 to delete d.
Deleting(d) == \E q \in Request : Mutates(q, d) /\ call[q].object = None

\* d has been in the bucket at some time.
Known(d) == InitialObjects[d] # None \/ \E q \in applied : Mutates(q, d)

\* What answer a to request r says is true.
Fitting(r, a) ==
    LET i == input[r]
        b == birth[i.drawing]
    IN  /\ a.status = 201 => i.op = "create" /\ call[r] # None /\ r \in applied
        /\ a.kind = "ok" /\ call[r] # None => r \in applied
        /\ a = DrawingNotFound => i.drawing \in Guessed \cap Drawing \/ Deleting(i.drawing)
        /\ i.op = "check" /\ a.status = 204 =>
              i.admin # None /\ b # None /\ i.admin = b.admin
        /\ i.op = "check" /\ a.status = 403 =>
              i.admin # None /\ b # None /\ i.admin # b.admin
        /\ i.op = "check" /\ a.status = 401 => i.admin = None
        /\ a.report # None => a.status = 200 /\ i.op \in {"get", "metadata", "update"}
        /\ a.kind = "ok" /\ i.op \in {"get", "metadata"} => a.status = 200

AnswersOK ==
    \A r \in Request :
        /\ pc[r] = "answered" => answer[r] # None
        /\ answer[r] # None => Fitting(r, answer[r])

\* Clients ask for drawings that have been in the bucket, or that will never
\* be there; and what has been there is there, unless it was to be deleted.
HistoryOK ==
    /\ \A d \in Guessed \cap Drawing : birth[d] = None
    /\ \A q \in applied : call[q] # None
    /\ \A d \in Drawing : Known(d) => objects[d] # None \/ Deleting(d)
    /\ \A r \in Request :
         /\ input[r] # None /\ input[r].op # "create" =>
               input[r].drawing \in Drawing /\ 
               (input[r].drawing \in Guessed \/ Known(input[r].drawing))
         /\ call[r] # None /\ input[r].op # "create" => call[r].drawing = input[r].drawing
         /\ pc[r] = "stream" => input[r].op = "get"
         /\ existing[r] # None => pc[r] # "idle" /\ input[r].drawing \in Drawing

CInv == IInv /\ AnswersOK /\ HistoryOK

-------------------------------------------------------------------------------
(* IInv with a cache.                                                      *)

\* What a cache serves is an answer that some GET request of the same URL has
\* got, and none of those it must not keep.
LEMMA CachedAnswers ==
    ASSUME TypeOK, AnswersOK, NEW r \in Request, ServeCached(r)
    PROVE  \E i \in Requests, q \in Answered :
             /\ input[q].op = i.op /\ input[q].drawing = i.drawing
             /\ i.op \in Readable
             /\ answer[q] \in Answer /\ Fitting(q, answer[q])
             /\ Cacheable(i.op, answer[q])
             /\ input' = [input EXCEPT ![r] = i]
             /\ Reply(r, answer[q])
<1>1. PICK i \in Requests : \E a \in Cached(i.op, i.drawing) :
        /\ input' = [input EXCEPT ![r] = i]
        /\ Reply(r, a)
  BY DEF ServeCached
<1>2. PICK q \in Answered : /\ input[q].op = i.op /\ input[q].drawing = i.drawing
                            /\ Cacheable(i.op, answer[q])
                            /\ input' = [input EXCEPT ![r] = i]
                            /\ Reply(r, answer[q])
  BY <1>1 DEF Cached
<1>3. answer[q] \in Answer /\ Fitting(q, answer[q])
  BY DEF Answered, AnswersOK, TypeOK
<1>4. i.op \in Readable
  BY <1>2 DEF Cacheable
<1> QED
  BY <1>2, <1>3, <1>4

LEMMA ServeLocals ==
    ASSUME TypeOK, LocalsOK, AnswersOK, NEW r \in Request, ServeCached(r)
    PROVE  TypeOK' /\ LocalsOK'
<1>1. PICK i \in Requests, a \in Answer :
        input' = [input EXCEPT ![r] = i] /\ Reply(r, a)
  BY CachedAnswers
<1>2. i \in Input /\ i # None
  BY RequestsAreInputs, DataAssumption
<1>3. /\ pc[r] = "idle"
      /\ before' = [before EXCEPT ![r] = Answered]
      /\ UNCHANGED <<s3vars, call, attempts, existing, clock, birth>>
  BY DEF ServeCached, NoCall
<1>4. TypeOK'
  BY <1>1, <1>2, <1>3 DEF s3vars, Reply, TypeOK, S3TypeOK, Answered
<1>5. LocalsOK'
  BY <1>1, <1>2, <1>3 DEF s3vars, Reply, LocalsOK, TypeOK, S3TypeOK
<1> QED
  BY <1>4, <1>5

LEMMA ServeIdentities ==
    ASSUME TypeOK, LocalsOK, Identities, NEW r \in Request, ServeCached(r)
    PROVE  Identities'
<1>1. /\ UNCHANGED <<objects, existing, call, clock, birth>>
      /\ existing[r] = None /\ call[r] = None
      /\ \A q \in Request \ {r} : input'[q] = input[q] /\ pc'[q] = pc[q]
      /\ pc'[r] # "update"
  BY DEF ServeCached, NoCall, s3vars, Reply, LocalsOK, TypeOK
<1> QED
  BY <1>1 DEF Identities, ObjectsOK, BirthsInPast, CallersAuthorized, OfDrawing, Sound

\* Answers from a cache leave the service's own invariant alone.
LEMMA CachedIInv ==
    ASSUME IInv, AnswersOK, [CachedNext]_vars
    PROVE  IInv'
<1>1. CASE [Next]_vars
  BY <1>1, NextLocals, NextIdentities DEF IInv, Identities
<1>2. CASE \E r \in Request : ServeCached(r)
  BY <1>2, ServeLocals, ServeIdentities DEF IInv, Identities
<1> QED
  BY <1>1, <1>2 DEF CachedNext

-------------------------------------------------------------------------------
(* History.                                                                *)

\* Nothing of what has happened is ever taken back.
Grows ==
    /\ \A d \in Drawing : birth[d] # None => birth'[d] = birth[d]
    /\ applied \subseteq applied'
    /\ \A r \in Request :
         /\ call[r] # None => call'[r] = call[r]
         /\ answer[r] # None => /\ answer'[r] = answer[r] /\ call'[r] = call[r]
                                /\ existing'[r] = existing[r]
         /\ pc[r] # "idle" => input'[r] = input[r] /\ before'[r] = before[r]
         /\ pc[r] = "answered" => pc'[r] = "answered"
         /\ existing[r] # None => existing'[r] = existing[r]

\* The steps of one handler, or of the cache in its stead, concern its request.
LEMMA HandlerGrows ==
    ASSUME TypeOK, LocalsOK, NEW r \in Request,
           \/ Receive(r) \/ ServeCached(r) \/ Create(r) \/ Head(r) \/ HeadFails(r) \/ Update(r)
           \/ Confirmed(r) \/ CallFails(r) \/ CallRefused(r) \/ Stream(r) \/ StreamFails(r)
    PROVE  Grows
<1>1. answer[r] = None /\ pc[r] # "answered"
  BY DEF LocalsOK, Receive, ServeCached, Create, Head, HeadFails, Update, Confirmed, CallFails,
         CallRefused, Stream, StreamFails
<1>2. \A d \in Drawing : birth[d] # None => birth'[d] = birth[d]
  BY DEF TypeOK, FreshDrawing, Receive, ServeCached, Create, Head, HeadFails, Update, Confirmed,
         CallFails, CallRefused, Stream, StreamFails
<1>3. applied' = applied
  BY DEF Receive, ServeCached, Create, Head, AfterHead, HeadFails, Update, Confirmed,
         CallFails, CallRefused, Stream, StreamFails, NoCall, SendCall, Send, Refuse, s3vars
<1>4. /\ \A q \in Request \ {r} : /\ call'[q] = call[q] /\ answer'[q] = answer[q]
                                  /\ pc'[q] = pc[q]
      /\ call[r] # None => call'[r] = call[r]
  BY DEF TypeOK, LocalsOK, Receive, ServeCached, Create, Head, AfterHead, HeadFails, Update,
         Confirmed, CallFails, CallRefused, Stream, StreamFails, NoCall, SendCall, Reply, Goto
<1>5. /\ \A q \in Request \ {r} : /\ input'[q] = input[q] /\ before'[q] = before[q]
                                  /\ existing'[q] = existing[q]
      /\ pc[r] # "idle" => input'[r] = input[r] /\ before'[r] = before[r]
      /\ existing[r] # None => existing'[r] = existing[r]
  BY DEF TypeOK, LocalsOK, Receive, ServeCached, Create, Head, HeadFails, Update,
         Confirmed, CallFails, CallRefused, Stream, StreamFails
<1> QED
  BY <1>1, <1>2, <1>3, <1>4, <1>5 DEF Grows

LEMMA NextGrows ==
    ASSUME TypeOK, LocalsOK, [CachedNext]_vars
    PROVE  Grows
<1>1. CASE \E r \in Request :
             \/ Receive(r) \/ ServeCached(r) \/ Create(r) \/ Head(r) \/ HeadFails(r) \/ Update(r)
             \/ Confirmed(r) \/ CallFails(r) \/ CallRefused(r) \/ Stream(r) \/ StreamFails(r)
  BY <1>1, HandlerGrows
<1>2. CASE (\E r \in Request : Retry(r) \/ Deliver(r) \/ Crash(r)) \/ Tick \/ UNCHANGED vars
  <2>1. /\ UNCHANGED <<input, existing, call, answer, birth, before>>
        /\ applied \subseteq applied'
        /\ \A q \in Request : pc[q] = "answered" => pc'[q] = "answered"
    BY <1>2 DEF TypeOK, Handling, Retry, Deliver, Perform, Crash, Tick, Send, vars, s3vars, locals
  <2> QED
    BY <2>1 DEF Grows
<1> QED
  BY <1>1, <1>2 DEF CachedNext, Next, Handle, Done

\* What an answer says stays true.
LEMMA FittingStays ==
    ASSUME TypeOK, LocalsOK, Grows, NEW r \in Request, NEW a, pc[r] # "idle",
           input[r].op # "create" => input[r].drawing \in Drawing,
           call'[r] = call[r], Fitting(r, a)
    PROVE  Fitting(r, a)'
<1>1. input'[r] = input[r]
  BY DEF Grows
<1>2. \A d : Deleting(d) => Deleting(d)'
  BY DEF Deleting, Mutates, Grows
<1>3. input[r].op = "check" /\ birth[input[r].drawing] # None
        => birth'[input[r].drawing] = birth[input[r].drawing]
  BY DEF Grows
<1> QED
  BY <1>1, <1>2, <1>3 DEF Fitting, Grows

\* What concerns one request changes only by its own steps.
Own(r) == <<pc[r], input[r], existing[r], call[r], answer[r], before[r]>>

LEMMA OthersKeep ==
    ASSUME TypeOK, NEW r \in Request, NEW q \in Request \ {r},
           \/ Receive(q) \/ ServeCached(q) \/ Handle(q) \/ Retry(q) \/ Deliver(q) \/ Crash(q)
    PROVE  UNCHANGED Own(r)
<1>1. CASE Receive(q) \/ ServeCached(q) \/ Create(q) \/ Head(q) \/ HeadFails(q)
  BY <1>1 DEF TypeOK, Own, Receive, ServeCached, Create, Head, AfterHead, HeadFails, NoCall,
              SendCall, Reply, Goto
<1>2. CASE \/ Update(q) \/ Confirmed(q) \/ CallFails(q) \/ CallRefused(q)
           \/ Stream(q) \/ StreamFails(q) \/ Retry(q) \/ Deliver(q) \/ Crash(q)
  BY <1>2 DEF TypeOK, Own, Update, Confirmed, CallFails, CallRefused, Stream, StreamFails,
              Retry, Deliver, Crash, locals, NoCall, SendCall, Reply, Goto
<1> QED
  BY <1>1, <1>2 DEF Handle

LEMMA Actor ==
    ASSUME TypeOK, [CachedNext]_vars, NEW r \in Request, Own(r)' # Own(r)
    PROVE  \/ Receive(r) \/ ServeCached(r) \/ Create(r) \/ Head(r) \/ HeadFails(r) \/ Update(r)
           \/ Confirmed(r) \/ CallFails(r) \/ CallRefused(r) \/ Stream(r) \/ StreamFails(r)
           \/ Crash(r)
<1>1. PICK q \in Request :
        \/ Receive(q) \/ ServeCached(q) \/ Handle(q) \/ Retry(q) \/ Deliver(q) \/ Crash(q)
  BY DEF CachedNext, Next, Done, Tick, vars, locals, Own
<1>2. q = r
  BY <1>1, OthersKeep
<1>3. ~Retry(r) /\ ~Deliver(r)
  BY DEF Retry, Deliver, locals, Own
<1> QED
  BY <1>1, <1>2, <1>3 DEF Handle

LEMMA InitCInv == Init => CInv
<1> SUFFICES ASSUME Init PROVE CInv
  OBVIOUS
<1>1. IInv
  BY InitLocals, InitIdentities DEF IInv, Identities
<1>2. AnswersOK
  BY DEF Init, AnswersOK
<1>3. HistoryOK
  BY ServiceAssumption DEF Init, S3Init, HistoryOK, Known, BirthOf
<1> QED
  BY <1>1, <1>2, <1>3 DEF CInv

\* Whoever may present the id of a drawing has guessed it, or the drawing has
\* been in the bucket: a creation is only answered with a 201 once S3 has
\* performed it.
LEMMA RequestsKnow ==
    ASSUME TypeOK, AnswersOK, HistoryOK, NEW i \in Requests, i.op # "create"
    PROVE  /\ i.drawing \in Drawing
           /\ i.drawing \in Guessed \/ Known(i.drawing)
<1>1. i.drawing \in PresentableDrawing
  BY DEF Requests
<1>2. ASSUME NEW q \in Answered, answer[q].status = 201, call[q].drawing = i.drawing
      PROVE  Known(i.drawing)
  <2>1. call[q] # None /\ q \in applied
    BY <1>2 DEF AnswersOK, Answered, Fitting
  <2> QED
    BY <1>2, <2>1 DEF Known, Mutates
<1> QED
  BY <1>1, <1>2 DEF PresentableDrawing, Disclosed, Known

\* What is known stays known, and there or asked to be deleted.
LEMMA KnownStays ==
    ASSUME TypeOK, Grows, NEW d
    PROVE  /\ Known(d) => Known(d)'
           /\ Deleting(d) => Deleting(d)'
BY DEF Known, Deleting, Mutates, Grows, TypeOK, S3TypeOK

\* Only the performance of a call changes the bucket.
LEMMA BucketStays ==
    ASSUME [CachedNext]_vars, ~ \E r \in Request : Deliver(r)
    PROVE  UNCHANGED <<objects, applied>>
<1>1. ASSUME NEW r \in Request, Receive(r) \/ ServeCached(r) \/ HeadFails(r) \/ Confirmed(r)
      PROVE  UNCHANGED <<objects, applied>>
  BY <1>1 DEF Receive, ServeCached, HeadFails, Confirmed, NoCall, s3vars
<1>2. ASSUME NEW r \in Request, Create(r) \/ Update(r)
      PROVE  UNCHANGED <<objects, applied>>
  BY <1>2 DEF Create, Update, NoCall, s3vars, SendCall, Send
<1>3. ASSUME NEW r \in Request, Head(r)
      PROVE  UNCHANGED <<objects, applied>>
  BY <1>3 DEF Head, AfterHead, NoCall, s3vars, SendCall, Send
<1>4. ASSUME NEW r \in Request, CallFails(r) \/ CallRefused(r) \/ Stream(r) \/ StreamFails(r)
      PROVE  UNCHANGED <<objects, applied>>
  BY <1>4 DEF CallFails, CallRefused, Stream, StreamFails, NoCall, s3vars, Refuse
<1>5. ASSUME NEW r \in Request, Retry(r) \/ Crash(r)
      PROVE  UNCHANGED <<objects, applied>>
  BY <1>5 DEF Retry, Crash, NoCall, s3vars, Send
<1>6. CASE Tick \/ Done \/ UNCHANGED vars
  BY <1>6 DEF Tick, Done, vars, s3vars
<1> QED
  BY <1>1, <1>2, <1>3, <1>4, <1>5, <1>6 DEF CachedNext, Next, Handle

\* Only the performance of a call makes a drawing known.
LEMMA BucketHistory ==
    ASSUME CInv, [CachedNext]_vars, NEW d \in Drawing, Known(d)'
    PROVE  objects'[d] # None \/ Deleting(d)'
<1>1. Grows
  BY NextGrows DEF CInv, IInv
<1>2. CASE \E r \in Request : Deliver(r)
  <2>1. PICK r \in Request : Deliver(r)
    BY <1>2
  <2>2. /\ call' = call /\ call[r] # None /\ call[r] \in Call
        /\ applied' = applied \cup {r}
        /\ objects' = [objects EXCEPT ![call[r].drawing] = call[r].object]
    BY <2>1 DEF Deliver, Perform, locals, CInv, IInv, TypeOK
  <2>3. CASE call[r].drawing = d
    <3>1. objects'[d] = call[r].object
      BY <2>2, <2>3 DEF CInv, IInv, TypeOK, S3TypeOK
    <3>2. call[r].object = None => Deleting(d)'
      BY <2>2, <2>3 DEF Deleting, Mutates
    <3> QED
      BY <3>1, <3>2
  <2>4. CASE call[r].drawing # d
    <3>1. Known(d) /\ objects'[d] = objects[d]
      BY <2>2, <2>4 DEF Known, Mutates, CInv, IInv, TypeOK, S3TypeOK
    <3> QED
      BY <1>1, <3>1, KnownStays DEF CInv, IInv, HistoryOK
  <2> QED
    BY <2>3, <2>4
<1>3. CASE ~ \E r \in Request : Deliver(r)
  <2>1. UNCHANGED <<objects, applied>>
    BY <1>3, BucketStays
  <2>2. \A q \in applied : call[q] # None /\ call'[q] # None => call'[q] = call[q]
    BY <1>1 DEF Grows, CInv, IInv, TypeOK, S3TypeOK
  <2>3. \A q \in applied : call[q] # None
    BY DEF CInv, HistoryOK
  <2>4. Known(d)
    BY <2>1, <2>2, <2>3 DEF Known, Mutates
  <2> QED
    BY <1>1, <2>1, <2>4, KnownStays DEF CInv, IInv, HistoryOK
<1> QED
  BY <1>2, <1>3

\* Only a creation gives birth to a drawing.
LEMMA BirthStays ==
    ASSUME [CachedNext]_vars, ~ \E r \in Request : Create(r)
    PROVE  birth' = birth
<1>1. ASSUME NEW r \in Request,
             \/ Receive(r) \/ ServeCached(r) \/ Head(r) \/ HeadFails(r) \/ Update(r) \/ Confirmed(r)
      PROVE  birth' = birth
  BY <1>1 DEF Receive, ServeCached, Head, HeadFails, Update, Confirmed
<1>2. ASSUME NEW r \in Request,
             \/ CallFails(r) \/ CallRefused(r) \/ Stream(r) \/ StreamFails(r)
             \/ Retry(r) \/ Deliver(r) \/ Crash(r)
      PROVE  birth' = birth
  BY <1>2 DEF CallFails, CallRefused, Stream, StreamFails, Retry, Deliver, Crash
<1>3. CASE Tick \/ Done \/ UNCHANGED vars
  BY <1>3 DEF Tick, Done, vars
<1> QED
  BY <1>1, <1>2, <1>3 DEF CachedNext, Next, Handle

LEMMA HistoryStays ==
    ASSUME CInv, [CachedNext]_vars
    PROVE  HistoryOK'
<1> USE DEF CInv, IInv
<1>1. Grows
  BY NextGrows
<1>2. \A d \in Guessed \cap Drawing : birth'[d] = None
  <2>1. ASSUME NEW r \in Request, Create(r)
        PROVE  \A d \in Guessed \cap Drawing : birth'[d] = birth[d]
    <3>1. birth' = birth \/ \E d \in FreshDrawing : \E b : birth' = [birth EXCEPT ![d] = b]
      BY <2>1, Zenon DEF Create
    <3>2. CASE birth' = birth
      BY <3>2
    <3>3. CASE \E d \in FreshDrawing : \E b : birth' = [birth EXCEPT ![d] = b]
      <4>1. PICK d \in FreshDrawing : \E b : birth' = [birth EXCEPT ![d] = b]
        BY <3>3
      <4>2. birth \in [Drawing -> Birth \cup {None}]
        BY DEF TypeOK
      <4>3. d \notin Guessed
        BY DEF FreshDrawing
      <4> QED
        BY <4>1, <4>2, <4>3
    <3> QED
      BY <3>1, <3>2, <3>3
  <2>2. CASE ~ \E r \in Request : Create(r)
    BY <2>2, BirthStays DEF HistoryOK
  <2> QED
    BY <2>1, <2>2 DEF HistoryOK
<1>3. \A q \in applied' : call'[q] # None
  <2>1. applied' = applied \/ \E r \in Request : Deliver(r)
    BY BucketStays
  <2>2. \A q \in applied' : q \in Request /\ call[q] # None
    BY <2>1 DEF HistoryOK, TypeOK, S3TypeOK, Deliver, Perform
  <2> QED
    BY <1>1, <2>2 DEF Grows
<1>4. ASSUME NEW r \in Request, input'[r] # None, input'[r].op # "create"
      PROVE  /\ input'[r].drawing \in Drawing
             /\ input'[r].drawing \in Guessed \/ Known(input[r].drawing)'
  <2>1. input'[r] = input[r] \/ input'[r] \in Requests
    <3>1. CASE Receive(r) \/ ServeCached(r)
      BY <3>1 DEF Receive, ServeCached, TypeOK
    <3>2. CASE ~(Receive(r) \/ ServeCached(r)) /\ input'[r] # input[r]
      BY <3>2, Actor
         DEF Own, Create, Head, HeadFails, Update, Confirmed, CallFails, CallRefused, Stream,
             StreamFails, Crash
    <3> QED
      BY <3>1, <3>2
  <2>2. CASE input'[r] = input[r]
    BY <1>1, <1>4, <2>2, KnownStays DEF HistoryOK
  <2>3. CASE input'[r] \in Requests
    <3>1. PICK i \in Requests : i = input'[r]
      BY <2>3
    <3> QED
      BY <1>1, <1>4, <3>1, RequestsKnow, KnownStays
  <2> QED
    BY <2>1, <2>2, <2>3
<1>5. ASSUME NEW r \in Request, call'[r] # None, input'[r].op # "create"
      PROVE  call'[r].drawing = input'[r].drawing
  <2>1. CASE call[r] # None
    <3>1. pc[r] # "idle"
      BY <2>1 DEF LocalsOK
    <3> QED
      BY <1>1, <1>5, <2>1, <3>1 DEF Grows, HistoryOK
  <2>2. CASE call[r] = None
    <3>1. Create(r) \/ Head(r) \/ Update(r)
      BY <1>5, <2>2, Actor
         DEF Own, Receive, ServeCached, HeadFails, Confirmed, CallFails, CallRefused, Stream,
             StreamFails, Crash, NoCall
    <3>2. CASE Create(r)
      BY <1>5, <3>2 DEF Create, LocalsOK
    <3>3. CASE Head(r) \/ Update(r)
      BY <1>5, <2>2, <3>3 DEF Head, AfterHead, Update, NoCall, SendCall, TypeOK
    <3> QED
      BY <3>1, <3>2, <3>3
  <2> QED
    BY <2>1, <2>2
<1>6. ASSUME NEW r \in Request, pc'[r] = "stream"
      PROVE  input'[r].op = "get"
  <2>1. CASE pc[r] = "stream"
    BY <1>1, <2>1 DEF Grows, HistoryOK
  <2>2. CASE pc[r] # "stream"
    <3>1. Head(r)
      BY <1>6, <2>2, Actor
         DEF Own, TypeOK, Receive, ServeCached, Create, HeadFails, Update, Confirmed,
             CallFails, CallRefused, Stream, StreamFails, Crash, SendCall, Reply, Goto
    <3> QED
      BY <1>6, <2>2, <3>1 DEF Head, AfterHead, SendCall, Reply, Goto, TypeOK
  <2> QED
    BY <2>1, <2>2
<1>7. ASSUME NEW r \in Request, existing'[r] # None
      PROVE  pc'[r] # "idle" /\ input'[r].drawing \in Drawing
  <2>1. CASE existing[r] # None
    <3>1. pc'[r] # "idle"
      BY <2>1, Actor
         DEF Own, HistoryOK, TypeOK, Receive, ServeCached, Create, Head, AfterHead, HeadFails,
             Update, Confirmed, CallFails, CallRefused, Stream, StreamFails, Crash, SendCall,
             Reply, Goto
    <3> QED
      BY <1>1, <2>1, <3>1 DEF Grows, HistoryOK
  <2>2. CASE existing[r] = None
    <3>1. Head(r)
      BY <1>7, <2>2, Actor
         DEF Own, Receive, ServeCached, Create, HeadFails, Update, Confirmed, CallFails,
             CallRefused, Stream, StreamFails, Crash
    <3> QED
      BY <3>1 DEF Head, AfterHead, SendCall, Reply, Goto, LocalsOK, TypeOK
  <2> QED
    BY <2>1, <2>2
<1> QED
  BY <1>2, <1>3, <1>4, <1>5, <1>6, <1>7, BucketHistory DEF HistoryOK

-------------------------------------------------------------------------------
(* Answers.                                                                *)

\* An error other than the ones of the exceptions that tell something about
\* the drawing fits whoever gets it.
Telltale == {DrawingNotFound, MissingCredentials, AdminIdMismatch}

LEMMA ErrorFits ==
    ASSUME NEW r \in Request, NEW a \in Answer, a \notin Telltale,
           a.kind # "ok", a.report = None, a.status \in {400, 500} \/ a = Aborted
    PROVE  Fitting(r, a)'
BY DEF Fitting, Aborted, Telltale

LEMMA ReceiveFits ==
    ASSUME CInv, NEW r \in Request, Receive(r), pc'[r] = "answered"
    PROVE  answer'[r] # None /\ Fitting(r, answer[r])'
<1>1. input'[r].admin = None /\ answer'[r] = MissingCredentials
  BY DEF CInv, IInv, TypeOK, Receive, Reply, Goto
<1> QED
  BY <1>1, FixedAnswers DEF Fitting, MissingCredentials, DrawingNotFound, Detail

LEMMA ServeFits ==
    ASSUME CInv, NEW r \in Request, ServeCached(r)
    PROVE  answer'[r] # None /\ Fitting(r, answer[r])'
<1>1. PICK i \in Requests, q \in Answered :
             /\ input[q].op = i.op /\ input[q].drawing = i.drawing
             /\ i.op \in Readable
             /\ answer[q] \in Answer /\ Fitting(q, answer[q])
             /\ Cacheable(i.op, answer[q])
             /\ input' = [input EXCEPT ![r] = i]
             /\ Reply(r, answer[q])
  BY CachedAnswers DEF CInv, IInv
<1>2. input'[r] = i /\ answer'[r] = answer[q] /\ answer[q] # None
  BY <1>1, FixedAnswers DEF CInv, IInv, TypeOK, Reply
<1>3. UNCHANGED <<call, birth, applied>> /\ call[r] = None
  BY DEF ServeCached, NoCall, s3vars, CInv, IInv, LocalsOK
<1>4. Deleting(i.drawing) => Deleting(i.drawing)'
  BY <1>3 DEF Deleting, Mutates
<1> QED
  BY <1>1, <1>2, <1>3, <1>4
     DEF Fitting, Readable, Cacheable, HandlerNoStore, EndpointNoStore

LEMMA CreateFits ==
    ASSUME CInv, NEW r \in Request, Create(r) \/ Update(r), pc'[r] = "answered"
    PROVE  answer'[r] # None /\ Fitting(r, answer[r])'
<1> DEFINE u == input[r].upload
           v == Validate(u).refusal
<1>1. u \in Upload /\ input'[r] = input[r]
  BY ServiceAssumption DEF Create, Update, CInv, IInv, LocalsOK
<1>2. CASE v # None /\ Reply(r, v)
  <2>1. v \in {InvalidKMZ, DigestMismatch}
    BY <1>2, Zenon DEF Validate
  <2>2. answer'[r] = v
    BY <1>2 DEF Reply, CInv, IInv, TypeOK
  <2> QED
    BY <2>1, <2>2, FixedAnswers, ErrorFits
       DEF InvalidKMZ, DigestMismatch, Telltale, DrawingNotFound, MissingCredentials,
           AdminIdMismatch, Detail, Answer
<1>3. CASE Update(r) /\ (Reply(r, UpdateResponse(existing[r])) \/ Reply(r, Unhandled))
  <2>1. existing[r] \in Object /\ input[r].op = "update" /\ call[r] = None
    BY <1>3 DEF Update, CInv, IInv, TypeOK, LocalsOK
  <2>2. answer'[r] \in {UpdateResponse(existing[r]), Unhandled} /\ answer'[r] \in Answer
    BY <1>3, <2>1, FixedAnswers, MetadataAnswers DEF Reply, CInv, IInv, TypeOK
  <2>3. call'[r] = None
    BY <1>3, <2>1 DEF Update, NoCall, SendCall, Reply, Goto, CInv, IInv, TypeOK
  <2> QED
    BY <1>1, <2>1, <2>2, <2>3, FixedAnswers
       DEF Fitting, UpdateResponse, Ok, Unhandled, DrawingNotFound, Detail
<1>4. \A d, o : ~SendCall(r, d, o)
  BY DEF SendCall, Goto, CInv, IInv, TypeOK
<1> QED
  BY <1>2, <1>3, <1>4 DEF Create, Update

LEMMA HeadFits ==
    ASSUME CInv, NEW r \in Request, Head(r) \/ HeadFails(r), pc'[r] = "answered"
    PROVE  answer'[r] # None /\ Fitting(r, answer[r])'
<1> DEFINE d == input[r].drawing
           o == objects[d]
<1>1. /\ d \in Drawing /\ o \in Object \cup {None} /\ call[r] = None
      /\ input[r].op # "create" /\ input[r] # None
      /\ input[r].op \in Guarded => input[r].admin # None
      /\ UNCHANGED <<input, birth>>
  BY DEF Head, HeadFails, CInv, IInv, LocalsOK, TypeOK, S3TypeOK
<1>2. CASE Reply(r, StorageFailed)
  BY <1>2, FixedAnswers, ErrorFits
     DEF StorageFailed, Telltale, DrawingNotFound, MissingCredentials, AdminIdMismatch, Detail,
         Reply, CInv, IInv, TypeOK
<1>3. CASE o = None /\ Reply(r, DrawingNotFound) /\ NoCall
  <2>1. d \in Guessed \/ Deleting(d)
    BY <1>1, <1>3 DEF CInv, HistoryOK
  <2>2. Deleting(d)' <=> Deleting(d)
    BY <1>1, <1>3 DEF NoCall, Deleting, Mutates
  <2>3. answer'[r] = DrawingNotFound
    BY <1>3 DEF Reply, CInv, IInv, TypeOK
  <2> QED
    BY <1>1, <2>1, <2>2, <2>3, FixedAnswers DEF Fitting, DrawingNotFound, Detail
<1>4. CASE o # None /\ AfterHead(r, o)
  <2>1. o \in Object /\ birth[d] # None /\ birth[d].admin = o.admin
    BY <1>1, <1>4, BirthType DEF CInv, IInv, ObjectsOK, OfDrawing
  <2>2. CASE ~Authorized(o, input[r].admin) /\ input[r].op \in Guarded /\ Reply(r, AdminIdMismatch)
    <3>1. answer'[r] = AdminIdMismatch
      BY <2>2 DEF Reply, CInv, IInv, TypeOK
    <3> QED
      BY <1>1, <2>1, <2>2, <3>1, FixedAnswers
         DEF Fitting, AdminIdMismatch, DrawingNotFound, Detail, Authorized
  <2>3. CASE input[r].op = "metadata" /\ Reply(r, MetadataResponse(o)) /\ NoCall
    <3>1. answer'[r] = MetadataResponse(o) /\ answer'[r] \in Answer
      BY <2>1, <2>3, MetadataAnswers DEF Reply, CInv, IInv, TypeOK
    <3>2. call'[r] = None
      BY <1>1, <2>3 DEF NoCall
    <3> QED
      BY <1>1, <2>1, <2>3, <3>1, <3>2, FixedAnswers
         DEF Fitting, MetadataResponse, Ok, StorageFailed, DrawingNotFound, Detail
  <2>4. CASE /\ input[r].op = "check" /\ Authorized(o, input[r].admin)
             /\ Reply(r, Ok(204, None)) /\ NoCall
    <3>1. answer'[r] = Ok(204, None) /\ call'[r] = None
      BY <1>1, <2>4 DEF Reply, NoCall, CInv, IInv, TypeOK
    <3> QED
      BY <1>1, <2>1, <2>4, <3>1, FixedAnswers
         DEF Fitting, Ok, DrawingNotFound, Detail, Authorized, Guarded
  <2>5. ~Goto(r, "stream") /\ ~Goto(r, "update") /\ ~SendCall(r, d, None)
    BY DEF SendCall, Goto, CInv, IInv, TypeOK
  <2> QED
    BY <1>4, <2>2, <2>3, <2>4, <2>5 DEF AfterHead, Guarded
<1> QED
  BY <1>2, <1>3, <1>4 DEF Head, HeadFails

LEMMA CallingFits ==
    ASSUME CInv, NEW r \in Request, Confirmed(r) \/ CallFails(r) \/ CallRefused(r)
    PROVE  answer'[r] # None /\ Fitting(r, answer[r])'
<1>1. /\ call[r] # None /\ input[r].op \in {"create", "update", "delete"}
      /\ input[r].op = "update" => call[r].object \in Object
      /\ UNCHANGED <<input, call, applied>>
  BY DEF Confirmed, CallFails, CallRefused, Refuse, NoCall, s3vars, CInv, IInv, LocalsOK,
         TypeOK, Call
<1>2. CASE CallFails(r) \/ CallRefused(r)
  BY <1>2, FixedAnswers, ErrorFits
     DEF CallFails, CallRefused, StorageFailed, Unhandled, Telltale, DrawingNotFound,
         MissingCredentials, AdminIdMismatch, Detail, Reply, CInv, IInv, TypeOK
<1>3. CASE Confirmed(r)
  <2>1. r \in applied /\ answer'[r] = Confirmation(r) /\ Confirmation(r) \in Answer
    BY <1>3, ConfirmationType DEF Confirmed, Reply, CInv, IInv, TypeOK
  <2>2. Confirmation(r).status \in {200, 201, 204, 500}
    BY <1>1, MetadataAnswers
       DEF Confirmation, Ok, UpdateResponse, Unhandled
  <2>3. /\ Confirmation(r).status = 201 => input[r].op = "create"
        /\ Confirmation(r).report # None => /\ Confirmation(r).status = 200
                                            /\ input[r].op = "update"
    BY <1>1 DEF Confirmation, Ok, UpdateResponse, Unhandled
  <2> QED
    BY <1>1, <2>1, <2>2, <2>3, FixedAnswers DEF Fitting, DrawingNotFound, Detail
<1> QED
  BY <1>2, <1>3

LEMMA StreamFits ==
    ASSUME CInv, NEW r \in Request, Stream(r) \/ StreamFails(r)
    PROVE  answer'[r] # None /\ Fitting(r, answer[r])'
<1>1. /\ input[r].op = "get" /\ call[r] = None /\ UNCHANGED <<input, call>>
  BY DEF Stream, StreamFails, NoCall, CInv, IInv, HistoryOK, LocalsOK
<1>2. \/ answer'[r] = Aborted
      \/ \E shown : answer'[r] = Ok(200, shown)
  BY StreamAnswer DEF CInv, IInv, Reply, TypeOK
<1>3. answer'[r] # None
  BY StreamAnswer, FixedAnswers DEF CInv, IInv, Reply, TypeOK
<1>4. /\ answer'[r].status = 200 /\ answer'[r].kind \in {"aborted", "ok"}
      /\ answer'[r] # DrawingNotFound
  <2>1. CASE answer'[r] = Aborted
    BY <2>1 DEF Aborted, DrawingNotFound, Detail
  <2>2. ASSUME NEW shown, answer'[r] = Ok(200, shown)
        PROVE  /\ answer'[r].status = 200 /\ answer'[r].kind = "ok"
               /\ answer'[r] # DrawingNotFound
    BY <2>2 DEF Ok, DrawingNotFound, Detail
  <2> QED
    BY <1>2, <2>1, <2>2 DEF Aborted
<1> QED
  BY <1>1, <1>3, <1>4 DEF Fitting

\* Whoever is answered is told something true.
LEMMA AnswersStay ==
    ASSUME CInv, [CachedNext]_vars
    PROVE  AnswersOK'
<1>1. Grows /\ TypeOK' /\ LocalsOK'
  BY NextGrows, CachedIInv DEF CInv, IInv
<1>2. ASSUME NEW r \in Request, pc'[r] = "answered" \/ answer'[r] # None
      PROVE  answer'[r] # None /\ Fitting(r, answer[r])'
  <2>1. pc'[r] = "answered"
    BY <1>1, <1>2 DEF LocalsOK
  <2>2. CASE answer[r] # None
    <3>1. /\ answer'[r] = answer[r] /\ call'[r] = call[r] /\ pc[r] # "idle"
          /\ Fitting(r, answer[r])
      BY <1>1, <2>2 DEF Grows, CInv, IInv, LocalsOK, AnswersOK
    <3>2. input[r].op # "create" => input[r].drawing \in Drawing
      BY <3>1 DEF CInv, IInv, LocalsOK, HistoryOK
    <3>3. Fitting(r, answer[r])'
      <4> DEFINE a == answer[r]
      <4>1. Fitting(r, a)'
        BY <1>1, <3>1, <3>2, FittingStays DEF CInv, IInv
      <4> QED
        BY <3>1, <4>1 DEF Fitting
    <3> QED
      BY <2>2, <3>1, <3>3
  <2>3. CASE answer[r] = None
    <3>1. pc[r] # "answered"
      BY <2>3 DEF CInv, AnswersOK
    <3>2. \/ Receive(r) \/ ServeCached(r) \/ Create(r) \/ Head(r) \/ HeadFails(r) \/ Update(r)
          \/ Confirmed(r) \/ CallFails(r) \/ CallRefused(r) \/ Stream(r) \/ StreamFails(r)
      BY <2>1, <3>1, Actor DEF Own, CInv, IInv, TypeOK, Crash
    <3> QED
      BY <2>1, <3>2, ReceiveFits, ServeFits, CreateFits, HeadFits, CallingFits, StreamFits
  <2> QED
    BY <2>2, <2>3
<1> QED
  BY <1>2 DEF AnswersOK

-------------------------------------------------------------------------------
(* The theorems.                                                           *)

\* The invariant holds with any number of caches that serve what they may.
THEOREM CachedInductive == CachedSpec => []CInv
<1>1. Init => CInv
  BY InitCInv
<1>2. CInv /\ [CachedNext]_vars => CInv'
  BY CachedIInv, AnswersStay, HistoryStays DEF CInv
<1> QED
  BY <1>1, <1>2, PTL DEF CachedSpec

\* What holds of the objects holds with caches as well,
THEOREM CachedSafety ==
    CachedSpec => [](TypeOK /\ Integrity /\ IdentityPreserved /\ ModifiedAfterCreated)
<1>1. CInv => IInv
  BY DEF CInv
<1> QED
  BY <1>1, Consequences, CachedInductive, PTL

\* and they change only by the calls of those who may.
THEOREM CachedMutations == CachedSpec => OnlyHolderMutates
<1>1. ASSUME CInv, [CachedNext]_vars
      PROVE  HolderMutates
  <2>1. CASE [Next]_vars
    BY <1>1, <2>1, StepAuthorized DEF CInv
  <2>2. CASE \E r \in Request : ServeCached(r)
    BY <2>2 DEF ServeCached, NoCall, s3vars, HolderMutates
  <2> QED
    BY <1>1, <2>1, <2>2 DEF CachedNext
<1> QED
  BY <1>1, CachedInductive, PTL DEF CachedSpec, OnlyHolderMutates

\* A cached answer is one the registry of drawings does not see.
THEOREM CachedImplementsRegistry == CachedSpec => RegistryImplemented
<1>1. Init => Registry!RegInit
  BY InitRegistry
<1>2. ASSUME CInv, CInv', [CachedNext]_vars
      PROVE  [Registry!RegNext]_(Registry!regvars)
  <2>1. CASE [Next]_vars
    BY <1>2, <2>1, StepImplementsRegistry DEF CInv
  <2>2. ASSUME NEW r \in Request, ServeCached(r)
        PROVE  UNCHANGED Registry!regvars
    <3>1. call[r] = None /\ \E a : Reply(r, a)
      BY <1>2, <2>2 DEF ServeCached, CInv, IInv, LocalsOK
    <3>2. /\ UNCHANGED <<objects, call, applied, birth>>
          /\ \A q \in Request : call[q] # None => input'[q] = input[q]
      BY <1>2, <2>2, <3>1 DEF ServeCached, NoCall, s3vars, CInv, IInv, TypeOK
    <3>3. UNCHANGED regview
      BY <1>2, <3>1, <3>2, QuietRegistry, ReplyAcknowledges DEF CInv, IInv
    <3> QED
      BY <3>3 DEF regview, Registry!regvars, Accepted, Acked
  <2> QED
    BY <1>2, <2>1, <2>2 DEF CachedNext
<1> QED
  BY <1>1, <1>2, CachedInductive, PTL DEF CachedSpec, RegistryImplemented, Registry!RegSpec

\* No cache tells a caller what holds for another caller's admin id, whatever
\* earlier answers it kept that it may keep.
THEOREM AuthAnswersCorrect == CachedSpec => []AuthAnswersOwn
<1>1. CInv => AuthAnswersOwn
  BY DEF CInv, AnswersOK, Fitting, AuthAnswersOwn
<1> QED
  BY <1>1, CachedInductive, PTL

\* A 404, also one from a cache, is not the work of storage failures, retries,
\* crashes or overlapping updates.
THEOREM NotFoundCorrect == CachedSpec => []NotFoundIsTrue
<1>1. CInv => NotFoundIsTrue
  BY FixedAnswers DEF CInv, AnswersOK, HistoryOK, Fitting, Deleting, NotFoundIsTrue
<1> QED
  BY <1>1, CachedInductive, PTL

\* A drawing whose creation was confirmed stays for as long as nobody asks S3
\* to delete it, whatever fails meanwhile.
THEOREM CreatedCorrect == CachedSpec => []CreatedStays
<1>1. CInv => CreatedStays
  <2> SUFFICES ASSUME CInv, NEW d \in Drawing, NEW r \in Request,
                      Acknowledged(r), Mutates(r, d),
                      \A q \in Request : Mutates(q, d) => call[q].object # None
               PROVE  objects[d] # None
    BY DEF CreatedStays
  <2>1. r \in applied
    BY DEF CInv, AnswersOK, Fitting, Acknowledged
  <2> QED
    BY <2>1 DEF CInv, HistoryOK, Known, Deleting
<1> QED
  BY <1>1, CachedInductive, PTL
===============================================================================
