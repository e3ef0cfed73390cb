---------------------------- MODULE RegistryProofs ----------------------------
(***************************************************************************)
(* DrawingsService implements DrawingRegistry: under the refinement        *)
(* mapping of DrawingsRequirements its initial states are initial states   *)
(* of the registry and each of its steps is a step of the registry or      *)
(* leaves the registry unchanged. The inductive invariant supplies what a  *)
(* single step does not show: that the object an update copied the         *)
(* identity from is of the drawing it writes to, and who is authorized.    *)
(***************************************************************************)
EXTENDS DrawingsProofs

\* The mapping, for the parts of the registry that are not plain variables.
Accepted == [r \in Request |->
               IF call[r] = None THEN None
               ELSE [drawing |-> call[r].drawing, by |-> input[r].admin,
                     object |-> call[r].object]]

Acked == {r \in Request : Acknowledged(r)}

\* The registry's variables as seen from the service.
regview == <<birth, objects, Accepted, applied, Acked>>

\* The registry speaks of the same values.
LEMMA SameValues ==
    /\ Registry!Object = Object
    /\ \A c : Registry!Whole(c) = Whole(c)
<1>1. /\ Registry!Bytes = Bytes /\ Registry!Stamp = Stamp
      /\ Registry!StoredName = StoredName
  BY DEF Registry!Bytes, Bytes, Registry!Position, Position, Registry!Start, Start,
         Registry!AfterMagic, AfterMagic, Registry!Eof, Eof, Registry!Stamp, Stamp,
         Registry!StoredName, StoredName, Registry!ShownName, ShownName
<1>2. Registry!Digest = Digest
  BY <1>1 DEF Registry!Digest, Digest
<1>3. Registry!Object = Object
  BY <1>1, <1>2 DEF Registry!Object, Object
<1>4. \A c : Registry!Whole(c) = Whole(c)
  BY DEF Registry!Whole, Whole, Registry!Start, Start
<1> QED
  BY <1>3, <1>4

LEMMA InitRegistry == Init => Registry!RegInit
<1> SUFFICES ASSUME Init PROVE Registry!RegInit
  OBVIOUS
<1>1. objects = InitialObjects /\ applied = {}
  BY DEF Init, S3Init
<1>2. birth = [d \in Drawing |->
                 IF InitialObjects[d] = None THEN None
                 ELSE [admin |-> InitialObjects[d].admin, created |-> InitialObjects[d].created]]
  BY DEF Init, BirthOf
<1>3. Accepted = [r \in Request |-> None] /\ Acked = {}
  BY DEF Init, Accepted, Acked, Acknowledged
<1> QED
  BY <1>1, <1>2, <1>3 DEF Registry!RegInit, Registry!Identity, Accepted, Acked

\* A first call of r changes the registry's acceptances for r alone.
LEMMA CallAccepted ==
    ASSUME TypeOK, LocalsOK, NEW r \in Request,
           pc[r] \in {"create", "head", "update"},
           NEW d \in Drawing, NEW o \in Object \cup {None},
           SendCall(r, d, o), UNCHANGED input
    PROVE  LET w == [drawing |-> d, by |-> input[r].admin, object |-> o]
           IN  /\ Accepted[r] = None
               /\ Accepted'[r] = w
               /\ w \in Registry!Write
               /\ Accepted' = [Accepted EXCEPT ![r] = w]
               /\ UNCHANGED <<objects, applied, Acked>>
<1> DEFINE w == [drawing |-> d, by |-> input[r].admin, object |-> o]
<1>1. /\ call' = [call EXCEPT ![r] = [drawing |-> d, object |-> o]]
      /\ call'[r] # None /\ answer' = answer /\ applied' = applied
  BY SendCallTypes
<1>2. call[r] = None /\ answer[r] = None /\ input[r] \in Input
  BY DEF LocalsOK, TypeOK
<1>3. UNCHANGED objects
  BY DEF SendCall, Send
<1>4. Accepted[r] = None /\ Accepted'[r] = w
  BY <1>1, <1>2 DEF Accepted, TypeOK
<1>5. w \in Registry!Write
  BY <1>2, SameValues DEF Registry!Write, Input
<1>6. Accepted' = [Accepted EXCEPT ![r] = w]
  BY <1>1 DEF Accepted, TypeOK
<1>7. \A q \in Request : Acknowledged(q)' <=> Acknowledged(q)
  BY <1>1, <1>2 DEF Acknowledged, TypeOK
<1>8. Acked' = Acked
  BY <1>7 DEF Acked
<1> QED
  BY <1>1, <1>3, <1>4, <1>5, <1>6, <1>8

\* A call of a request that creates nothing replaces or removes.
LEMMA CallReplaces ==
    ASSUME IInv, IInv', NEW r \in Request, pc[r] \in {"head", "update"},
           input[r].op # "create",
           NEW d \in Drawing, NEW o \in Object \cup {None},
           SendCall(r, d, o), UNCHANGED <<input, birth>>
    PROVE  Registry!Replace(r)
<1> DEFINE w == [drawing |-> d, by |-> input[r].admin, object |-> o]
<1>1. TypeOK /\ LocalsOK
  BY DEF IInv
<1>2. call'[r] = [drawing |-> d, object |-> o] /\ call'[r] # None
  BY <1>1, SendCallTypes DEF TypeOK
<1>3. birth[d] # None /\ input[r].admin = birth[d].admin
  BY <1>2 DEF IInv, CallersAuthorized
<1>4. o # None => /\ birth[d] = [admin |-> o.admin, created |-> o.created]
                  /\ \E c \in Zip : /\ o.body = Whole(c)
                                    /\ o.sha256 = [of |-> Whole(c), case |-> "lower"]
  <2> SUFFICES ASSUME o # None PROVE  /\ birth[d] = BirthOf(o) /\ o \in Object
                                      /\ Sound(o)'
    BY BirthType DEF Sound
  <2> QED
    BY <1>2 DEF IInv, ObjectsOK, OfDrawing, BirthOf, Sound
<1>5. /\ Accepted[r] = None
      /\ Accepted'[r] = w
      /\ w \in Registry!Write
      /\ Accepted' = [Accepted EXCEPT ![r] = Accepted'[r]]
      /\ UNCHANGED <<objects, applied, Acked>>
  BY <1>1, CallAccepted
<1>6. Registry!Accept(r)
  BY <1>5 DEF Registry!Accept, Accepted, Acked
<1>7. Accepted'[r].drawing = d /\ Accepted'[r].by = input[r].admin /\ Accepted'[r].object = o
  BY <1>5
<1>8. o # None => /\ Registry!Genuine(o)
                  /\ Registry!Identity(o) = birth[d]
  BY <1>4, SameValues DEF Registry!Genuine, Registry!Identity
<1> QED
  BY <1>3, <1>6, <1>7, <1>8 DEF Registry!Replace, Accepted

\* What the registry does not see.
LEMMA QuietRegistry ==
    ASSUME UNCHANGED <<objects, call, applied, birth>>,
           \A q \in Request : call[q] # None => input'[q] = input[q],
           \A q \in Request : Acknowledged(q)' <=> Acknowledged(q)
    PROVE  UNCHANGED regview
<1>1. Accepted' = Accepted
  BY DEF Accepted
<1>2. Acked' = Acked
  BY DEF Acked
<1> QED
  BY <1>1, <1>2 DEF regview

\* An answer to a request without a call, or one that is no success,
\* acknowledges no write.
LEMMA ReplyAcknowledges ==
    ASSUME TypeOK, NEW r \in Request, NEW a, Reply(r, a), UNCHANGED call,
           call[r] = None \/ (answer[r] = None /\ a.kind # "ok")
    PROVE  \A q \in Request : Acknowledged(q)' <=> Acknowledged(q)
BY DEF Reply, Acknowledged, TypeOK

LEMMA CreateRegisters ==
    ASSUME IInv, IInv', NEW r \in Request, Create(r)
    PROVE  Registry!Register(r) \/ UNCHANGED regview
<1> DEFINE u == input[r].upload
<1>1. /\ TypeOK /\ LocalsOK /\ pc[r] = "create" /\ u \in Upload /\ call[r] = None
      /\ UNCHANGED input
  BY ServiceAssumption DEF Create, IInv, LocalsOK
<1>2. CASE Reply(r, Validate(u).refusal) /\ NoCall /\ UNCHANGED birth
  BY <1>1, <1>2, QuietRegistry, ReplyAcknowledges DEF NoCall, s3vars
<1>3. ASSUME Validate(u).refusal = None, NEW d \in FreshDrawing, NEW a \in FreshAdmin,
             LET o == NewObject(u, Validate(u).file, d, a, clock, clock)
             IN  SendCall(r, d, o) /\ birth' = [birth EXCEPT ![d] = BirthOf(o)]
      PROVE  Registry!Register(r)
  <2> DEFINE n == NewObject(u, Validate(u).file, d, a, clock, clock)
  <2>1. d \in Drawing /\ a \in Admin /\ birth[d] = None
    BY DEF FreshDrawing, FreshAdmin
  <2>2. clock \in Nat /\ clock \in Stamp
    BY <1>1, ServiceAssumption DEF TypeOK, Stamp
  <2>3. n \in Object /\ n # None
    BY <1>1, <1>3, <2>1, <2>2, NewObjectType, DataAssumption
  <2>4. PICK o \in Object : /\ o # None
                            /\ SendCall(r, d, o)
                            /\ birth' = [birth EXCEPT ![d] = BirthOf(o)]
    BY <1>3, <2>3
  <2> DEFINE w == [drawing |-> d, by |-> input[r].admin, object |-> o]
  <2>5. BirthOf(o) = Registry!Identity(o)
    BY BirthType DEF Registry!Identity
  <2>6. call'[r] = [drawing |-> d, object |-> o] /\ call'[r] # None
    BY <1>1, <2>1, <2>4, SendCallTypes DEF TypeOK
  <2>7. Sound(o)'
    BY <2>4, <2>6 DEF IInv, ObjectsOK, Sound
  <2>8. Registry!Genuine(o)
    BY <2>7, SameValues DEF Registry!Genuine, Sound
  <2>9. /\ Accepted[r] = None
        /\ Accepted'[r] = w
        /\ w \in Registry!Write
        /\ Accepted' = [Accepted EXCEPT ![r] = Accepted'[r]]
        /\ UNCHANGED <<objects, applied, Acked>>
    BY <1>1, <2>1, <2>4, CallAccepted
  <2>10. Registry!Accept(r)
    BY <2>9 DEF Registry!Accept, Accepted, Acked
  <2>11. Accepted'[r].drawing = d /\ Accepted'[r].object = o
    BY <2>9
  <2> QED
    BY <2>1, <2>4, <2>5, <2>8, <2>10, <2>11 DEF Registry!Register, Accepted
<1> QED
  BY <1>2, <1>3 DEF Create

LEMMA HeadReplaces ==
    ASSUME IInv, IInv', NEW r \in Request, Head(r)
    PROVE  Registry!Replace(r) \/ UNCHANGED regview
<1> DEFINE d == input[r].drawing
           o == objects[d]
<1>1. /\ TypeOK /\ LocalsOK /\ pc[r] = "head" /\ call[r] = None
      /\ input[r].op # "create" /\ d \in Drawing
      /\ UNCHANGED <<input, birth>>
  BY DEF Head, IInv, LocalsOK
<1>2. CASE NoCall /\ \E a : Reply(r, a)
  <2>1. \A q \in Request : Acknowledged(q)' <=> Acknowledged(q)
    BY <1>1, <1>2, ReplyAcknowledges DEF NoCall
  <2> QED
    BY <1>1, <1>2, <2>1, QuietRegistry DEF NoCall, s3vars
<1>3. CASE NoCall /\ UNCHANGED answer
  <2>1. \A q \in Request : Acknowledged(q)' <=> Acknowledged(q)
    BY <1>3 DEF Acknowledged, NoCall
  <2> QED
    BY <1>1, <1>3, <2>1, QuietRegistry DEF NoCall, s3vars
<1>4. CASE SendCall(r, d, None)
  BY <1>1, <1>4, CallReplaces
<1> QED
  BY <1>2, <1>3, <1>4 DEF Head, AfterHead, Goto

LEMMA UpdateReplaces ==
    ASSUME IInv, IInv', NEW r \in Request, Update(r)
    PROVE  Registry!Replace(r) \/ UNCHANGED regview
<1> DEFINE i == input[r]
           o == existing[r]
           n == UpdatedObject(i.upload, Validate(i.upload).file, i.drawing, i.admin, o, clock)
<1>1. /\ TypeOK /\ LocalsOK /\ pc[r] = "update" /\ call[r] = None
      /\ i \in Input /\ i.op = "update" /\ i.drawing \in Drawing /\ i.upload \in Upload
      /\ o \in Object
      /\ UNCHANGED <<input, birth>>
  BY ServiceAssumption DEF Update, IInv, LocalsOK, TypeOK
<1>2. CASE NoCall /\ \E a : Reply(r, a)
  <2>1. \A q \in Request : Acknowledged(q)' <=> Acknowledged(q)
    BY <1>1, <1>2, ReplyAcknowledges DEF NoCall
  <2> QED
    BY <1>1, <1>2, <2>1, QuietRegistry DEF NoCall, s3vars
<1>3. CASE Validate(i.upload).refusal = None /\ SendCall(r, i.drawing, n)
  <2>1. i.admin \in Admin \cup {None} /\ o.created \in Stamp /\ clock \in Nat
    BY <1>1, ServiceAssumption DEF Input, Object, TypeOK
  <2>2. n \in Object
    BY <1>1, <1>3, <2>1, NewObjectType DEF UpdatedObject
  <2>3. PICK m \in Object : SendCall(r, i.drawing, m)
    BY <1>3, <2>2
  <2> QED
    BY <1>1, <2>3, CallReplaces
<1> QED
  BY <1>2, <1>3 DEF Update

LEMMA DeliverEffects ==
    ASSUME IInv, NEW r \in Request, Deliver(r)
    PROVE  Registry!Effect(r)
<1>1. /\ call[r] # None
      /\ objects' = [objects EXCEPT ![call[r].drawing] = call[r].object]
      /\ applied' = applied \cup {r}
      /\ UNCHANGED <<birth, call, input, answer>>
  BY DEF Deliver, Perform, locals
<1>2. Accepted[r] # None /\ Accepted[r].drawing = call[r].drawing
      /\ Accepted[r].object = call[r].object
  <2>1. Accepted[r] = [drawing |-> call[r].drawing, by |-> input[r].admin,
                       object |-> call[r].object]
    BY <1>1 DEF Accepted
  <2>2. input[r] \in Input /\ call[r] \in Call
    BY <1>1 DEF IInv, TypeOK, LocalsOK
  <2>3. Accepted[r] \in Registry!Write
    BY <2>1, <2>2, SameValues DEF Registry!Write, Input, Call
  <2> QED
    BY <2>1, <2>3, WriteAssumption
<1>3. Accepted' = Accepted
  BY <1>1 DEF Accepted
<1>4. Acked' = Acked
  BY <1>1 DEF Acked, Acknowledged
<1> QED
  BY <1>1, <1>2, <1>3, <1>4 DEF Registry!Effect, Accepted, Acked

LEMMA ConfirmedAcknowledges ==
    ASSUME IInv, NEW r \in Request, Confirmed(r)
    PROVE  Registry!Acknowledge(r) \/ UNCHANGED regview
<1>1. /\ TypeOK /\ r \in applied /\ call[r] # None /\ answer[r] = None
      /\ Reply(r, Confirmation(r)) /\ NoCall
      /\ UNCHANGED <<objects, call, applied, input, birth>>
  BY DEF Confirmed, IInv, LocalsOK, NoCall, s3vars
<1>2. Accepted' = Accepted
  BY <1>1 DEF Accepted
<1>3. CASE Confirmation(r).kind = "ok"
  <2>1. \A q \in Request : Acknowledged(q)' <=> (Acknowledged(q) \/ q = r)
    <3>1. Confirmation(r) \in Answer /\ Confirmation(r) # None
      BY <1>1, ConfirmationType, FixedAnswers DEF IInv, Confirmed
    <3> QED
      BY <1>1, <1>3, <3>1 DEF Acknowledged, Reply, TypeOK
  <2>2. Acked' = Acked \cup {r}
    BY <2>1 DEF Acked
  <2> QED
    BY <1>1, <1>2, <2>2 DEF Registry!Acknowledge, Accepted, Acked
<1>4. CASE Confirmation(r).kind # "ok"
  BY <1>1, <1>4, ReplyAcknowledges, QuietRegistry
<1> QED
  BY <1>3, <1>4

LEMMA OthersUnseen ==
    ASSUME IInv, NEW r \in Request,
           \/ Receive(r) \/ HeadFails(r) \/ CallFails(r) \/ CallRefused(r)
           \/ Stream(r) \/ StreamFails(r) \/ Retry(r) \/ Crash(r)
    PROVE  UNCHANGED regview
<1>1. /\ UNCHANGED <<objects, call, applied, birth>>
      /\ \A q \in Request : call[q] # None => input'[q] = input[q]
  <2>1. CASE Receive(r)
    BY <2>1 DEF Receive, NoCall, s3vars, IInv, LocalsOK, TypeOK
  <2>2. CASE \/ HeadFails(r) \/ CallFails(r) \/ CallRefused(r)
             \/ Stream(r) \/ StreamFails(r) \/ Retry(r) \/ Crash(r)
    BY <2>2 DEF HeadFails, CallFails, CallRefused, Stream, StreamFails, Retry, Crash,
                NoCall, s3vars, Send, Refuse
  <2> QED
    BY <2>1, <2>2
<1>2. \A q \in Request : Acknowledged(q)' <=> Acknowledged(q)
  <2>1. CASE Receive(r) \/ HeadFails(r) \/ Stream(r) \/ StreamFails(r)
    <3>1. call[r] = None
      BY <2>1 DEF Receive, HeadFails, Stream, StreamFails, IInv, LocalsOK
    <3>2. (\E a : Reply(r, a)) \/ UNCHANGED answer
      BY <2>1 DEF Receive, Goto, HeadFails, Stream, StreamFails
    <3> QED
      BY <1>1, <3>1, <3>2, ReplyAcknowledges DEF IInv, Acknowledged
  <2>2. CASE CallFails(r) \/ CallRefused(r)
    <3>1. answer[r] = None
      BY <2>2 DEF CallFails, CallRefused, IInv, LocalsOK
    <3>2. Reply(r, StorageFailed) \/ Reply(r, Unhandled)
      BY <2>2 DEF CallFails, CallRefused
    <3>3. StorageFailed.kind # "ok" /\ Unhandled.kind # "ok"
      BY DEF StorageFailed, Unhandled, Detail
    <3> QED
      BY <1>1, <3>1, <3>2, <3>3, ReplyAcknowledges DEF IInv
  <2>3. CASE Retry(r) \/ Crash(r)
    BY <2>3 DEF Retry, Crash, Acknowledged
  <2> QED
    BY <2>1, <2>2, <2>3
<1> QED
  BY <1>1, <1>2, QuietRegistry

LEMMA StepImplementsRegistry ==
    ASSUME IInv, IInv', [Next]_vars
    PROVE  [Registry!RegNext]_(Registry!regvars)
<1>1. UNCHANGED regview => UNCHANGED Registry!regvars
  BY DEF regview, Registry!regvars, Accepted, Acked
<1>2. CASE \E r \in Request :
             Create(r) \/ Head(r) \/ Update(r) \/ Deliver(r) \/ Confirmed(r)
  <2>1. \/ \E r \in Request : \/ Registry!Register(r) \/ Registry!Replace(r)
                              \/ Registry!Effect(r) \/ Registry!Acknowledge(r)
        \/ UNCHANGED regview
    BY <1>2, CreateRegisters, HeadReplaces, UpdateReplaces, DeliverEffects,
       ConfirmedAcknowledges
  <2> QED
    BY <1>1, <2>1 DEF Registry!RegNext
<1>3. CASE \E r \in Request :
             \/ Receive(r) \/ HeadFails(r) \/ CallFails(r) \/ CallRefused(r)
             \/ Stream(r) \/ StreamFails(r) \/ Retry(r) \/ Crash(r)
  BY <1>1, <1>3, OthersUnseen
<1>4. CASE Tick \/ UNCHANGED vars
  <2>1. UNCHANGED <<objects, call, applied, birth, input, answer>>
    BY <1>4 DEF Tick, vars, locals, s3vars
  <2>2. \A q \in Request : Acknowledged(q)' <=> Acknowledged(q)
    BY <2>1 DEF Acknowledged
  <2> QED
    BY <1>1, <2>1, <2>2, QuietRegistry
<1> QED
  BY <1>2, <1>3, <1>4 DEF Next, Handle, Done

\* The drawings service implements the registry of drawings.
THEOREM ServiceImplementsRegistry == Spec => RegistryImplemented
<1>1. Init => Registry!RegInit
  BY InitRegistry
<1>2. IInv /\ IInv' /\ [Next]_vars => [Registry!RegNext]_(Registry!regvars)
  BY StepImplementsRegistry
<1> QED
  BY <1>1, <1>2, Inductive, PTL DEF Spec, RegistryImplemented, Registry!RegSpec
===============================================================================
