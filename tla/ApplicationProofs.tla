--------------------------- MODULE ApplicationProofs ---------------------------
(***************************************************************************)
(* Proofs about Application for every set of requests and environments.    *)
(* The inductive invariant says how far the set-up of a serving process    *)
(* has come (SetUpOK), what a request can have met at the layer where it   *)
(* is (RequestOK), that its answer is right (AnswerOK), and that all       *)
(* providers are there while requests are served, and whatever telemetry   *)
(* is pending has one that is still to be shut down (TelemetryOK).         *)
(***************************************************************************)
EXTENDS Application, TLAPS

\* The layers, once they are added.
Order == <<"cors", "body_size">>

\* How far the set-up has come.
SetUpOK ==
    /\ layers \in {<<>>, Order}
    /\ stage \in {"middlewares", "routes", "instrumented", "serving", "closing", "stopped"}
          => layers = Order
    /\ stage \in {"handlers", "middlewares", "routes", "instrumented", "serving"}
          => handlers = Documented
    /\ stage = "serving" => session
    /\ stage # "serving" => request = None
    /\ request = None => answer = None

\* Only behind all layers has a request met anything, and none that declares
\* too large a body gets there.
RequestOK ==
    request # None =>
        /\ request \in Requests
        /\ layer \in 0..2
        /\ layer < 2 => ~body /\ endpoint = None /\ bucket = None
        /\ layer = 2 => request.declared # "large"
        /\ answer = None => bucket = None

\* Every answer is one a client can make sense of.
AnswerOK == ReadableAcrossOrigins /\ PlainOnlyFromWrites /\ SyntheticzHonest

\* The providers that the rest of the shutdown will reach.
ToShutDown ==
    CASE closing = <<"trace", "log", "metric">> -> Signal
      [] closing = <<"log", "metric">> -> {"log", "metric"}
      [] closing = <<"metric">> -> {"metric"}
      [] OTHER -> {}

\* What is pending has a provider, and each provider is still to be shut down
\* or belongs to a shutdown that was broken off.
TelemetryOK ==
    /\ OtelTypeOK
    /\ stage = "started" => pending = {}
    /\ stage \notin {"started", "closing", "stopped"} => providers = Providers
    /\ pending \subseteq providers
    /\ closing \in {<<>>, <<"metric">>, <<"log", "metric">>, <<"trace", "log", "metric">>}
    /\ stage \in {"closing", "stopped"} => providers \subseteq ToShutDown
    /\ Setting("otel_sdk_disabled") => exporting = {}
    /\ DisabledIsSilent

\* The inductive invariant.
AInv == SetUpOK /\ RequestOK /\ AnswerOK /\ TelemetryOK

-------------------------------------------------------------------------------
(* The set-up.                                                             *)

\* A process starts with nothing set up and no request.
LEMMA InitAInv == Init => AInv
BY EnvironmentAssumption
   DEF Init, OtelInit, AInv, SetUpOK, RequestOK, AnswerOK, ReadableAcrossOrigins,
       PlainOnlyFromWrites, SyntheticzHonest, TelemetryOK, OtelTypeOK, DisabledIsSilent

\* The set-up has its order and takes no request.
LEMMA SetupSetUp ==
    ASSUME AInv, SetupNext
    PROVE  SetUpOK' /\ UNCHANGED <<requestvars, env>> /\ request = None
BY DEF SetupNext, ImportOtel, ConfigureLogging, CreateApp, RegisterHandlers, AddMiddlewares,
       IncludeRouters, Instrument, Startup, SetupStep, requestvars, appvars, otelvars, SetUp,
       AddHandler, InstrumentLibraries, Record, AInv, SetUpOK, Order

\* What the settings say is settled when the process starts.
LEMMA SameSettings ==
    ASSUME env' = env, NEW field
    PROVE  Setting(field)' = Setting(field)
BY DEF Setting

\* So are the providers that are set up.
LEMMA SameProviders ==
    ASSUME env' = env
    PROVE  /\ Setting("otel_sdk_disabled")' = Setting("otel_sdk_disabled")
           /\ Providers' = Providers
<1>1. \A field : Setting(field)' = Setting(field)
  BY SameSettings
<1> QED
  BY <1>1 DEF Providers, MetricsEnabled

\* Whatever is recorded becomes pending with a provider that is there, and
\* nothing does where the SDK is disabled.
LEMMA Recording ==
    ASSUME AInv, NEW signals \in SUBSET Signal, Record(signals)
    PROVE  /\ UNCHANGED <<env, exporters, providers, exporting, handler, instrumented>>
           /\ OtelTypeOK' /\ pending' \subseteq providers' /\ DisabledIsSilent'
<1>1. UNCHANGED <<env, exporters, providers, exporting, handler, instrumented>>
  BY DEF Record
<1>2. /\ pending' = pending \cup ((signals \cap exporting) \cap providers)
      /\ lost' \subseteq lost \cup pending \cup (signals \cap exporting)
  BY DEF Record
<1>3. Setting("otel_sdk_disabled")' = Setting("otel_sdk_disabled")
  BY <1>1, SameProviders
<1>4. OtelTypeOK' /\ pending' \subseteq providers'
  BY <1>1, <1>2 DEF AInv, TelemetryOK, OtelTypeOK
<1>5. DisabledIsSilent'
  BY <1>1, <1>2, <1>3 DEF AInv, TelemetryOK, DisabledIsSilent
<1> QED
  BY <1>1, <1>4, <1>5

\* The providers come with the set-up, before anything is recorded.
LEMMA SetupTelemetry ==
    ASSUME AInv, SetupNext
    PROVE  TelemetryOK'
<1> USE DEF AInv, TelemetryOK
<1>1. env' = env /\ UNCHANGED closing /\ stage' \notin {"started", "closing", "stopped"}
  BY DEF SetupNext, ImportOtel, ConfigureLogging, CreateApp, RegisterHandlers, AddMiddlewares,
         IncludeRouters, Instrument, Startup, SetupStep, otelvars, SetUp, AddHandler,
         InstrumentLibraries, Record
<1>2. /\ Setting("otel_sdk_disabled")' = Setting("otel_sdk_disabled")
      /\ Providers' = Providers
  BY <1>1, SameProviders
<1>3. CASE ImportOtel
  BY <1>1, <1>2, <1>3
     DEF ImportOtel, SetUp, SetupStep, Providers, Exporters, MetricsEnabled, Signal, OtelTypeOK,
         DisabledIsSilent
<1>4. CASE ConfigureLogging
  BY <1>1, <1>2, <1>4
     DEF ConfigureLogging, SetupStep, AddHandler, HandlerAvailable, otelvars, OtelTypeOK,
         DisabledIsSilent
<1>5. CASE Instrument
  BY <1>1, <1>2, <1>5
     DEF Instrument, SetupStep, InstrumentLibraries, Libraries, OtelTypeOK, DisabledIsSilent
<1>6. CASE Startup
  <2>1. Record(Logged) /\ Logged \in SUBSET Signal /\ stage = "instrumented"
    BY <1>6 DEF Startup, SetupStep, Logged, Signal
  <2>2. /\ UNCHANGED <<exporters, providers, exporting, handler, instrumented>>
        /\ OtelTypeOK' /\ pending' \subseteq providers' /\ DisabledIsSilent'
    BY <2>1, Recording
  <2> QED
    BY <1>1, <1>2, <2>1, <2>2
<1>7. CASE CreateApp \/ RegisterHandlers \/ AddMiddlewares \/ IncludeRouters
  <2>1. UNCHANGED otelvars /\ stage \notin {"started", "closing", "stopped"}
    BY <1>7 DEF CreateApp, RegisterHandlers, AddMiddlewares, IncludeRouters, SetupStep
  <2> QED
    BY <1>1, <1>2, <2>1 DEF otelvars, OtelTypeOK, DisabledIsSilent
<1> QED
  BY <1>3, <1>4, <1>5, <1>6, <1>7 DEF SetupNext

\* Nothing of the set-up is about a request.
LEMMA SetupAInv == AInv /\ SetupNext => AInv'
<1> SUFFICES ASSUME AInv, SetupNext
             PROVE  AInv'
  OBVIOUS
<1>1. SetUpOK' /\ TelemetryOK' /\ UNCHANGED requestvars /\ request = None /\ answer = None
  BY SetupSetUp, SetupTelemetry DEF AInv, SetUpOK
<1> QED
  BY <1>1 DEF AInv, RequestOK, AnswerOK, ReadableAcrossOrigins, PlainOnlyFromWrites,
              SyntheticzHonest, requestvars

-------------------------------------------------------------------------------
(* A request.                                                              *)

\* A step of a request leaves the process as it is.
LEMMA KeptProcess ==
    ASSUME AInv, KeepProcess, stage = "serving", request' # None
    PROVE  SetUpOK' /\ TelemetryOK'
<1>1. SetUpOK'
  BY DEF AInv, SetUpOK, KeepProcess
<1>2. Setting("otel_sdk_disabled")' = Setting("otel_sdk_disabled") /\ Providers' = Providers
  BY SameProviders DEF KeepProcess, otelvars
<1>3. ToShutDown' = ToShutDown
  BY DEF KeepProcess, ToShutDown
<1> QED
  BY <1>1, <1>2, <1>3
     DEF AInv, KeepProcess, TelemetryOK, OtelTypeOK, DisabledIsSilent, otelvars

\* What is answered from inside the layers can be read across origins.
LEMMA Answered ==
    ASSUME AInv, Serving, UNCHANGED request,
           NEW status \in Nat,
           NEW kind \in {"ok", "preflight", "detail", "validation", "aborted", "up", "down"},
           Answer(status, kind)
    PROVE  /\ answer' # None
           /\ answer'.status = status /\ answer'.kind = kind
           /\ ReadableAcrossOrigins'
           /\ kind # "aborted" => PlainOnlyFromWrites'
<1> DEFINE cors == Entered("cors") /\ Allowed(request.origin)
<1>1. layers = Order /\ layer \in 0..2
  BY DEF AInv, SetUpOK, RequestOK, Serving
<1>2. Entered("cors")
  <2>1. 1 \in DOMAIN layers /\ layers[1] = "cors"
    BY <1>1 DEF Order
  <2>2. 1 <= layer + 1
    BY <1>1
  <2> QED
    BY <2>1, <2>2 DEF Entered
<1>3. answer' = [status |-> status, kind |-> kind, cors |-> cors]
  BY DEF Answer
<1>4. cors \in BOOLEAN
  OBVIOUS
<1> HIDE DEF cors
<1>5. answer' \in Reply /\ answer'.status = status /\ answer'.kind = kind /\ answer'.cors = cors
  BY <1>3, <1>4 DEF Reply
<1>6. answer' # None
  BY <1>5, RequestAssumption
<1>7. request.origin = "allowed" => cors
  BY <1>2 DEF cors, Allowed
<1> QED
  BY <1>5, <1>6, <1>7 DEF ReadableAcrossOrigins, PlainOnlyFromWrites

\* A request arrives at the outermost layer.
LEMMA ArriveAInv ==
    ASSUME AInv, NEW r \in Requests, Arrive(r)
    PROVE  AInv'
<1>1. request' = r /\ request' # None /\ answer' = None
  BY RequestAssumption DEF Arrive, AInv, SetUpOK
<1>2. SetUpOK' /\ TelemetryOK'
  BY <1>1, KeptProcess DEF Arrive
<1> QED
  BY <1>1, <1>2
     DEF Arrive, AInv, RequestOK, AnswerOK, ReadableAcrossOrigins, PlainOnlyFromWrites,
         SyntheticzHonest

\* An answer is given, and S3 has not been asked for it.
LEMMA AnsweredAInv ==
    ASSUME AInv, Serving, KeepProcess, UNCHANGED <<request, layer, bucket>>,
           layer < 2 => UNCHANGED <<endpoint, body>>,
           NEW status \in Nat,
           NEW kind \in {"ok", "preflight", "detail", "validation", "up", "down"},
           Answer(status, kind)
    PROVE  AInv'
<1>1. answer' # None /\ ReadableAcrossOrigins' /\ PlainOnlyFromWrites'
  BY Answered
<1>2. SetUpOK' /\ TelemetryOK'
  BY KeptProcess DEF Serving
<1>3. bucket = None
  BY DEF AInv, RequestOK, Serving
<1> QED
  BY <1>1, <1>2, <1>3 DEF AInv, RequestOK, AnswerOK, SyntheticzHonest

\* A layer answers or hands on; the body size layer hands nothing too large on.
LEMMA LayerAInv ==
    ASSUME AInv, Cors \/ BodySize
    PROVE  AInv'
<1>1. /\ Serving /\ KeepProcess /\ UNCHANGED <<request, endpoint, body, bucket>>
  BY DEF Cors, BodySize, At, LayerStep
<1>2. layers = Order /\ Len(Order) = 2 /\ Order[1] = "cors" /\ Order[2] = "body_size"
  BY <1>1 DEF AInv, SetUpOK, Serving, Order
<1>3. layer \in {0, 1} /\ (layer = 1 => ~Cors)
  <2>1. layer \in 0..2
    BY <1>1 DEF AInv, RequestOK, Serving
  <2> QED
    BY <1>2, <2>1 DEF Cors, BodySize, At
<1>4. CASE Cors /\ request.preflight
  <2>1. PICK status \in {200, 400} : Answer(status, "preflight") /\ UNCHANGED layer
    BY <1>4 DEF Cors, LayerStep
  <2> QED
    BY <1>1, <1>3, <2>1, AnsweredAInv
<1>5. CASE BodySize /\ request.declared = "large"
  <2>1. Answer(413, "detail") /\ UNCHANGED layer
    BY <1>5 DEF BodySize, LayerStep
  <2> QED
    BY <1>1, <1>3, <2>1, AnsweredAInv
<1>6. CASE (Cors /\ ~request.preflight) \/ (BodySize /\ request.declared # "large")
  <2>1. layer' = layer + 1 /\ answer' = answer
    BY <1>6 DEF Cors, BodySize, LayerStep
  <2>2. layer' = 2 => request.declared # "large"
    BY <1>3, <1>6, <2>1
  <2>3. SetUpOK' /\ TelemetryOK'
    BY <1>1, KeptProcess DEF Serving
  <2> QED
    BY <1>1, <1>3, <2>1, <2>2, <2>3
       DEF AInv, RequestOK, AnswerOK, ReadableAcrossOrigins, PlainOnlyFromWrites,
           SyntheticzHonest, Serving
<1> QED
  BY <1>4, <1>5, <1>6

\* Routing answers what no route takes, and hands the rest on.
LEMMA RouteAInv ==
    ASSUME AInv, RouteRequest
    PROVE  AInv'
<1>1. /\ Serving /\ KeepProcess /\ UNCHANGED <<request, layer, bucket>>
      /\ layer = 2
  BY DEF RouteRequest, Inside, AInv, SetUpOK, RequestOK, Order, Serving
<1>2. CASE Reached = None
  <2>1. PICK status \in {404, 405} : Answer(status, "detail")
    BY <1>2 DEF RouteRequest
  <2> QED
    BY <1>1, <2>1, AnsweredAInv
<1>3. CASE Reached # None
  <2>1. answer' = answer
    BY <1>3 DEF RouteRequest
  <2>2. SetUpOK' /\ TelemetryOK'
    BY <1>1, KeptProcess DEF Serving
  <2> QED
    BY <1>1, <2>1, <2>2
       DEF AInv, RequestOK, AnswerOK, ReadableAcrossOrigins, PlainOnlyFromWrites,
           SyntheticzHonest, Serving
<1> QED
  BY <1>2, <1>3

\* Inside all layers.
LEMMA EndpointAt ==
    ASSUME AInv, NEW endpoints, EndpointStep(endpoints)
    PROVE  /\ Serving /\ KeepProcess /\ UNCHANGED <<request, layer, endpoint, body>>
           /\ layer = 2 /\ endpoint \in endpoints
           /\ session /\ handlers = Documented
BY DEF EndpointStep, Inside, AInv, SetUpOK, RequestOK, Order, Serving

\* A documented exception becomes an error body; one without a handler may come
\* from an admitted write only.
LEMMA RaiseAInv ==
    ASSUME AInv, NEW endpoints, EndpointStep(endpoints), UNCHANGED bucket,
           NEW exception \in Exception, Raise(exception),
           exception \notin Documented => AdmittedWrite
    PROVE  AInv'
<1>1. /\ Serving /\ KeepProcess /\ UNCHANGED <<request, layer, endpoint, body>>
      /\ layer = 2 /\ handlers = Documented
  BY EndpointAt
<1>2. CASE exception \in Documented
  <2>1. PICK status \in {400, 401, 403, 404, 500} : Answer(status, "detail")
    BY <1>1, <1>2 DEF Raise, Documented
  <2> QED
    BY <1>1, <2>1, AnsweredAInv
<1>3. CASE exception \notin Documented
  <2>1. answer' = [status |-> 500, kind |-> "plain", cors |-> FALSE]
    BY <1>1, <1>3 DEF Raise, PlainError
  <2>2. answer' \in Reply /\ answer'.kind = "plain"
    BY <2>1 DEF Reply
  <2>3. answer' # None
    BY <2>2, RequestAssumption
  <2>4. SetUpOK' /\ TelemetryOK'
    BY <1>1, KeptProcess DEF Serving
  <2>5. AdmittedWrite'
    BY <1>1, <1>3 DEF AdmittedWrite, ReadsBody, NeedsAdmin
  <2>6. bucket' = None
    BY <1>1 DEF AInv, RequestOK, Serving
  <2> QED
    BY <1>1, <2>2, <2>3, <2>4, <2>5, <2>6
       DEF AInv, RequestOK, AnswerOK, ReadableAcrossOrigins, PlainOnlyFromWrites,
           SyntheticzHonest
<1> QED
  BY <1>2, <1>3

\* A download breaks off behind its status and its CORS headers.
LEMMA BreakOffAInv ==
    ASSUME AInv, NEW endpoints, EndpointStep(endpoints), UNCHANGED bucket, BreakOff
    PROVE  AInv'
<1>1. /\ Serving /\ KeepProcess /\ UNCHANGED <<request, layer, endpoint, body>>
      /\ layer = 2
  BY EndpointAt
<1>2. endpoint = "get_drawing"
  BY DEF BreakOff, Calls
<1>3. Success(endpoint) \in Nat /\ Answer(Success(endpoint), "aborted")
  BY DEF BreakOff, Success
<1>4. answer' # None /\ answer'.kind = "aborted" /\ ReadableAcrossOrigins'
  BY <1>1, <1>3, Answered
<1>5. SetUpOK' /\ TelemetryOK'
  BY <1>1, KeptProcess DEF Serving
<1>6. bucket' = None
  BY <1>1 DEF AInv, RequestOK, Serving
<1> QED
  BY <1>1, <1>2, <1>4, <1>5, <1>6
     DEF AInv, RequestOK, AnswerOK, PlainOnlyFromWrites, SyntheticzHonest

\* What may be raised without a handler, S3's refusal of a mutating call or by
\* an update, is raised by endpoints that write.
LEMMA RaisesIs ==
    ASSUME NEW e, NEW exception \in Raises(e)
    PROVE  /\ exception \in Exception
           /\ exception \notin Documented => e \in ReadsBody \cup {"delete_drawing"}
<1>1. CASE \E call \in Calls(e) \ {"get_object"} : exception \in S3Raises(call)
  <2>1. PICK call \in Calls(e) \ {"get_object"} : exception \in S3Raises(call)
    BY <1>1
  <2>2. exception \in {"S3Error", "DrawingNotFoundError", "ClientError"}
    BY <2>1 DEF S3Raises
  <2>3. exception \notin Documented => call \notin {"head_object", "get_object"}
    BY <2>1 DEF S3Raises, Documented
  <2>4. call \notin {"head_object", "get_object"} => e \in ReadsBody \cup {"delete_drawing"}
    BY <2>1 DEF Calls
  <2> QED
    BY <2>2, <2>3, <2>4 DEF Exception, Documented, Undocumented
<1>2. CASE exception \in {"InvalidKMZError", "DigestMismatchError", "AdminIdMismatchError"}
  BY <1>2 DEF Exception, Documented
<1>3. CASE exception \in {"KeyError", "ValueError"} /\ e = "update_drawing"
  BY <1>3 DEF Exception, Undocumented, ReadsBody
<1> DEFINE U == UNION {S3Raises(call) : call \in Calls(e) \ {"get_object"}}
           A == IF e \in ReadsBody THEN {"InvalidKMZError", "DigestMismatchError"} ELSE {}
           B == IF e \in NeedsAdmin THEN {"AdminIdMismatchError"} ELSE {}
           C == IF e = "update_drawing" THEN {"KeyError", "ValueError"} ELSE {}
<1>4. exception \in U \cup A \cup B \cup C
  BY Zenon DEF Raises
<1>5. exception \in U => \E call \in Calls(e) \ {"get_object"} : exception \in S3Raises(call)
  BY Zenon
<1> HIDE DEF U
<1> QED
  BY <1>1, <1>2, <1>3, <1>4, <1>5

\* A drawings endpoint succeeds, raises what it can raise, or breaks off.
LEMMA DrawingsAInv ==
    ASSUME AInv, Drawings
    PROVE  AInv'
<1>1. EndpointStep(WpsEndpoints) /\ UNCHANGED bucket /\ ~NoCredentials /\ ~Malformed
  BY DEF Drawings
<1>2. /\ Serving /\ KeepProcess /\ UNCHANGED <<request, layer, endpoint, body>>
      /\ layer = 2 /\ session
  BY <1>1, EndpointAt
<1>3. CASE Answer(Success(endpoint), "ok")
  <2>1. Success(endpoint) \in Nat
    BY DEF Success
  <2> QED
    BY <1>1, <1>2, <1>3, <2>1, AnsweredAInv
<1>4. CASE \E exception \in Raises(endpoint) : Raise(exception)
  <2>1. PICK exception \in Raises(endpoint) : Raise(exception)
    BY <1>4
  <2>2. /\ exception \in Exception
        /\ exception \notin Documented => endpoint \in ReadsBody \cup {"delete_drawing"}
    BY <2>1, RaisesIs
  <2>3. /\ endpoint \in ReadsBody => request.form
        /\ endpoint \in NeedsAdmin => request.admin
    BY <1>1 DEF NoCredentials, Malformed
  <2>4. request.declared # "large"
    BY <1>2 DEF AInv, RequestOK, Serving
  <2> QED
    BY <1>1, <2>1, <2>2, <2>3, <2>4, RaiseAInv DEF AdmittedWrite
<1>5. CASE BreakOff
  BY <1>1, <1>5, BreakOffAInv
<1> QED
  BY <1>2, <1>3, <1>4, <1>5 DEF Drawings

\* The synthetic check answers as S3 did.
LEMMA SyntheticzAInv ==
    ASSUME AInv, Syntheticz
    PROVE  AInv'
<1>1. EndpointStep({"get_syntheticz"})
  BY DEF Syntheticz
<1>2. /\ Serving /\ KeepProcess /\ UNCHANGED <<request, layer, endpoint, body>>
      /\ layer = 2 /\ session
  BY <1>1, EndpointAt
<1>3. PICK head \in HeadBucket :
        /\ bucket' = head
        /\ Answer(IF Up(head) THEN 200 ELSE 500, IF Up(head) THEN "up" ELSE "down")
  BY <1>2 DEF Syntheticz
<1>4. Up(head) <=> head = "reachable"
  BY DEF Up, CheckBucket, HeadBucket
<1>5. PICK status \in {200, 500}, kind \in {"up", "down"} :
        /\ Answer(status, kind)
        /\ status = 200 <=> head = "reachable"
        /\ kind = "up" <=> head = "reachable"
  BY <1>3, <1>4
<1>6. /\ answer' # None /\ answer'.status = status /\ answer'.kind = kind
      /\ ReadableAcrossOrigins' /\ PlainOnlyFromWrites'
  BY <1>2, <1>5, Answered
<1>7. SetUpOK' /\ TelemetryOK'
  BY <1>2, KeptProcess DEF Serving
<1> QED
  BY <1>2, <1>3, <1>5, <1>6, <1>7 DEF AInv, RequestOK, AnswerOK, SyntheticzHonest

\* The other answers of the endpoints, and of what FastAPI runs before them.
LEMMA EndpointsAInv ==
    ASSUME AInv,
           RequireCredentials \/ RejectParameters \/ Checker
             \/ ServeSpec("public") \/ ServeSpec("internal")
    PROVE  AInv'
<1>1. CASE RequireCredentials
  <2>1. EndpointStep(NeedsAdmin) /\ UNCHANGED bucket /\ Raise("MissingCredentialsError")
    BY <1>1 DEF RequireCredentials
  <2> QED
    BY <2>1, RaiseAInv DEF Exception, Documented
<1>2. CASE RejectParameters \/ Checker \/ ServeSpec("public") \/ ServeSpec("internal")
  <2>1. PICK status \in {200, 422}, kind \in {"ok", "validation"} : Answer(status, kind)
    BY <1>2 DEF RejectParameters, Checker, ServeSpec
  <2>2. /\ Serving /\ KeepProcess
        /\ UNCHANGED <<request, layer, endpoint, body, bucket>>
    BY <1>2 DEF RejectParameters, Checker, ServeSpec, EndpointStep, Inside
  <2> QED
    BY <2>1, <2>2, AnsweredAInv
<1> QED
  BY <1>1, <1>2

\* When the answer is out, the request is recorded, with providers that are
\* there.
LEMMA LeaveAInv ==
    ASSUME AInv, Leave
    PROVE  AInv'
<1>1. PICK signals \in SUBSET Signal : Record(signals)
  BY DEF Leave, Recorded, Instrumented, Logged, Signal
<1>2. /\ UNCHANGED <<env, exporters, providers, exporting, handler, instrumented>>
      /\ OtelTypeOK' /\ pending' \subseteq providers' /\ DisabledIsSilent'
  BY <1>1, Recording
<1>3. Setting("otel_sdk_disabled")' = Setting("otel_sdk_disabled") /\ Providers' = Providers
  BY <1>2, SameProviders
<1>4. TelemetryOK'
  BY <1>2, <1>3 DEF AInv, TelemetryOK, Leave
<1>5. SetUpOK' /\ request' = None /\ answer' = None
  BY DEF AInv, SetUpOK, Leave, appvars
<1> QED
  BY <1>4, <1>5
     DEF AInv, RequestOK, AnswerOK, ReadableAcrossOrigins, PlainOnlyFromWrites, SyntheticzHonest

\* Every step of a request keeps the invariant.
LEMMA RequestAInv == AInv /\ RequestNext => AInv'
BY ArriveAInv, LayerAInv, RouteAInv, DrawingsAInv, SyntheticzAInv, EndpointsAInv, LeaveAInv
   DEF RequestNext

-------------------------------------------------------------------------------
(* The end.                                                                *)

\* Steps that concern the telemetry only.
LEMMA OtherSteps ==
    ASSUME AInv, UNCHANGED <<appvars, requestvars>>,
           stage' = stage \/ (stage' = "closing" /\ stage = "serving" /\ request = None)
             \/ (stage' = "stopped" /\ stage = "closing"),
           TelemetryOK'
    PROVE  AInv'
<1>1. SetUpOK'
  BY DEF AInv, SetUpOK, appvars, requestvars
<1> QED
  BY <1>1 DEF AInv, RequestOK, AnswerOK, ReadableAcrossOrigins, PlainOnlyFromWrites,
              AdmittedWrite, SyntheticzHonest, appvars, requestvars

\* When the shutdown begins, all providers are still ahead of it.
LEMMA StopServingAInv ==
    ASSUME AInv, StopServing
    PROVE  AInv'
<1>1. Setting("otel_sdk_disabled")' = Setting("otel_sdk_disabled")
  BY SameProviders DEF StopServing, otelvars
<1>2. closing' = <<"trace", "log", "metric">>
  BY DEF StopServing, ShutdownOrder
<1>3. ToShutDown' = Signal
  BY <1>2 DEF ToShutDown
<1>4. TelemetryOK'
  BY <1>1, <1>2, <1>3
     DEF AInv, TelemetryOK, OtelTypeOK, DisabledIsSilent, StopServing, otelvars
<1> QED
  BY <1>4, OtherSteps DEF StopServing

\* The provider that is shut down is the one that ToShutDown loses; a shutdown
\* that raises leaves it and the others there.
LEMMA ShutdownProviderAInv ==
    ASSUME AInv, ShutdownProvider
    PROVE  AInv'
<1>1. Setting("otel_sdk_disabled")' = Setting("otel_sdk_disabled")
  BY SameProviders DEF ShutdownProvider, ShutDown, ShutdownRaises, otelvars
<1>2. closing \in {<<"metric">>, <<"log", "metric">>, <<"trace", "log", "metric">>}
  BY DEF AInv, TelemetryOK, ShutdownProvider
<1>3. CASE ShutDown(Head(closing)) /\ closing' = Tail(closing) /\ UNCHANGED stage
  <2>1. /\ Head(closing) \in Signal
        /\ closing' \in {<<>>, <<"metric">>, <<"log", "metric">>}
        /\ ToShutDown \ {Head(closing)} \subseteq ToShutDown'
    <3>1. CASE closing = <<"metric">>
      <4>1. Head(closing) = "metric" /\ closing' = <<>>
        BY <1>3, <3>1
      <4>2. ToShutDown = {"metric"}
        BY <3>1 DEF ToShutDown
      <4> QED
        BY <4>1, <4>2 DEF Signal
    <3>2. CASE closing = <<"log", "metric">>
      <4>1. Head(closing) = "log" /\ closing' = <<"metric">>
        BY <1>3, <3>2
      <4>2. ToShutDown = {"log", "metric"} /\ ToShutDown' = {"metric"}
        BY <3>2, <4>1 DEF ToShutDown
      <4> QED
        BY <4>1, <4>2 DEF Signal
    <3>3. CASE closing = <<"trace", "log", "metric">>
      <4>1. Head(closing) = "trace" /\ closing' = <<"log", "metric">>
        BY <1>3, <3>3
      <4>2. ToShutDown = Signal /\ ToShutDown' = {"log", "metric"}
        BY <3>3, <4>1 DEF ToShutDown
      <4> QED
        BY <4>1, <4>2 DEF Signal
    <3> QED
      BY <1>2, <3>1, <3>2, <3>3
  <2>2. PICK s \in Signal : s = Head(closing) /\ ShutDown(s)
    BY <1>3, <2>1
  <2>3. /\ OtelTypeOK' /\ pending' \subseteq providers' /\ providers' = providers \ {s}
        /\ exporting' = exporting /\ DisabledIsSilent'
    BY <1>1, <2>2 DEF AInv, TelemetryOK, OtelTypeOK, DisabledIsSilent, ShutDown
  <2>4. stage = "closing" /\ stage' = "closing"
    BY <1>3 DEF ShutdownProvider
  <2>5. TelemetryOK'
    BY <1>1, <2>1, <2>2, <2>3, <2>4 DEF AInv, TelemetryOK
  <2> QED
    BY <2>4, <2>5, OtherSteps DEF ShutdownProvider
<1>4. CASE ShutdownRaises(Head(closing)) /\ stage' = "stopped" /\ UNCHANGED closing
  <2>1. stage = "closing" /\ UNCHANGED otelvars
    BY <1>4 DEF ShutdownProvider, ShutdownRaises
  <2>2. ToShutDown' = ToShutDown
    BY <1>4 DEF ToShutDown
  <2>3. TelemetryOK'
    BY <1>1, <1>4, <2>1, <2>2 DEF AInv, TelemetryOK, OtelTypeOK, DisabledIsSilent, otelvars
  <2> QED
    BY <1>4, <2>1, <2>3, OtherSteps DEF ShutdownProvider
<1> QED
  BY <1>3, <1>4 DEF ShutdownProvider

\* The last log message comes after the providers, and is dropped.
LEMMA StoppedAInv ==
    ASSUME AInv, Stopped
    PROVE  AInv'
<1>1. Record(Logged) /\ Logged \in SUBSET Signal
  BY DEF Stopped, Logged, Signal
<1>2. /\ UNCHANGED <<env, exporters, providers, exporting, handler, instrumented>>
      /\ OtelTypeOK' /\ pending' \subseteq providers' /\ DisabledIsSilent'
  BY <1>1, Recording
<1>3. Setting("otel_sdk_disabled")' = Setting("otel_sdk_disabled")
  BY <1>2, SameProviders
<1>4. ToShutDown' = ToShutDown
  BY DEF Stopped, ToShutDown
<1>5. TelemetryOK'
  BY <1>2, <1>3, <1>4 DEF AInv, TelemetryOK, Stopped
<1> QED
  BY <1>5, OtherSteps DEF Stopped

\* A background thread exports, an ended process stays as it is.
LEMMA OtherAInv ==
    ASSUME AInv, BackgroundExport \/ Ended \/ UNCHANGED vars
    PROVE  AInv'
<1>1. env' = env /\ closing' = closing
  BY DEF BackgroundExport, Ended, vars, otelvars, Export
<1>2. /\ Setting("otel_sdk_disabled")' = Setting("otel_sdk_disabled")
      /\ Providers' = Providers /\ ToShutDown' = ToShutDown
  BY <1>1, SameProviders DEF ToShutDown
<1>3. CASE BackgroundExport
  <2>1. PICK s \in Signal : Export(s)
    BY <1>3 DEF BackgroundExport
  <2>2. DisabledIsSilent'
    BY <1>2, <2>1 DEF AInv, TelemetryOK, DisabledIsSilent, Export
  <2>3. TelemetryOK'
    BY <1>2, <1>3, <2>1, <2>2 DEF AInv, TelemetryOK, OtelTypeOK, BackgroundExport, Export
  <2> QED
    BY <1>3, <2>3, OtherSteps DEF BackgroundExport
<1>4. CASE UNCHANGED vars
  <2>1. TelemetryOK'
    BY <1>2, <1>4 DEF AInv, TelemetryOK, OtelTypeOK, DisabledIsSilent, vars, otelvars
  <2> QED
    BY <1>4, <2>1, OtherSteps DEF vars
<1> QED
  BY <1>3, <1>4 DEF Ended

-------------------------------------------------------------------------------

\* Every step keeps the invariant.
LEMMA NextAInv == AInv /\ [Next]_vars => AInv'
BY SetupAInv, RequestAInv, StopServingAInv, ShutdownProviderAInv, StoppedAInv, OtherAInv DEF Next

\* The invariant holds whatever requests come in whatever environment.
THEOREM ApplicationInductive == Spec => []AInv
BY InitAInv, NextAInv, PTL DEF Spec

\* MaxBodySizeMiddleware answers before anything of a request that declares
\* too large a body is read or looked at.
THEOREM OversizedCorrect == Spec => []OversizedUnread
<1>1. AInv => OversizedUnread
  BY DEF AInv, RequestOK, OversizedUnread
<1> QED
  BY ApplicationInductive, <1>1, PTL

\* Web applications of an allowed origin can read every answer but the plain
\* error: add_middleware() put the CORS layer around the body size layer.
THEOREM ReadableCorrect == Spec => []ReadableAcrossOrigins
<1>1. AInv => ReadableAcrossOrigins
  BY DEF AInv, AnswerOK
<1> QED
  BY ApplicationInductive, <1>1, PTL

\* No read and no request that is refused ends in the plain error: whatever
\* S3Service's reads or the metadata make an endpoint raise has its handler, and
\* only a write, an admitted one, may raise something else.
THEOREM PlainCorrect == Spec => []PlainOnlyFromWrites
<1>1. AInv => PlainOnlyFromWrites
  BY DEF AInv, AnswerOK
<1> QED
  BY ApplicationInductive, <1>1, PTL

\* SyntheticzService.check() reports what head_bucket met.
THEOREM SyntheticzCorrect == Spec => []SyntheticzHonest
<1>1. AInv => SyntheticzHonest
  BY DEF AInv, AnswerOK
<1> QED
  BY ApplicationInductive, <1>1, PTL

\* The lifespan shuts providers down when the last request is served and
\* forgets none: what is left at the end belongs to a provider whose shutdown
\* raised or that shutdown_otel() did not get to because of that.
THEOREM ShutdownCorrect == Spec => []NothingStranded
<1>1. AInv => NothingStranded
  <2> SUFFICES ASSUME AInv
               PROVE  NothingStranded
    OBVIOUS
  <2>1. stage = "serving" => providers = Providers
    BY DEF AInv, TelemetryOK
  <2>2. stage = "stopped" => providers \cup pending \subseteq ToShutDown
    BY DEF AInv, TelemetryOK
  <2>3. ToShutDown \subseteq {closing[i] : i \in DOMAIN closing}
    <3>1. CASE closing = <<"trace", "log", "metric">>
      BY <3>1 DEF ToShutDown, Signal
    <3>2. CASE closing = <<"log", "metric">>
      BY <3>2 DEF ToShutDown
    <3>3. CASE closing = <<"metric">>
      BY <3>3 DEF ToShutDown
    <3>4. CASE closing = <<>>
      BY <3>4 DEF ToShutDown
    <3> QED
      BY <3>1, <3>2, <3>3, <3>4 DEF AInv, TelemetryOK
  <2> QED
    BY <2>1, <2>2, <2>3 DEF NothingStranded
<1> QED
  BY ApplicationInductive, <1>1, PTL

\* OTEL_SDK_DISABLED is stronger than every other switch.
THEOREM DisabledCorrect == Spec => []DisabledIsSilent
<1>1. AInv => DisabledIsSilent
  BY DEF AInv, TelemetryOK
<1> QED
  BY ApplicationInductive, <1>1, PTL
===============================================================================
