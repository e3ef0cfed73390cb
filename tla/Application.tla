------------------------------ MODULE Application ------------------------------
(***************************************************************************)
(* One process of service-drawings around its endpoints (app/main.py): the *)
(* set-up at import time, the lifespan, and a request on its way through   *)
(* the middlewares (app/middlewares/body_size.py), the routes, FastAPI's   *)
(* validation, an endpoint and the exception handlers; with the            *)
(* operational endpoints (app/api/internal.py, app/core/                   *)
(* syntheticz_service.py), the OpenAPI specifications (app/openapi.py) and *)
(* the telemetry. What the drawings endpoints do is DrawingsService: here  *)
(* only how they can end matters. Requests are taken one after the other:  *)
(* what they share, the cached specifications, is read and written without *)
(* an await in between.                                                    *)
(***************************************************************************)
EXTENDS Telemetry

CONSTANTS
    Requests,       \* the requests clients send
    None

VARIABLES
    stage,      \* how far the process has come
    routes,     \* the registered routes, in order
    handlers,   \* the exceptions a handler is registered for
    layers,     \* the middlewares, the outermost first
    specs,      \* the cached specifications: the endpoints each lists, or None
    session,    \* app.state.s3_session is there
    request,    \* the request under way, or None
    layer,      \* how many layers it has passed
    endpoint,   \* the endpoint it has reached, or None
    body,       \* whether its body has been read
    bucket,     \* what head_bucket did for it, or None
    answer,     \* its answer, or None
    closing     \* providers still to be shut down

requestvars == <<request, layer, endpoint, body, bucket, answer>>
appvars == <<routes, handlers, layers, specs, session>>
vars == <<otelvars, stage, appvars, requestvars, closing>>

\* Order of the set-up; a process that cannot configure its logging fails.
Stage == {"started", "otel", "logging", "created", "handlers", "middlewares",
          "routes", "instrumented", "serving", "closing", "stopped", "failed"}

\* Paths; "P" is the API prefix, "text" a segment that is no UUID.
Path == {"/openapi.json", "/docs", "/internal/openapi.json", "/internal/docs",
         "/checker", "/checker/ready", "P", "P/openapi.json", "P/syntheticz",
         "P/text", "P/id", "P/id/check-auth", "P/id/metadata", "/other"}

Method == {"GET", "POST", "PUT", "DELETE", "OPTIONS"}

\* declared is the Content-Length header; a body without one comes in chunks.
\* A preflight is an OPTIONS request that asks for a method across origins.
Request == [method : Method, path : Path, origin : {"none", "allowed", "foreign"},
            preflight : BOOLEAN, declared : {"none", "malformed", "small", "large"},
            admin : BOOLEAN, form : BOOLEAN]

\* What travels back: the status, the kind of body, and whether there are
\* CORS headers. An aborted answer is cut off after its headers.
Reply == [status : Nat, cors : BOOLEAN,
          kind : {"ok", "preflight", "detail", "validation", "plain", "aborted", "up", "down"}]

ASSUME RequestAssumption == Requests \subseteq Request /\ None \notin Request \cup Reply

\* What S3 answers to head_bucket; "Exception" is any other exception.
HeadBucket == {"reachable", "BotoCoreError", "ClientError", "Exception"}

\* The exceptions of app/core/exceptions.py, and those of botocore and Python
\* that the endpoints or their dependencies let through.
Documented == {"InvalidKMZError", "DigestMismatchError", "MissingCredentialsError",
               "AdminIdMismatchError", "DrawingNotFoundError", "S3Error"}
Undocumented == {"ClientError", "KeyError", "ValueError", "AttributeError"}
Exception == Documented \cup Undocumented

-------------------------------------------------------------------------------
(* Routes.                                                                 *)

Route(method, path, name) ==
    [method |-> method, path |-> path, endpoint |-> name, listed |-> TRUE, internal |-> FALSE]
Unlisted(path, name) == [Route("GET", path, name) EXCEPT !.listed = FALSE]
Internal(path, name) == [Route("GET", path, name) EXCEPT !.internal = TRUE]

\* FastAPI() adds these first, if it is given an openapi_url (external).
DefaultRoutes ==
    IF Setting("publish_openapi_spec")
    THEN <<Unlisted("/openapi.json", "public_spec"), Unlisted("/docs", "docs")>> ELSE <<>>

\* setup_openapi(); "docs" stands for the Swagger and the ReDoc page.
OpenApiRoutes ==
    IF Setting("publish_openapi_spec")
    THEN <<Unlisted("P/openapi.json", "public_spec"),
           Unlisted("/internal/openapi.json", "internal_spec"),
           Unlisted("/internal/docs", "docs")>> ELSE <<>>

InternalRouter == <<Internal("/checker", "get_checker"), Internal("/checker/ready", "get_checker_ready")>>

PrefixedRouter == <<Internal("P/syntheticz", "get_syntheticz")>>

WpsRouter ==
    <<Route("POST", "P", "create_drawing"),
      Route("GET", "P/{drawing_id}", "get_drawing"),
      Route("PUT", "P/{drawing_id}", "update_drawing"),
      Route("GET", "P/id/check-auth", "check_auth"),
      Route("GET", "P/id/metadata", "get_drawing_metadata"),
      Route("DELETE", "P/{drawing_id}", "delete_drawing")>>

\* Paths of one segment below the prefix.
Segment == {"P/id", "P/text", "P/syntheticz", "P/openapi.json"}

\* A path parameter takes any one segment.
Matches(route, path) ==
    \/ route.path = path
    \/ /\ route.path = "P/{drawing_id}"
       /\ path \in Segment

\* The endpoints that a specification built now lists.
Build(kind) ==
    {routes[i].endpoint : i \in {i \in DOMAIN routes :
        routes[i].listed /\ routes[i].internal = (kind = "internal")}}

WpsEndpoints == {WpsRouter[i].endpoint : i \in DOMAIN WpsRouter}

-------------------------------------------------------------------------------
(* Set-up.                                                                 *)

Init ==
    /\ OtelInit
    /\ stage = "started"
    /\ routes = <<>>
    /\ handlers = {}
    /\ layers = <<>>
    /\ specs = [public |-> None, internal |-> None]
    /\ session = FALSE
    /\ request = None
    /\ layer = 0
    /\ endpoint = None
    /\ body = FALSE
    /\ bucket = None
    /\ answer = None
    /\ closing = <<>>

SetupStep(from, to) == stage = from /\ stage' = to /\ UNCHANGED <<requestvars, closing>>

ImportOtel ==
    /\ SetupStep("started", "otel")
    /\ SetUp
    /\ UNCHANGED appvars

\* logging.config.dictConfig(), called by uvicorn or by main.py.
ConfigureLogging ==
    IF env.logHandler /\ ~HandlerAvailable
    THEN /\ SetupStep("otel", "failed")
         /\ UNCHANGED <<otelvars, appvars>>
    ELSE /\ SetupStep("otel", "logging")
         /\ IF env.logHandler THEN AddHandler ELSE UNCHANGED otelvars
         /\ UNCHANGED appvars

BadCreateApp ==
    /\ SetupStep("logging", "created")
    /\ routes' = DefaultRoutes \o OpenApiRoutes
    /\ specs' = [specs EXCEPT !.public = Build("public")]
    /\ UNCHANGED <<otelvars, handlers, layers, session>>

CreateApp ==
    /\ SetupStep("logging", "created")
    /\ routes' = DefaultRoutes \o OpenApiRoutes
    /\ UNCHANGED <<otelvars, handlers, layers, specs, session>>

RegisterHandlers ==
    /\ SetupStep("created", "handlers")
    /\ handlers' = Documented
    /\ UNCHANGED <<otelvars, routes, layers, specs, session>>

BadAddMiddlewares ==
    /\ SetupStep("handlers", "middlewares")
    /\ layers' = <<"body_size", "cors">>
    /\ UNCHANGED <<otelvars, routes, handlers, specs, session>>

\* add_middleware() puts each middleware around the earlier ones.
AddMiddlewares ==
    /\ SetupStep("handlers", "middlewares")
    /\ layers' = <<"cors", "body_size">>
    /\ UNCHANGED <<otelvars, routes, handlers, specs, session>>

BadIncludeRouters ==
    /\ SetupStep("middlewares", "routes")
    /\ routes' = routes \o WpsRouter \o InternalRouter \o PrefixedRouter
    /\ UNCHANGED <<otelvars, handlers, layers, specs, session>>

IncludeRouters ==
    /\ SetupStep("middlewares", "routes")
    /\ routes' = routes \o InternalRouter \o PrefixedRouter \o WpsRouter
    /\ UNCHANGED <<otelvars, handlers, layers, specs, session>>

Instrument ==
    /\ SetupStep("routes", "instrumented")
    /\ InstrumentLibraries
    /\ UNCHANGED appvars

\* lifespan() up to its yield; uvicorn takes no request before.
Startup ==
    /\ SetupStep("instrumented", "serving")
    /\ session' = TRUE
    /\ Record(Logged)
    /\ UNCHANGED <<routes, handlers, layers, specs>>

-------------------------------------------------------------------------------
(* A request.                                                              *)

Serving == stage = "serving" /\ request # None /\ answer = None

\* Where the request is: the next layer, or inside all of them.
At(name) == Serving /\ layer < Len(layers) /\ layers[layer + 1] = name
Inside == Serving /\ layer = Len(layers)

KeepProcess == UNCHANGED <<otelvars, stage, routes, handlers, layers, session, closing>>

Allowed(origin) == origin = "allowed"

\* The answer travels back through the layers it was entered through: the
\* CORS layer adds its headers for the origins it allows.
Entered(name) == \E i \in DOMAIN layers : i <= layer + 1 /\ layers[i] = name

Answer(status, kind) ==
    answer' = [status |-> status, kind |-> kind,
               cors |-> Entered("cors") /\ Allowed(request.origin)]

\* An exception without a handler passes every layer (Starlette, external).
PlainError == answer' = [status |-> 500, kind |-> "plain", cors |-> FALSE]

Arrive(r) ==
    /\ stage = "serving" /\ request = None
    /\ request' = r
    /\ layer' = 0
    /\ endpoint' = None
    /\ body' = FALSE
    /\ bucket' = None
    /\ UNCHANGED <<answer, specs>>
    /\ KeepProcess

\* The step of a layer: it answers, or hands the request on.
LayerStep(answers, status, kind) ==
    /\ IF answers THEN Answer(status, kind) /\ UNCHANGED layer
                  ELSE layer' = layer + 1 /\ UNCHANGED answer
    /\ UNCHANGED <<request, endpoint, body, bucket, specs>>
    /\ KeepProcess

\* CORSMiddleware answers preflights itself (external).
Cors ==
    /\ At("cors")
    /\ LayerStep(request.preflight, IF Allowed(request.origin) THEN 200 ELSE 400, "preflight")

BadBodySize ==
    /\ At("body_size")
    /\ LayerStep(request.declared = "large" /\ request.method = "POST", 413, "detail")

\* MaxBodySizeMiddleware looks at the declared size only; without one, or with
\* one that is no number, the request proceeds.
BodySize ==
    /\ At("body_size")
    /\ LayerStep(request.declared = "large", 413, "detail")

\* The endpoint of the first route that matches path and method.
Reached ==
    LET full == {i \in DOMAIN routes : /\ Matches(routes[i], request.path)
                                       /\ routes[i].method = request.method}
    IN  IF full = {} THEN None
        ELSE routes[CHOOSE i \in full : \A j \in full : i <= j].endpoint

\* The endpoints with a form, and those with get_admin_id().
ReadsBody == {"create_drawing", "update_drawing"}
NeedsAdmin == {"update_drawing", "check_auth", "delete_drawing"}

\* FastAPI reads the form before it looks at anything else (external).
RouteRequest ==
    /\ Inside /\ endpoint = None
    /\ endpoint' = Reached
    /\ body' = (Reached \in ReadsBody)
    /\ IF Reached # None THEN UNCHANGED answer
       ELSE Answer(IF \E i \in DOMAIN routes : Matches(routes[i], request.path)
                   THEN 405 ELSE 404, "detail")
    /\ UNCHANGED <<request, layer, bucket, specs>>
    /\ KeepProcess

\* The answer of an endpoint or of what runs before it.
EndpointStep(endpoints) ==
    /\ Inside /\ endpoint \in endpoints
    /\ UNCHANGED <<request, layer, endpoint, body>>
    /\ KeepProcess

Raise(exception) ==
    IF exception \in handlers
    THEN Answer(CASE exception \in {"InvalidKMZError", "DigestMismatchError"} -> 400
                  [] exception = "MissingCredentialsError" -> 401
                  [] exception = "AdminIdMismatchError" -> 403
                  [] exception = "DrawingNotFoundError" -> 404
                  [] exception = "S3Error" -> 500, "detail")
    ELSE PlainError

\* get_admin_id() is a dependency: it runs before the parameters are checked.
NoCredentials == endpoint \in NeedsAdmin /\ ~request.admin

RequireCredentials ==
    /\ EndpointStep(NeedsAdmin)
    /\ NoCredentials
    /\ Raise("MissingCredentialsError")
    /\ UNCHANGED <<bucket, specs>>

\* FastAPI's validation of the drawing id and the form.
Malformed ==
    \/ endpoint \in ReadsBody /\ ~request.form
    \/ endpoint # "create_drawing" /\ request.path \in Segment \ {"P/id"}

RejectParameters ==
    /\ EndpointStep(WpsEndpoints)
    /\ ~NoCredentials /\ Malformed
    /\ Answer(422, "validation")
    /\ UNCHANGED <<bucket, specs>>

Success(e) ==
    CASE e = "create_drawing" -> 201
      [] e \in {"check_auth", "delete_drawing"} -> 204
      [] OTHER -> 200

\* The calls of S3 that an endpoint may make; get_drawing() makes its second
\* one when the status has been sent.
Calls(e) ==
    (IF e = "create_drawing" THEN {} ELSE {"head_object"})
    \cup (IF e \in ReadsBody THEN {"upload_fileobj"} ELSE {})
    \cup (IF e = "get_drawing" THEN {"get_object"} ELSE {})
    \cup (IF e = "delete_drawing" THEN {"delete_object"} ELSE {})

BadS3Raises(call) ==
    {"S3Error"} \cup (IF call = "get_object" THEN {"DrawingNotFoundError"} ELSE {"ClientError"})

\* What S3Service makes of a failed call: those that read catch ClientError,
\* those that write let it through.
S3Raises(call) ==
    {"S3Error"} \cup (IF call \in {"head_object", "get_object"}
                      THEN {"DrawingNotFoundError"} ELSE {"ClientError"})

\* The exceptions that leave a drawings endpoint before its response starts.
\* An update uses the times of the stored object, which may be missing or
\* unreadable; get_drawing_metadata() turns that into an S3Error.
Raises(e) ==
    (UNION {S3Raises(call) : call \in Calls(e) \ {"get_object"}})
    \cup (IF e \in ReadsBody THEN {"InvalidKMZError", "DigestMismatchError"} ELSE {})
    \cup (IF e \in NeedsAdmin THEN {"AdminIdMismatchError"} ELSE {})
    \cup (IF e = "update_drawing" THEN {"KeyError", "ValueError"} ELSE {})

\* What get_object raises comes too late for any handler.
BreakOff ==
    /\ "get_object" \in Calls(endpoint)
    /\ Answer(Success(endpoint), "aborted")

\* How a drawings endpoint can end; which way it takes is DrawingsService's
\* subject. Without app.state's session get_s3_client() fails.
Drawings ==
    /\ EndpointStep(WpsEndpoints)
    /\ ~NoCredentials /\ ~Malformed
    /\ IF session
       THEN \/ Answer(Success(endpoint), "ok")
            \/ \E exception \in Raises(endpoint) : Raise(exception)
            \/ BreakOff
       ELSE Raise("AttributeError")
    /\ UNCHANGED <<bucket, specs>>

\* get_checker(), get_checker_ready() and the documentation pages.
Checker ==
    /\ EndpointStep({"get_checker", "get_checker_ready", "docs"})
    /\ Answer(200, "ok")
    /\ UNCHANGED <<bucket, specs>>

BadCheckBucket(head) == head # "BotoCoreError"

\* S3Service.check_bucket() catches two kinds of exceptions ...
CheckBucket(head) == head \notin {"BotoCoreError", "ClientError"}

\* ... and SyntheticzService.check() any other one that it raises.
Up(head) == head # "Exception" /\ CheckBucket(head)

Syntheticz ==
    /\ EndpointStep({"get_syntheticz"})
    /\ \E head \in HeadBucket :
         /\ bucket' = head
         /\ IF session
            THEN Answer(IF Up(head) THEN 200 ELSE 500, IF Up(head) THEN "up" ELSE "down")
            ELSE Raise("AttributeError")
    /\ UNCHANGED specs

SpecEndpoint == [public |-> "public_spec", internal |-> "internal_spec"]

\* custom_openapi() and internal_openapi() build theirs at the first request.
ServeSpec(kind) ==
    /\ EndpointStep({SpecEndpoint[kind]})
    /\ specs' = [specs EXCEPT ![kind] = IF @ = None THEN Build(kind) ELSE @]
    /\ Answer(200, "ok")
    /\ UNCHANGED bucket

\* All that reach a drawings endpoint call S3, unless something is refused
\* before: by FastAPI, or by the checks that precede the upload of a create.
CalledS3 ==
    \/ endpoint = "get_syntheticz"
    \/ /\ endpoint \in WpsEndpoints
       /\ answer.status \notin {401, 422}
       /\ ~(endpoint = "create_drawing" /\ answer.status = 400)

\* The answer is out, and what there was to record about the request recorded.
Leave ==
    /\ stage = "serving" /\ answer # None
    /\ request' = None
    /\ answer' = None
    /\ Record(Recorded(CalledS3, endpoint = "get_syntheticz"))
    /\ UNCHANGED <<stage, appvars, layer, endpoint, body, bucket, closing>>

-------------------------------------------------------------------------------
(* The end of the lifespan, and the SDK's background threads.              *)

StopServing ==
    /\ stage = "serving" /\ request = None
    /\ stage' = "closing"
    /\ closing' = ShutdownOrder
    /\ UNCHANGED <<otelvars, appvars, requestvars>>

\* What a shutdown raises ends shutdown_otel() and with it the lifespan: the
\* providers after it are not shut down.
ShutdownProvider ==
    /\ stage = "closing" /\ closing # <<>>
    /\ \/ /\ ShutDown(Head(closing))
          /\ closing' = Tail(closing)
          /\ UNCHANGED stage
       \/ /\ ShutdownRaises(Head(closing))
          /\ stage' = "stopped"
          /\ UNCHANGED closing
    /\ UNCHANGED <<appvars, requestvars>>

Stopped ==
    /\ stage = "closing" /\ closing = <<>>
    /\ stage' = "stopped"
    /\ Record(Logged)
    /\ UNCHANGED <<appvars, requestvars, closing>>

BackgroundExport ==
    /\ stage \in {"serving", "closing"}
    /\ \E s \in Signal : Export(s)
    /\ UNCHANGED <<stage, appvars, requestvars, closing>>

Ended == stage \in {"stopped", "failed"} /\ UNCHANGED vars

SetupNext ==
    \/ ImportOtel \/ ConfigureLogging \/ CreateApp \/ RegisterHandlers
    \/ AddMiddlewares \/ IncludeRouters \/ Instrument \/ Startup

RequestNext ==
    \/ \E r \in Requests : Arrive(r)
    \/ Cors \/ BodySize \/ RouteRequest
    \/ RequireCredentials \/ RejectParameters
    \/ Drawings \/ Checker \/ Syntheticz \/ ServeSpec("public") \/ ServeSpec("internal")
    \/ Leave

Next ==
    \/ SetupNext \/ RequestNext
    \/ StopServing \/ ShutdownProvider \/ Stopped \/ BackgroundExport \/ Ended

Spec == Init /\ [][Next]_vars

-------------------------------------------------------------------------------
(* Properties.                                                             *)

TypeOK ==
    /\ OtelTypeOK
    /\ stage \in Stage
    /\ handlers \subseteq Exception
    /\ layers \in {<<>>, <<"cors", "body_size">>}
    /\ session \in BOOLEAN
    /\ request \in Requests \cup {None}
    /\ layer \in 0..2
    /\ body \in BOOLEAN
    /\ bucket \in HeadBucket \cup {None}
    /\ answer \in Reply \cup {None}
    /\ closing \in {<<>>, <<"metric">>, <<"log", "metric">>, <<"trace", "log", "metric">>}

\* Every fixed URL below the prefix that the drawings routes would also match
\* keeps its own endpoint, with and without published specifications; only
\* one segment that is no such URL is taken for a drawing id.
OwnEndpoint ==
    endpoint # None /\ request # None /\ request.method = "GET" =>
        /\ request.path = "P/syntheticz" => endpoint = "get_syntheticz"
        /\ request.path = "P/openapi.json" /\ Setting("publish_openapi_spec")
              => endpoint = "public_spec"
        /\ request.path \in {"P/id", "P/text"} => endpoint = "get_drawing"

\* body_size.py, "before the body is read": nothing behind the middleware
\* sees a request that declares too large a body, whatever its method and
\* whoever it is for.
OversizedUnread ==
    request # None /\ request.declared = "large" => ~body /\ endpoint = None /\ bucket = None

\* A web application of an allowed origin can read every answer, the refusals
\* of the middlewares, the validation and the exception handlers included:
\* all but the plain error, which is made outside of all layers.
ReadableAcrossOrigins ==
    answer # None /\ request.origin = "allowed" /\ answer.kind # "plain" => answer.cors

\* A write that nothing has refused before it reaches its endpoint.
AdmittedWrite ==
    /\ endpoint \in ReadsBody \cup {"delete_drawing"}
    /\ endpoint \in ReadsBody => request.form
    /\ endpoint \in NeedsAdmin => request.admin
    /\ request.declared # "large"

\* An exception without a handler comes from an admitted write only (an upload
\* or a delete that S3 refuses, an update of an object whose times are
\* unusable): no request without credentials, with a bad form or too large a
\* body can cause one, and no read. Whatever else fails has the documented
\* body, but for a download that has begun: it is cut off.
PlainOnlyFromWrites ==
    answer # None =>
        /\ answer.kind = "plain" => AdmittedWrite
        /\ answer.kind = "aborted" => endpoint = "get_drawing"

\* README.md, "public spec (drawings API only)" and "internal spec (health
\* routes only)": once built, a specification lists all of its operations and
\* no other, whichever URL it was first asked for under.
SpecsAsDocumented ==
    /\ specs.public \in {None, WpsEndpoints}
    /\ specs.internal \in {None, {"get_checker", "get_checker_ready", "get_syntheticz"}}

\* The synthetic check answers 200 and UP exactly if S3 could be reached, in
\* whatever way the check fails.
SyntheticzHonest ==
    answer # None /\ bucket # None =>
        /\ (answer.status = 200) <=> (bucket = "reachable")
        /\ (answer.kind = "up") <=> (answer.status = 200)

\* Every provider that was set up takes records until the last request is
\* served, and then all of them are shut down: what is left at the end, a
\* provider or a record neither exported nor dropped, belongs to a provider
\* whose shutdown raised or to one that comes after it, and if none raised
\* (closing is empty) there is nothing left.
NothingStranded ==
    /\ stage = "serving" => providers = Providers
    /\ stage = "stopped" => providers \cup pending \subseteq {closing[i] : i \in DOMAIN closing}

\* With otel_sdk_disabled nothing is instrumented and no record gets as far as
\* a queue, whatever the other settings enable and whoever opens spans.
DisabledIsSilent ==
    Setting("otel_sdk_disabled") =>
        pending = {} /\ lost = {} /\ instrumented = {} /\ ~handler

\* otel.py:153, "Cannot use OTEL handler in logging configuration when
\* OTEL_SDK_DISABLE is true".
NoHandlerWhenDisabled ==
    env.variables["OTEL_SDK_DISABLE"] = "true" => ~handler
===============================================================================
