------------------------------- MODULE Telemetry -------------------------------
(***************************************************************************)
(* OpenTelemetry in service-drawings (app/otel.py): what is set up when    *)
(* the module is imported, the logging handler that the logging            *)
(* configuration asks for, the instrumentation of the libraries, and the   *)
(* shutdown in the application's lifespan. Batches are exported in the     *)
(* background, by threads of the SDK (external), which drop what does not  *)
(* fit their queues and what the collector does not take.                  *)
(***************************************************************************)
EXTENDS Naturals, Sequences

CONSTANTS
    Environment     \* the environments the process may be started in

\* Three-valued environment variables, and whether the logging configuration
\* names the handler app.otel.get_otel_handler.
Variable == {"PUBLISH_OPENAPI_SPEC", "OTEL_SDK_DISABLE", "OTEL_SDK_DISABLED",
             "OTEL_ENABLE_BOTO", "OTEL_ENABLE_FASTAPI",
             "OTEL_ENABLE_OTLP_EXPORTER", "OTEL_ENABLE_METRICS"}

ASSUME EnvironmentAssumption ==
    Environment \subseteq [variables  : [Variable -> {"unset", "true", "false"}],
                           logHandler : BOOLEAN]

VARIABLES
    env,            \* the process's environment
    exporters,      \* the signals an OTLP exporter has been created for
    providers,      \* the signals with a provider that is not shut down
    exporting,      \* the signals whose provider got an exporter
    handler,        \* the root logger has the OTEL handler
    instrumented,   \* the instrumented libraries
    pending,        \* the signals with records that are not exported yet
    lost            \* the signals of which records have been dropped

otelvars == <<env, exporters, providers, exporting, handler, instrumented,
              pending, lost>>

Signal == {"trace", "log", "metric"}

OtelTypeOK ==
    /\ env \in Environment
    /\ {exporters, providers, exporting, pending, lost} \subseteq SUBSET Signal
    /\ handler \in BOOLEAN
    /\ instrumented \subseteq {"boto", "fastapi"}

-------------------------------------------------------------------------------
(* app/settings.py.                                                        *)

\* The boolean fields and their defaults. A variable that no field is named
\* after is ignored (extra="ignore").
Default == [publish_openapi_spec |-> FALSE, otel_sdk_disabled |-> FALSE,
            otel_enable_boto |-> TRUE, otel_enable_fastapi |-> TRUE,
            otel_enable_otlp_exporter |-> TRUE, otel_enable_metrics |-> FALSE]

EnvName == [publish_openapi_spec |-> "PUBLISH_OPENAPI_SPEC",
            otel_sdk_disabled |-> "OTEL_SDK_DISABLED",
            otel_enable_boto |-> "OTEL_ENABLE_BOTO",
            otel_enable_fastapi |-> "OTEL_ENABLE_FASTAPI",
            otel_enable_otlp_exporter |-> "OTEL_ENABLE_OTLP_EXPORTER",
            otel_enable_metrics |-> "OTEL_ENABLE_METRICS"]

Setting(field) ==
    LET value == env.variables[EnvName[field]]
    IN  IF value = "unset" THEN Default[field] ELSE value = "true"

-------------------------------------------------------------------------------
(* Import of app.otel.                                                     *)

\* _setup_metrics().
MetricsEnabled == ~Setting("otel_sdk_disabled") /\ Setting("otel_enable_metrics")

\* _get_providers(), and the meter provider.
Providers ==
    (IF Setting("otel_sdk_disabled") THEN {} ELSE {"trace", "log"})
        \cup (IF MetricsEnabled THEN {"metric"} ELSE {})

\* _get_exporters(): only with both settings off there is none.
Exporters ==
    IF Setting("otel_sdk_disabled") /\ ~Setting("otel_enable_otlp_exporter")
    THEN {} ELSE Signal

OtelInit ==
    /\ env \in Environment
    /\ exporters = {}
    /\ providers = {}
    /\ exporting = {}
    /\ handler = FALSE
    /\ instrumented = {}
    /\ pending = {}
    /\ lost = {}

\* A processor or a reader is added to a provider if there is an exporter.
SetUp ==
    /\ exporters' = Exporters
    /\ providers' = Providers
    /\ exporting' = Exporters \cap Providers
    /\ UNCHANGED <<env, handler, instrumented, pending, lost>>

\* get_otel_handler() raises a ValueError otherwise.
HandlerAvailable == ~Setting("otel_sdk_disabled") /\ "log" \in providers

AddHandler ==
    /\ handler' = TRUE
    /\ UNCHANGED <<env, exporters, providers, exporting, instrumented, pending, lost>>

BadLibraries ==
    (IF Setting("otel_enable_boto") THEN {"boto"} ELSE {})
        \cup (IF Setting("otel_enable_fastapi") THEN {"fastapi"} ELSE {})

\* What initialize_instrumentation() instruments.
Libraries ==
    IF Setting("otel_sdk_disabled") THEN {}
    ELSE (IF Setting("otel_enable_boto") THEN {"boto"} ELSE {})
         \cup (IF Setting("otel_enable_fastapi") THEN {"fastapi"} ELSE {})

InstrumentLibraries ==
    /\ instrumented' = Libraries
    /\ UNCHANGED <<env, exporters, providers, exporting, handler, pending, lost>>

-------------------------------------------------------------------------------
(* While the application runs.                                             *)

\* Log messages reach the handler, once it is there.
Logged == IF handler THEN {"log"} ELSE {}

\* What the instrumented libraries record of a request (external): FastAPI a
\* span and measurements, botocore a span for each of its calls.
Instrumented(called) ==
    (IF "fastapi" \in instrumented THEN {"trace", "metric"} ELSE {})
        \cup (IF "boto" \in instrumented /\ called THEN {"trace"} ELSE {})

\* SyntheticzService.check() opens a span itself, whatever is instrumented.
Recorded(called, checked) ==
    Instrumented(called) \cup Logged \cup (IF checked THEN {"trace"} ELSE {})

\* Without a processor records go nowhere. A provider that is shut down drops
\* them, and a queue of spans or log records that is full others (external).
Record(signals) ==
    LET processed == signals \cap exporting
    IN  /\ pending' = pending \cup (processed \cap providers)
        /\ \E full \in SUBSET ((processed \cap pending) \ {"metric"}) :
             lost' = lost \cup full \cup (processed \ providers)
        /\ UNCHANGED <<env, exporters, providers, exporting, handler, instrumented>>

\* A background thread exports a batch; if the collector does not take it,
\* the exporter gives up at some time and the batch is lost (external).
Export(s) ==
    /\ s \in pending
    /\ pending' = pending \ {s}
    /\ lost' \in {lost, lost \cup {s}}
    /\ UNCHANGED <<env, exporters, providers, exporting, handler, instrumented>>

BadShutdownOrder == <<"trace", "log">>

\* The order in which shutdown_otel() shuts the providers down.
ShutdownOrder == <<"trace", "log", "metric">>

\* A provider that exists exports what is left, as far as the collector takes
\* it, and drops the rest (external).
ShutDown(s) ==
    LET left == pending \cap providers \cap {s}
    IN  /\ providers' = providers \ {s}
        /\ pending' = pending \ left
        /\ lost' \in {lost, lost \cup left}
        /\ UNCHANGED <<env, exporters, exporting, handler, instrumented>>

\* The shutdown of a provider that exists may also raise, as MeterProvider's
\* does after that of a reader has failed (external).
ShutdownRaises(s) == s \in providers /\ UNCHANGED otelvars
===============================================================================
