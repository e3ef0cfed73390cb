---------------------------- MODULE MCApplication ----------------------------
(***************************************************************************)
(* Environments and requests for TLC.                                      *)
(***************************************************************************)
EXTENDS Application

Unset == [v \in Variable |-> "unset"]

\* The variables of .env.default and .env.otel.
LocalVariables ==
    [Unset EXCEPT !["PUBLISH_OPENAPI_SPEC"] = "true", !["OTEL_SDK_DISABLE"] = "true",
                  !["OTEL_ENABLE_OTLP_EXPORTER"] = "true", !["OTEL_ENABLE_METRICS"] = "true"]
OtelVariables == [LocalVariables EXCEPT !["OTEL_SDK_DISABLE"] = "false"]

\* Others: nothing set, the SDK off, and everything but the exporter or one
\* library off.
Quiet == [LocalVariables EXCEPT !["OTEL_SDK_DISABLED"] = "true"]
Mute == [Quiet EXCEPT !["OTEL_ENABLE_OTLP_EXPORTER"] = "false"]
NoFastApi == [OtelVariables EXCEPT !["OTEL_ENABLE_FASTAPI"] = "false"]

Environments ==
    [variables : {Unset, OtelVariables, Quiet, Mute, NoFastApi},
     logHandler : BOOLEAN]

LocalEnvironments == [variables : {LocalVariables}, logHandler : BOOLEAN]

Simple ==
    [method : Method, path : Path, origin : {"allowed"}, preflight : {FALSE},
     declared : {"none"}, admin : {TRUE}, form : {TRUE}]

\* All headers and forms on the URLs that take an upload, and preflights.
Uploading ==
    [method : {"POST", "PUT"}, path : {"P", "P/id", "P/text"},
     origin : {"none", "allowed", "foreign"}, preflight : {FALSE},
     declared : {"none", "malformed", "small", "large"}, admin : BOOLEAN, form : BOOLEAN]

Other ==
    [method : {"OPTIONS"}, path : {"P"}, origin : {"allowed", "foreign"}, preflight : {TRUE},
     declared : {"none"}, admin : {FALSE}, form : {TRUE}]
    \cup [method : {"GET", "DELETE"}, path : {"P/id/check-auth", "P/text", "P/syntheticz"},
          origin : {"none"}, preflight : {FALSE}, declared : {"none", "large"},
          admin : {FALSE}, form : {TRUE}]

AllRequests == Simple \cup Uploading \cup Other
===============================================================================
