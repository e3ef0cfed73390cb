# A formal model of service-drawings

`service-drawings` stores KMZ drawings in an S3 bucket behind an HTTP API. This directory holds
TLA+ modules that model its core, TLC configurations that check them on small instances, and
proofs, checked by TLAPS, of the most important results for every instance. `PROJECT.json` lists
the runs, the definition-to-source map, the hazards and the theorems.

Contents: [the system](#1-the-system) · [the modules](#2-the-modules-and-the-code) ·
[the runs](#3-the-runs) · [findings](#4-where-code-and-documentation-disagree) ·
[the proofs](#5-the-proofs) · [limits](#6-abstractions-and-what-is-not-modelled) ·
[plan](#7-plan)

## 1. The system

| Component | State | Operations | Modelled |
|---|---|---|---|
| Drawings API (`app/api/wps.py`, `app/core/drawings.py`, `app/core/s3.py`, `app/core/validation.py`) | none of its own between requests; per request the parsed form, the spooled file with its read position, the metadata read from S3 | create, get, get metadata, check admin id, update, delete | all six operations |
| Exception handlers (`app/main.py`, `app/core/exceptions.py`) | none | exception → status and body; headers | status, body kind, no-store |
| S3 bucket (external) | the objects with their user metadata | put, get, head, delete, head bucket | from the calls `s3.py` makes |
| Filename codec and Content-Disposition (`drawings.py:83-165`) | none, pure | strip directories, percent-encode, truncate to 1 KB, decode, ASCII fallback, header | all |
| Shared HTTP cache (external) | answers it may keep | replay an answer | what `no-store` leaves open |
| Body size middleware (`app/middlewares/body_size.py`) | none | refuse by Content-Length | all |
| Probes (`app/api/internal.py`, `app/core/syntheticz_service.py`) | none | checker, readiness, syntheticz | all |
| Application set-up, lifespan (`app/main.py`) | routes, handlers, middlewares, the shared aioboto3 session | import, start, a request's way through the layers, stop | all |
| Telemetry (`app/otel.py`) | three providers, three exporters, pending batches | import-time set-up, logging handler, instrumentation, export, shutdown | all |
| OpenAPI split (`app/openapi.py`) | two cached schemas | build and serve the public and the internal document | which endpoints each lists, and when it is built |
| Settings (`app/settings.py`) | the values read at import | – | the boolean ones |
| Version, scripts, container and CI files | none at run time | – | no |

How they interact. A request passes the CORS and the body-size middleware; FastAPI parses the form
into a spooled file, runs `get_admin_id` where the operation requires the `Swissgeo-Admin-Id`
header, opens an S3 client from the shared session and calls the endpoint, which calls
`DrawingsService`, which calls `S3Service`. An exception goes back up to the handlers of
`main.py`. All persistent state is in S3: one object per drawing, under `drawings/<id>.kmz`, whose
user metadata hold the admin id, the digest, the encoded filename and two timestamps.

What is hard. Requests run concurrently, as coroutines of one replica and on several replicas.
There is no lock, no conditional request (`If-Match`) and no version: update, delete and download
are a `head_object` followed by an independent second call, and everything the first call returned
may be out of date when the second is performed. A call that timed out may still be performed, may
be performed twice because botocore repeats it, and survives the replica that sent it. A download
sends its status before it knows whether the object still exists. Finally, the bucket may hold
objects that older code or other tools wrote, with metadata missing.

What makes each part correct:

* *API and bucket* — only the holder of a drawing's admin id changes it; the admin id and creation
  time never change; what is stored is a complete KMZ file under its own digest; a confirmed write
  is what is stored and served as long as nothing overlaps it; a confirmed delete is not undone by
  later requests; a storage fault never looks like a missing drawing; every request is answered.
* *Filename codec* — the client gets back the name it sent, without directories, or the longest
  start of it that fits in 1 KB with its extension; the next upload under that name leaves it as it
  is; the header shows it unambiguously.
* *Caching* — no cache may answer one caller with what another one was told, or a reader with a
  drawing that has changed since.
* *Body-size middleware* — nothing of a request that declares too large a body is read.
* *Layers, routes, handlers* — every fixed URL keeps its endpoint next to `/{drawing_id}`; every
  answer but the framework's plain 500 can be read across origins; only a write that nothing has
  refused before its endpoint can end in that 500.
* *Telemetry, OpenAPI, probes* — providers outlast the requests and all of them are shut down, so
  that no record is left behind unnoticed; the disabled SDK does nothing; each document lists its
  endpoints and no other; `syntheticz` is UP exactly if the bucket answered.

The full list of hazards, at their lines, is in `PROJECT.json`.

## 2. The modules and the code

```
DrawingsData            values and pure functions
  ├── DrawingRegistry     abstract specification
  └── S3Bucket            the bucket and the calls on the wire (external)
        └── DrawingsService      the six operations as concurrent handlers
              └── DrawingsRequirements   properties; INSTANCE DrawingRegistry
                    ├── CachedService    behind a shared cache
                    │     └── MCDrawings       instances for TLC
                    │           └── MCLegacy   objects with incomplete metadata
                    └── DrawingsProofs   invariants of the service, proved
                          └── RegistryProofs   the refinement, proved
                                └── CachedProofs     the same behind a cache (with CachedService)
                                      └── SettledProofs   what was confirmed last

Telemetry               settings, providers, exporters, instrumentation
  └── Application         one process: set-up, a request through the layers, shutdown
        ├── MCApplication       environments and requests for TLC
        └── ApplicationProofs   its answers and telemetry, proved
              └── RoutingProofs     its types, routes and specifications, proved

Filenames               the filename codec
  ├── MCFilenames         one character of each kind
  └── QuoteProofs         quote() and unquote(), proved
        └── FilenamesProofs   what is recorded and shown, proved
```

**`DrawingsData`** has no state. A file is a content with a read position (start, after the four
magic bytes, end); `ValidateKmz` and `ValidateDigest` return their verdict *and the file as they
leave it*, so that a forgotten `seek(0)` would show up in what is uploaded (`Rest`). A digest
records over which bytes it was computed and its letter case. A missing or unusable filename is
replaced by the drawing's id. `Object` is the S3 object with the five metadata entries, each of
which may be `None`; a timestamp may also be `Garbled`, which `fromisoformat` rejects. Answers
carry the status and whether the body is a success, the `{"detail"}` object of a registered
handler (`"detail"`), the framework's text for an exception nobody handles (`"plain"`), or a
response that broke off after its status (`"aborted"`).

**`S3Bucket`** holds `objects`, `wire[r]` (the copies of request `r`'s mutating call S3 has not
performed yet) and `applied`. `Perform` is unordered between requests and can come at any time.

**`DrawingsService`** has one handler per request id. `pc[r]` is the await the handler is at:

| `pc` | next step of the handler | code |
|---|---|---|
| `idle` | `Receive`: the parameters, the 401 of `get_admin_id` | `wps.py` endpoints, 73-94 |
| `create` | `Create`: validation, fresh ids, upload sent | `drawings.py` 203-248 |
| `head` | `Head`, `HeadFails`: `head_object`, authorization, and everything up to the next await; for a delete that includes sending the call | `s3.py` 91-123, `drawings.py` 267-492 |
| `update` | `Update`: validation, the unchanged-content short cut, or the upload sent, from the metadata in `existing[r]` | `drawings.py` 315-346 |
| `stream` | `Stream`, `StreamFails`: `get_object` inside the generator, after the 200 | `s3.py` 61-89 |
| `calling` | `Confirmed`, `CallFails` (a `BotoCoreError`), `CallRefused` (a `ClientError`) | `s3.py` 43-59, 125-139 |
| `answered`, `lost` | – | |

`Retry`, `Deliver`, `Crash` and `Tick` are botocore, S3, the operating system and the clock.
`birth` and `before` are history variables: the identity each drawing was born with, and which
requests had been answered when a request came in; the handlers never read `before`, and `birth`
only stands for "this UUID has not been minted yet".

**`DrawingRegistry`** says what the API promises without handlers, head requests, wire and faults:
a register per drawing. A write is *accepted* once (for a new drawing, or from the holder of its
admin id, keeping its identity and storing a genuine KMZ file), *takes effect* in one step, perhaps
late, repeatedly or never, and is *acknowledged* only after it has taken effect.

**`DrawingsRequirements`** states the properties and instantiates the registry with
`stored <- objects`, `identity <- birth`, `accepted <-` the calls made, `effected <- applied`,
`acked <-` the confirmed calls.

**`CachedService`** adds one action, `ServeCached`: a GET request gets an answer that an earlier
request with the same URL got, unless `HandlerNoStore` (the handlers of 401 and 403 in `main.py`)
or `EndpointNoStore` (the 200s and the 204 of `wps.py`) forbade caches to keep it. Nothing is said
of expiry, eviction or the number of caches, so that every cache is covered.

**`Filenames`** spells names out, as sequences of characters of seven kinds: letters, the dot, the
colon, separators, other characters `quote()` escapes, the quotation mark, and characters of two
UTF-8 bytes. An encoded text is a sequence of symbols that know their character and their place in
it, so that a cut escape sequence decodes to `Broken`. `BaseName` and `Suffix` are
`PureWindowsPath`'s of Python 3.14, with drives and UNC shares. `Type` and `Upload` are a client's;
`UploadAgain` is the client that downloads a drawing and uploads it under the name it got.

**`Telemetry`** turns an environment into settings as pydantic does (`EnvName`: a variable that is
not exactly a field's name is ignored) and the settings into providers, exporters and the
processors between them. `Recorded` is what a request records: the spans and measurements of the
instrumented libraries, the log messages, and the span that `SyntheticzService.check` opens itself,
with or without instrumentation. `Record`, `Export`, `ShutDown` and `ShutdownRaises` are the SDK's,
and each of them may lose something: records without a processor go nowhere, a full queue and a
provider that is shut down drop them, a batch the collector does not take is given up, a provider
flushes what it can when it is shut down, and its shutdown may raise, which ends `shutdown_otel`.
`pending` and `lost` tell signals apart, not single records.

**`Application`** is `main.py` read from its first line to its last: one action per section of the
module (`ImportOtel`, `ConfigureLogging`, `CreateApp`, `RegisterHandlers`, `AddMiddlewares`,
`IncludeRouters`, `Instrument`), then the lifespan (`Startup`, `StopServing`, `ShutdownProvider`,
`Stopped`). The routes, handlers and layers these actions register are data that the request
actions read: `Reached` takes the first route that matches, `Raise` asks whether the exception
has a handler, `Answer` adds CORS headers if the request came through that layer. The drawings
endpoints appear with all the ways they can end, which follow from the calls each makes (`Calls`):
`Success`; an exception (`Raises`: those of the calls, of the validation and the authorization, and
the `KeyError` or `ValueError` of an update of an object whose times are missing or unreadable),
where `S3Raises` says that the reading methods of `S3Service` catch a `ClientError` and the writing
ones do not; or, for a download, `BreakOff` after the 200. Which of them an endpoint takes is the
subject of `DrawingsService`.

A definition called `Bad…` is a wrong variant of the definition after it, the way a plausible bug
would make it; no specification uses it. With it in place, the property
`PROJECT.json` pairs it with is violated.

## 3. The runs

Every run of the drawings modules starts with one drawing in the bucket (`d1`; in `legacy` five),
and has ids of each kind that clients make up (`Guessed`): those are never minted, which is what
"a UUID cannot be guessed" means here. Request ids are interchangeable, and so are the drawings
that may be minted (symmetry); there is no symmetry in `legacy`, which checks liveness. The bounds
are the numbers of requests, `MaxAttempts` (botocore's sendings of one call), `MaxClock` and, for
names, `MaxLength`. Finished systems stutter (`Done`, `Ended`), so deadlock checking stays on
everywhere.

| Run | Instance | Checked |
|---|---|---|
| `overlap` | 3 requests of all six operations behind a cache; one drawing there, up to three new; two forms; no faults | `LastWriteStays`, `ConfirmedContentStays`, `DeletedStaysDeleted`, `ReadsLastWrite`, `AuthAnswersOwn` |
| `faults` | 2 requests behind a cache, all six operations, all forms, clock to 2, 2 sendings, time-outs, refusals, crashes | `TypeOK`, `Integrity`, `CreatedStays`, `NotFoundIsTrue`, `LastWriteStays`, `ConfirmedContentStays`, `DeletedStaysDeleted`, `ReadsLastWrite`, `OnlyHolderMutates` |
| `late_calls` | 3 requests: metadata, update, delete; clock to 1; time-outs | `IInv`, `ModifiedAfterCreated`, `ReportedTimes`, `RegistryImplemented` |
| `legacy` | 2 requests of all six operations on five objects with metadata missing or unreadable; time-outs, crashes; `FairSpec` | `IdentityPreserved`, `EveryRequestAnswered` |
| `filenames` | every name of up to 5 characters of 7 kinds, against limits of 9 and 4 symbols | `FitsMetadata`, `OnlyShortened`, `UploadAgainKeepsName`, `HeaderReadable` |
| `application` | one process in ten environments (five settings, each with and without the logging handler), any sequence of requests: every method on every path, and every combination of headers and forms on the upload URLs | `TypeOK`, `OwnEndpoint`, `OversizedUnread`, `ReadableAcrossOrigins`, `PlainOnlyFromWrites`, `SpecsAsDocumented`, `SyntheticzHonest`, `NothingStranded`, `DisabledIsSilent` |

Why the bounds are enough to be interesting. Three requests on one drawing are what it takes for a
read or a write to follow one confirmed write while a second overlaps: a head request before, a
confirmed write, and a late call. Two requests with two sendings and every fault give each pair of
operations every order of its awaits, with duplicates performed after the sender was answered or
died. Two contents, two names and both letter cases reach the short cut of `update_drawing`, a
renaming of the same content, and a replacement; `AllForms` adds a file that is no ZIP archive and
a digest of other bytes. A clock to 1 tells creation from modification and an earlier modification
from a later one; the properties of `overlap` do not look at it, so it stands still there. Five
characters against a budget of nine symbols are the shortest instance in which a stem, an extension
that is kept, an extension that is too long, and an escaped character at the cut
all meet. The requests of `application` come one after the other and need no bound: a request leaves
nothing behind but the cached specifications and pending telemetry, both of which are finite.

What the runs show:

* *With nothing overlapping it, the last confirmed write is what the bucket holds and what later
  downloads get* (`overlap` with three requests, `faults` with every fault). These properties speak
  only of histories in which the write is the last one anybody can name: every other write of the
  drawing was `Finished` before it came in, that is, sent once, and confirmed or refused by S3. With
  overlapping writes the last *performed* one wins, see the findings. So it does after a call that
  timed out or was sent twice: it may still be performed, after a later confirmed write, which
  `RegistryImplemented` allows. Both halves of `Finished` are needed: without either,
  `faults` has a counterexample. The last write itself may have been sent any number of times.
* *A confirmed creation stays until somebody asks for the deletion*, and *a 404 is true* even
  under faults: an S3 failure never turns into one.
* *Nobody without the admin id changes or removes an object*, in any interleaving with faults: the
  authorization is made on a stale read, and it is safe just because the admin id never changes
  (`IdentityPreserved`) and cannot be guessed.

* *A shared cache does not change any of this* (`overlap`, `faults`): what `no-store` leaves to a
  cache is a 404 or a 500 of a GET request. The 401, the 403 and the 204 of check-auth are never
  replayed. A stale 404 of `check-auth` can reach somebody without an admin id, who would have
  got a 401; the API says nothing against it, and `AuthAnswersOwn` does not either.
* *Names survive any number of uploads* (`filenames`), except one that itself starts with a drive:
  `y/x:map.kmz` is recorded as `x:map.kmz`, and uploaded under that name it becomes `map.kmz`.
  `UploadAgainKeepsName` names the exception.
* *The order of registration is right* (`application`): routers before `/{drawing_id}`, CORS around
  the body-size check, specifications built at their first request. The mutants swap these orders.
  A request without a well-formed Content-Length passes the middleware, which looks at nothing
  else (`BodySize`).
* *The plain 500 comes from admitted writes only* (`application`): an upload or a delete that S3
  refuses, and an update of an object with unusable times. The first two are the finding
  `plain_error`, the last one is `unusable_times`. No read ends in it, though a download may break
  off, and no request that lacks its credentials or its form does.
* *Telemetry may be lost, but not stranded* (`application`): records are dropped where the SDK says
  so – a full queue, a failed export or flush, a message logged after the log provider's shutdown,
  as `lifespan`'s last one always is. What remains at an orderly end is what a shutdown that raised
  has left behind, and `shutdown_otel` does not go on after it.

### Fairness

`FairSpec` asks weak fairness of `Handle(r)` for each request and of nothing else: not of clients
(`Receive`), S3 (`Deliver`), botocore's repetition, crashes or the clock. A handler never waits for
another handler; its steps are its own code and the end of its own S3 call. The latter comes
because aiobotocore's clients have default connect and read time-outs, which `s3.py` does not
change: `CallFails` is enabled whenever the handler awaits its mutating call. `legacy`
lists `"timeout"` among its faults for that reason; without it `EveryRequestAnswered` fails as soon
as S3 never performs a call, which is what its mutant shows. `Crash` is a possible end of a
request, and one the property allows.

## 4. Where code and documentation disagree

Each has a run that ends in a counterexample; `PROJECT.json` quotes the lines.

| Run | Claim | What happens |
|---|---|---|
| `resurrection` | "The deletion is irreversible" | update reads the metadata; delete is confirmed; the update's upload brings the drawing back |
| `time_reversal` | "modified_at moves forward" | two updates take their times in one order and are performed in the other; a client is confirmed the later time and then reads the earlier one |
| `broken_download` | a missing drawing is raised "before the response starts" | deleted between head and get: `DrawingNotFoundError` after the 200 |
| `plain_error` | errors "follow a uniform `{"detail"}` body" | `upload_drawing` and `delete_drawing` let a `ClientError` of S3 through, which has no handler |
| `unusable_times` | the update path "reads timestamps it has just written" | created-at comes from the stored object, and the short cut parses both; objects without usable timestamps end in an unhandled exception |
| `disable_switch` | no OTEL handler "when OTEL_SDK_DISABLE is true" | the setting reads `OTEL_SDK_DISABLED`; the variable of `.env.default` belongs to no field and is ignored |

Smaller ones, without a run of their own. `_get_exporters` tests "SDK disabled *and* exporter
disabled" (`otel.py:61`), so `OTEL_ENABLE_OTLP_EXPORTER=false` alone removes no exporter
(`Exporters` is modelled that way). The docstring of `setup_openapi` speaks of a handler that turns
422 into 400, which does not exist: malformed parameters are answered 422 (`RejectParameters`). An
update between the head and the get request of a download pairs the old name with the new content;
`ReadsLastWrite` says that this needs an overlap.

## 5. The proofs

TLAPS checks eight modules of proofs, for every choice of the constants that meets the named
assumptions below: without bounds on requests, drawings, contents, clock or repetitions, on what
the bucket holds at the start, on environments and HTTP requests, and on the length of names and
the characters in them. Every invariant and action property of a passing run is the subject of a
theorem.

| Module | Theorem | States |
|---|---|---|
| `DrawingsProofs` | `Inductive` | `Spec => []IInv`, on which most others rest |
| | `TypeCorrect`, `IdentityCorrect`, `IntegrityCorrect`, `TimesCorrect` | `Spec => []P` for `TypeOK`, `IdentityPreserved`, `Integrity`, `ModifiedAfterCreated` |
| | `MutationsAuthorized` | `Spec => OnlyHolderMutates` |
| `RegistryProofs` | `ServiceImplementsRegistry` | `Spec => RegistryImplemented` |
| `CachedProofs` | `CachedInductive` | `CachedSpec => []CInv` |
| | `CachedSafety`, `CachedMutations`, `CachedImplementsRegistry` | the results above, behind a cache |
| | `AuthAnswersCorrect`, `NotFoundCorrect`, `CreatedCorrect` | `CachedSpec => []P` for `AuthAnswersOwn`, `NotFoundIsTrue`, `CreatedStays` |
| `SettledProofs` | `ReportedTimesCorrect` | `CachedSpec => []ReportedTimes`, assuming `InitialRecorded` |
| | `LastWriteCorrect`, `DeletedCorrect`, `ReadsCorrect` | `CachedSpec => []P` for `LastWriteStays`, `DeletedStaysDeleted`, `ReadsLastWrite` |
| | `ContentCorrect` | `CachedSpec => []ConfirmedContentStays`, assuming `InitialRecorded` |
| `ApplicationProofs` | `ApplicationInductive` | `Spec => []AInv` of `Application` |
| | `OversizedCorrect`, `ReadableCorrect`, `PlainCorrect`, `SyntheticzCorrect`, `ShutdownCorrect`, `DisabledCorrect` | `Spec => []P` for `OversizedUnread`, `ReadableAcrossOrigins`, `PlainOnlyFromWrites`, `SyntheticzHonest`, `NothingStranded`, `DisabledIsSilent` |
| `RoutingProofs` | `RoutingInductive` | `Spec => []RInv` of `Application` |
| | `TypeCorrect`, `OwnEndpointCorrect`, `SpecsCorrect` | `Spec => []P` for `TypeOK`, `OwnEndpoint`, `SpecsAsDocumented` |
| `QuoteProofs` | – | lemmas only, above all `UnquoteQuote`: `Unquote(Quote(name)) = name` for every name of modelled characters |
| `FilenamesProofs` | `FitsCorrect`, `ShortenedCorrect`, `UploadAgainCorrect`, `HeaderCorrect` | `Spec => []P` of `Filenames` for `FitsMetadata`, `OnlyShortened`, `UploadAgainKeepsName`, `HeaderReadable` |

*Assumptions.* `DataAssumption`, `CallAssumption`, `BirthAssumption`, `WriteAssumption` and
`RequestAssumption` say that the sentinels (`None`, `Garbled`) are none of the values they stand in
for. `ServiceAssumption` types the constants and says that initial objects were created at or
before time 0 and that guessed ids are not in the bucket; `EnvironmentAssumption` types the
environments. `FilenameAssumption` keeps the kinds of characters apart and asks of the limits that
an extension that is kept fits the budget for the whole name (32 and 1024 in the code), that the
budget takes eight symbols, and that the fallback, `<drawing id>.kmz`, fits it. TLC evaluates all
of them in the runs.

Two theorems need more, and say so in their statements: `InitialRecorded`. In the objects that are
in the bucket at the start, a recorded digest is the one of the body, and recorded times are in
order. The service never recomputes them, so nothing it says of such an object can be better than
they are. No theorem restricts `Faults` or `MaxAttempts`.

*Why an invariant of its own.* `IdentityPreserved` is not inductive: `objects` changes when a call
is performed, the call was composed earlier from a copy, and the copy was read earlier still.
`IInv` therefore says of all three places – stored objects, the handlers' `existing` and the calls
on the wire – that they carry the identity their drawing was born with (`ObjectsOK`). To know that
an update's object carries the drawing's admin id one needs that the id presented was compared with
the one read (`CallersAuthorized`), where each handler is and what it has sent at that point
(`LocalsOK`), and for the times that whatever was read lies in the past (`BirthsInPast`).
Types and locals (`…Locals`) come first, the identities (`…Identities`) on top of them, each with
one lemma per action or group of actions and a step per conjunct under it. `late_calls` checks
`IInv` with TLC.

*Refinement.* `Init` maps to `RegInit`. Under `IInv`, `Create` maps to `Register`; the steps of
`Head` and `Update` that send a call map to `Replace`; `Deliver` maps to `Effect`; `Confirmed` maps
to `Acknowledge`; every other step to a stutter. A performed duplicate is an `Effect` again. A
cached answer is a stutter too: it confirms no call.

*Behind a cache.* `CInv` adds to `IInv` what each answer says about its request (`AnswersOK`: a 403
was given to an id that is not the drawing's, a 404 for a drawing that was never born or whose
deletion has been sent, …) and which calls and creations there have been (`HistoryOK`). An answer
that fits the request it was given to must fit every request with the same URL if caches may keep
it: exactly the answers with `no-store` fail this, and `ServeCached` never serves them.

*What was confirmed last.* A call that was performed, confirmed or refused has left the wire with
at least one of its copies (`CallsSettled`), and a request sends no more of them once it is answered
(`AttemptsStay`); so a `Finished` write is never performed again, nor for the first time. `Last(q,
d)` says that `q`'s write has been performed, that its client was not told it failed (`Trusted`),
and that every other writer of `d` was `Finished` when `q` came in; while this is so, `q`'s object
is what is stored, what later requests have read, and what they are told (`LastSeen`). When `q`'s
call is performed for the first time, nobody has come in after `q`; when it is performed again, it
changes nothing. `Removed(r, d)` is the same for a delete with no overlapping write: nobody
who came in later has found the drawing or writes it (`RemovedStays`). `ReadStays` adds, for the update that finds its digest recorded and
writes nothing, that what it has read is still there. `RecordsOK` needs no order of calls: recorded
digests and times are right in every copy and in every answer.

*The application.* `AInv` says which layers, handlers and session a serving process has
(`SetUpOK`), what a request can have met at the layer where it is (`RequestOK`), that its answer is
right, and that pending telemetry has a provider which the rest of the shutdown will reach, all
providers being there while requests are served (`TelemetryOK`). `RaisesIs` computes what an
endpoint can raise from the calls it makes. No theorem says that records reach a collector, for
nothing in the code could make them.

*Routes and specifications.* `RInv` adds to `AInv` the types, the route table as it stands at each
stage (`RoutesOK`: `Early` once the application is created, `Table` once the routers are included)
and that a cached specification is complete (`SpecsOK`). The table is a concatenation of five
parts, two of which depend on the settings. `FirstPart` says that a request goes to the first part
that has a route for it, `TableHits` which part that is; `ContributesBoth` says that a specification
lists what each part contributes, `BuildIs` what they contribute together. Neither would hold of
the table at an earlier stage: that `RouteRequest` and `ServeSpec` happen in a serving process only
is what makes the order of `main.py` matter.

*Names.* `Quote` and `Unquote` concatenate one part for each character or symbol, with
`FlattenSeq`, which is a recursive function. `FlatExists` and `FlatUnique` show that a function with
its equation exists and that there is no other; so concatenating one part more appends it
(`FlattenAppend`). With induction over sequences (`SeqInduction`, which follows from the least
element of a set of numbers, itself from the library's `WFMin`) this gives `QuoteConcat` and
`UnquoteQuote`: a character added at the end starts behind the others, and starts nowhere else
(`StartsAppend`).

What is recorded is the encoding of a *plain* name: without separators, not empty, and neither `.`
nor `..`. `UsablePlain` shows that stripping directories or taking the fallback leaves such a name,
and `ShortenedPlain` that shortening does: if it left two dots, a character more would still
have fitted. A plain name is its own last component (`LastComponentSelf`), so that a second
upload strips nothing (`SameAgain`), unless the name reads like a drive. That what is cut is as
long as possible (`EncodeIs`) rests on the cost of a start growing with its length
(`CostMonotonic`), and on the extension being an end of the name even where `PureWindowsPath` sees
a drive in it (`SuffixIs`). `FInv` is inductive: it says that what is recorded is such a name
within the budget, and what it was computed from.

*Only model-checked.* `EveryRequestAnswered`, because liveness under fairness needs `ENABLED`,
which this version of the prover does not support. And the claims of section 4, which are false.

## 6. Abstractions and what is not modelled

* All replicas share one clock. Skew between replicas would make `time_reversal` worse and could
  break `ModifiedAfterCreated`; the model does not claim anything about skewed clocks.
* An upload is one call. For large files `upload_fileobj` uses a multipart upload, whose object
  appears at its completion; the duplicates the model lets S3 perform include what repeating the
  completion can do.
* All copies of one request's call are alike, so a count on the wire suffices. `Confirmed` does not
  ask which copy was answered; `CallRefused` discards one.
* A request that awaits nothing between two reads of S3 is one step: `Head` includes the
  authorization and, for a delete, sending the call.
* A client that disconnects is a client that never looks at its answer. A request that FastAPI
  rejects with 422, or a middleware rejects, is a matter of `Application` and never reaches
  `DrawingsService`.
* `head_object` and `get_object` also answer 404 for a missing *bucket*, a misconfiguration left
  out of `NotFoundIsTrue`.
* A failed create may leave an object nobody knows the ids of. That is modelled (its call stays on
  the wire, its `birth` is recorded) and nothing forbids it, for the code does not clean up.
* `Application` takes requests one after the other. What they share besides S3 – the cached
  specifications – is read and written without an await in between, so overlapping them adds
  nothing; what they share in S3 is `DrawingsService`. Recording telemetry is one step
  at the end of a request, and one each for the messages of the lifespan's two ends; those logged
  before the lifespan starts, and the SDK's own exit hooks, which try the shutdown again, are left
  out.
* What boto raises when it cannot even create a client, such as a malformed endpoint URL, is left
  out of `Raises`: that is a misconfiguration under which no drawings endpoint works.
* CORS settings are abstracted to allowed and foreign origins, and a Content-Length to absent,
  malformed, small and large. Several Content-Length headers, of which the code looks at the first,
  are one. Other content of the OpenAPI documents (servers, schemas, removed 422 responses), the
  `root_path` and HTTP's own refusals are left out.
* Hash collisions and the constant-time comparison are out of scope; so are characters of three and
  four bytes, which differ from those of two in their width only.
* Settings that are not boolean are constants of the models (`MaxEncoded`, the size limit) or
  have no effect on them (names of buckets, endpoints, the API prefix). The version string, the
  scripts, the container and the CI files keep no state while the service runs.

## 7. Plan

Done: every component with behaviour at run time, composed where components share state, with the
core proved. What could follow:

1. `Application` with overlapping requests, to state how a shutdown meets requests under way
   (`uvicorn` waits for them; the model lets it stop between requests only).
2. Multipart uploads as several calls, with abandoned parts.
3. Replicas with clocks of their own, and what then remains of the order of the times.
