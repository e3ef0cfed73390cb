----------------------------- MODULE RoutingProofs -----------------------------
(***************************************************************************)
(* Proofs about Application: its types, which endpoint a request reaches   *)
(* and what the specifications list, for every set of requests and         *)
(* environments. The inductive invariant adds to the one of                *)
(* ApplicationProofs the route table as it stands at each stage.           *)
(***************************************************************************)
EXTENDS ApplicationProofs, SequenceTheorems

\* The routes of the application as created, and when all routers are included.
Early == DefaultRoutes \o OpenApiRoutes
Table == Early \o InternalRouter \o PrefixedRouter \o WpsRouter

\* The table as it stands at each stage.
RoutesOK ==
    /\ stage \in {"started", "otel", "logging"} => routes = <<>>
    /\ stage \in {"created", "handlers", "middlewares"} => routes = Early
    /\ stage \in {"routes", "instrumented", "serving"} => routes = Table

\* What the internal specification lists.
HealthEndpoints == {"get_checker", "get_checker_ready", "get_syntheticz"}

\* A cached specification is complete: SpecsAsDocumented, as a type.
SpecsOK == specs \in [public : {None, WpsEndpoints}, internal : {None, HealthEndpoints}]

-------------------------------------------------------------------------------
(* The route table.                                                        *)

\* What a route consists of.
EndpointName ==
    {"create_drawing", "get_drawing", "update_drawing", "check_auth", "get_drawing_metadata",
     "delete_drawing", "get_checker", "get_checker_ready", "get_syntheticz", "public_spec",
     "internal_spec", "docs"}
RouteType ==
    [method : Method, path : Path \cup {"P/{drawing_id}"}, endpoint : EndpointName,
     listed : BOOLEAN, internal : BOOLEAN]

\* Each kind of route, field by field.
LEMMA RouteFields ==
    ASSUME NEW m, NEW p, NEW n
    PROVE  /\ Route(m, p, n) = [method |-> m, path |-> p, endpoint |-> n, listed |-> TRUE,
                                internal |-> FALSE]
           /\ Unlisted(p, n) = [method |-> "GET", path |-> p, endpoint |-> n, listed |-> FALSE,
                                internal |-> FALSE]
           /\ Internal(p, n) = [method |-> "GET", path |-> p, endpoint |-> n, listed |-> TRUE,
                                internal |-> TRUE]
<1> DEFINE fields == {"method", "path", "endpoint", "listed", "internal"}
<1>1. \A k : Route(k, p, n) = [method |-> k, path |-> p, endpoint |-> n, listed |-> TRUE,
                               internal |-> FALSE]
  BY DEF Route
<1>2. Unlisted(p, n) = [i \in fields |-> IF i = "listed" THEN FALSE ELSE Route("GET", p, n)[i]]
  BY DEF Unlisted, Route
<1>3. Internal(p, n) = [i \in fields |-> IF i = "internal" THEN TRUE ELSE Route("GET", p, n)[i]]
  BY DEF Internal, Route
<1>4. Unlisted(p, n) = [method |-> "GET", path |-> p, endpoint |-> n, listed |-> FALSE,
                        internal |-> FALSE]
  BY <1>2 DEF Route
<1>5. Internal(p, n) = [method |-> "GET", path |-> p, endpoint |-> n, listed |-> TRUE,
                        internal |-> TRUE]
  BY <1>3 DEF Route
<1> QED
  BY <1>1, <1>4, <1>5

\* A route, field by field.
Is(route, method, path, endpoint0, listed, internal) ==
    /\ route \in RouteType
    /\ route.method = method /\ route.path = path /\ route.endpoint = endpoint0
    /\ route.listed = listed /\ route.internal = internal

\* Each kind of route is what it says.
LEMMA RouteIs ==
    ASSUME NEW m \in Method, NEW p \in Path \cup {"P/{drawing_id}"}, NEW n \in EndpointName
    PROVE  /\ Is(Route(m, p, n), m, p, n, TRUE, FALSE)
           /\ Is(Unlisted(p, n), "GET", p, n, FALSE, FALSE)
           /\ Is(Internal(p, n), "GET", p, n, TRUE, TRUE)
<1>1. ASSUME NEW k \in Method, NEW l \in BOOLEAN, NEW i \in BOOLEAN, NEW r,
             r = [method |-> k, path |-> p, endpoint |-> n, listed |-> l, internal |-> i]
      PROVE  Is(r, k, p, n, l, i)
  <2>1. r \in RouteType
    BY <1>1 DEF RouteType
  <2>2. /\ r.method = k /\ r.path = p /\ r.endpoint = n
        /\ r.listed = l /\ r.internal = i
    BY <1>1
  <2> QED
    BY <2>1, <2>2, Zenon DEF Is
<1>2. "GET" \in Method /\ TRUE \in BOOLEAN /\ FALSE \in BOOLEAN
  BY DEF Method
<1> QED
  BY <1>1, <1>2, RouteFields, Zenon

\* The parts of the table, route by route.
LEMMA WpsRoutes ==
    /\ WpsRouter \in Seq(RouteType) /\ DOMAIN WpsRouter = 1 .. 6
    /\ Is(WpsRouter[1], "POST", "P", "create_drawing", TRUE, FALSE)
    /\ Is(WpsRouter[2], "GET", "P/{drawing_id}", "get_drawing", TRUE, FALSE)
    /\ Is(WpsRouter[3], "PUT", "P/{drawing_id}", "update_drawing", TRUE, FALSE)
    /\ Is(WpsRouter[4], "GET", "P/id/check-auth", "check_auth", TRUE, FALSE)
    /\ Is(WpsRouter[5], "GET", "P/id/metadata", "get_drawing_metadata", TRUE, FALSE)
    /\ Is(WpsRouter[6], "DELETE", "P/{drawing_id}", "delete_drawing", TRUE, FALSE)
<1>1. /\ DOMAIN WpsRouter = 1 .. 6
      /\ WpsRouter[1] = Route("POST", "P", "create_drawing")
      /\ WpsRouter[2] = Route("GET", "P/{drawing_id}", "get_drawing")
      /\ WpsRouter[3] = Route("PUT", "P/{drawing_id}", "update_drawing")
      /\ WpsRouter[4] = Route("GET", "P/id/check-auth", "check_auth")
      /\ WpsRouter[5] = Route("GET", "P/id/metadata", "get_drawing_metadata")
      /\ WpsRouter[6] = Route("DELETE", "P/{drawing_id}", "delete_drawing")
  BY DEF WpsRouter
<1>2. /\ Is(WpsRouter[1], "POST", "P", "create_drawing", TRUE, FALSE)
      /\ Is(WpsRouter[2], "GET", "P/{drawing_id}", "get_drawing", TRUE, FALSE)
      /\ Is(WpsRouter[3], "PUT", "P/{drawing_id}", "update_drawing", TRUE, FALSE)
      /\ Is(WpsRouter[4], "GET", "P/id/check-auth", "check_auth", TRUE, FALSE)
      /\ Is(WpsRouter[5], "GET", "P/id/metadata", "get_drawing_metadata", TRUE, FALSE)
      /\ Is(WpsRouter[6], "DELETE", "P/{drawing_id}", "delete_drawing", TRUE, FALSE)
  BY <1>1, RouteIs DEF Method, Path, EndpointName
<1>3. WpsRouter \in Seq(RouteType)
  <2>1. /\ Route("POST", "P", "create_drawing") \in RouteType
        /\ Route("GET", "P/{drawing_id}", "get_drawing") \in RouteType
        /\ Route("PUT", "P/{drawing_id}", "update_drawing") \in RouteType
        /\ Route("GET", "P/id/check-auth", "check_auth") \in RouteType
        /\ Route("GET", "P/id/metadata", "get_drawing_metadata") \in RouteType
        /\ Route("DELETE", "P/{drawing_id}", "delete_drawing") \in RouteType
    BY <1>1, <1>2, Zenon DEF Is
  <2>2. \A a, b, c, d, e, f \in RouteType : <<a, b, c, d, e, f>> \in Seq(RouteType)
    OBVIOUS
  <2> QED
    BY <2>1, <2>2, Zenon DEF WpsRouter
<1> QED
  BY <1>1, <1>2, <1>3, Zenon

\* The health routes.
LEMMA InternalRoutes ==
    /\ InternalRouter \in Seq(RouteType) /\ DOMAIN InternalRouter = 1 .. 2
    /\ Is(InternalRouter[1], "GET", "/checker", "get_checker", TRUE, TRUE)
    /\ Is(InternalRouter[2], "GET", "/checker/ready", "get_checker_ready", TRUE, TRUE)
<1>1. /\ DOMAIN InternalRouter = 1 .. 2
      /\ InternalRouter[1] = Internal("/checker", "get_checker")
      /\ InternalRouter[2] = Internal("/checker/ready", "get_checker_ready")
  BY DEF InternalRouter
<1>2. /\ Is(InternalRouter[1], "GET", "/checker", "get_checker", TRUE, TRUE)
      /\ Is(InternalRouter[2], "GET", "/checker/ready", "get_checker_ready", TRUE, TRUE)
  BY <1>1, RouteIs DEF Method, Path, EndpointName
<1>3. InternalRouter \in Seq(RouteType)
  <2>1. /\ Internal("/checker", "get_checker") \in RouteType
        /\ Internal("/checker/ready", "get_checker_ready") \in RouteType
    BY <1>1, <1>2, Zenon DEF Is
  <2> QED
    BY <2>1 DEF InternalRouter
<1> QED
  BY <1>1, <1>2, <1>3, Zenon

\* The synthetic check.
LEMMA PrefixedRoutes ==
    /\ PrefixedRouter \in Seq(RouteType) /\ DOMAIN PrefixedRouter = 1 .. 1
    /\ Is(PrefixedRouter[1], "GET", "P/syntheticz", "get_syntheticz", TRUE, TRUE)
<1>1. /\ DOMAIN PrefixedRouter = 1 .. 1
      /\ PrefixedRouter[1] = Internal("P/syntheticz", "get_syntheticz")
  BY DEF PrefixedRouter
<1>2. /\ Is(PrefixedRouter[1], "GET", "P/syntheticz", "get_syntheticz", TRUE, TRUE)
  BY <1>1, RouteIs DEF Method, Path, EndpointName
<1>3. PrefixedRouter \in Seq(RouteType)
  <2>1. /\ Internal("P/syntheticz", "get_syntheticz") \in RouteType
    BY <1>1, <1>2, Zenon DEF Is
  <2> QED
    BY <2>1 DEF PrefixedRouter
<1> QED
  BY <1>1, <1>2, <1>3, Zenon

\* The documentation FastAPI adds by itself.
LEMMA DefaultRoutesAre ==
    ASSUME Setting("publish_openapi_spec")
    PROVE  /\ DefaultRoutes \in Seq(RouteType) /\ DOMAIN DefaultRoutes = 1 .. 2
           /\ Is(DefaultRoutes[1], "GET", "/openapi.json", "public_spec", FALSE, FALSE)
           /\ Is(DefaultRoutes[2], "GET", "/docs", "docs", FALSE, FALSE)
<1>1. /\ DOMAIN DefaultRoutes = 1 .. 2
      /\ DefaultRoutes[1] = Unlisted("/openapi.json", "public_spec")
      /\ DefaultRoutes[2] = Unlisted("/docs", "docs")
  BY DEF DefaultRoutes
<1>2. /\ Is(DefaultRoutes[1], "GET", "/openapi.json", "public_spec", FALSE, FALSE)
      /\ Is(DefaultRoutes[2], "GET", "/docs", "docs", FALSE, FALSE)
  BY <1>1, RouteIs DEF Method, Path, EndpointName
<1>3. DefaultRoutes \in Seq(RouteType)
  <2>1. /\ Unlisted("/openapi.json", "public_spec") \in RouteType
        /\ Unlisted("/docs", "docs") \in RouteType
    BY <1>1, <1>2, Zenon DEF Is
  <2> QED
    BY <2>1 DEF DefaultRoutes
<1> QED
  BY <1>1, <1>2, <1>3, Zenon

\* The documentation that setup_openapi() adds.
LEMMA OpenApiRoutesAre ==
    ASSUME Setting("publish_openapi_spec")
    PROVE  /\ OpenApiRoutes \in Seq(RouteType) /\ DOMAIN OpenApiRoutes = 1 .. 3
           /\ Is(OpenApiRoutes[1], "GET", "P/openapi.json", "public_spec", FALSE, FALSE)
           /\ Is(OpenApiRoutes[2], "GET", "/internal/openapi.json", "internal_spec", FALSE, FALSE)
           /\ Is(OpenApiRoutes[3], "GET", "/internal/docs", "docs", FALSE, FALSE)
<1>1. /\ DOMAIN OpenApiRoutes = 1 .. 3
      /\ OpenApiRoutes[1] = Unlisted("P/openapi.json", "public_spec")
      /\ OpenApiRoutes[2] = Unlisted("/internal/openapi.json", "internal_spec")
      /\ OpenApiRoutes[3] = Unlisted("/internal/docs", "docs")
  BY DEF OpenApiRoutes
<1>2. /\ Is(OpenApiRoutes[1], "GET", "P/openapi.json", "public_spec", FALSE, FALSE)
      /\ Is(OpenApiRoutes[2], "GET", "/internal/openapi.json", "internal_spec", FALSE, FALSE)
      /\ Is(OpenApiRoutes[3], "GET", "/internal/docs", "docs", FALSE, FALSE)
  BY <1>1, RouteIs DEF Method, Path, EndpointName
<1>3. OpenApiRoutes \in Seq(RouteType)
  <2>1. /\ Unlisted("P/openapi.json", "public_spec") \in RouteType
        /\ Unlisted("/internal/openapi.json", "internal_spec") \in RouteType
        /\ Unlisted("/internal/docs", "docs") \in RouteType
    BY <1>1, <1>2, Zenon DEF Is
  <2> QED
    BY <2>1 DEF OpenApiRoutes
<1> QED
  BY <1>1, <1>2, <1>3, Zenon

\* Nothing is published otherwise.
LEMMA Unpublished ==
    ASSUME ~Setting("publish_openapi_spec")
    PROVE  DefaultRoutes = <<>> /\ OpenApiRoutes = <<>>
BY DEF DefaultRoutes, OpenApiRoutes

\* Published or not, every part of the table is a sequence of routes.
LEMMA PartsType ==
    /\ DefaultRoutes \in Seq(RouteType) /\ OpenApiRoutes \in Seq(RouteType)
    /\ InternalRouter \in Seq(RouteType) /\ PrefixedRouter \in Seq(RouteType)
    /\ WpsRouter \in Seq(RouteType)
<1>1. <<>> \in Seq(RouteType)
  OBVIOUS
<1>2. DefaultRoutes \in Seq(RouteType) /\ OpenApiRoutes \in Seq(RouteType)
  BY <1>1, DefaultRoutesAre, OpenApiRoutesAre, Unpublished, Zenon
<1> QED
  BY <1>2, WpsRoutes, InternalRoutes, PrefixedRoutes, Zenon

\* The routes of two parts, one behind the other.
LEMMA Concatenated ==
    ASSUME NEW s \in Seq(RouteType), NEW t \in Seq(RouteType)
    PROVE  /\ s \o t \in Seq(RouteType)
           /\ Len(s) \in Nat /\ Len(t) \in Nat
           /\ DOMAIN s = 1 .. Len(s) /\ DOMAIN t = 1 .. Len(t)
           /\ DOMAIN (s \o t) = 1 .. Len(s) + Len(t)
           /\ \A i \in 1 .. Len(s) : (s \o t)[i] = s[i]
           /\ \A i \in 1 .. Len(t) : (s \o t)[Len(s) + i] = t[i]
           /\ \A i \in 1 .. Len(s) + Len(t) :
                 i \in 1 .. Len(s) \/ \E j \in 1 .. Len(t) : i = Len(s) + j
<1>1. PICK n \in Nat, m \in Nat : n = Len(s) /\ m = Len(t)
  BY LenProperties
<1>2. /\ s \o t \in Seq(RouteType) /\ Len(s \o t) = n + m
      /\ \A i \in 1 .. n + m : (s \o t)[i] = IF i <= n THEN s[i] ELSE t[i - n]
  BY <1>1, ConcatProperties
<1>3. \A i \in 1 .. n : i \in 1 .. n + m /\ i <= n
  OBVIOUS
<1>4. \A i \in 1 .. m : n + i \in 1 .. n + m /\ ~(n + i <= n) /\ (n + i) - n = i
  OBVIOUS
<1>5. ASSUME NEW i \in 1 .. n + m, i \notin 1 .. n
      PROVE  \E j \in 1 .. m : i = n + j
  <2>1. i - n \in 1 .. m /\ i = n + (i - n)
    BY <1>5
  <2> QED
    BY <2>1
<1>6. DOMAIN s = 1 .. n /\ DOMAIN t = 1 .. m /\ DOMAIN (s \o t) = 1 .. n + m
  BY <1>1, <1>2, LenProperties
<1>7. \A i \in 1 .. n : (s \o t)[i] = s[i]
  BY <1>2, <1>3
<1>8. \A i \in 1 .. m : (s \o t)[n + i] = t[i]
  BY <1>2, <1>4
<1> QED
  BY <1>1, <1>2, <1>5, <1>6, <1>7, <1>8

\* A route for a request, and the endpoint of the first one.
Hit(route, r) == Matches(route, r.path) /\ route.method = r.method
NoHit(s, r) == \A i \in DOMAIN s : ~Hit(s[i], r)
FirstHit(s, r, e) ==
    \E i \in DOMAIN s : /\ Hit(s[i], r) /\ s[i].endpoint = e
                        /\ \A j \in DOMAIN s : Hit(s[j], r) => i <= j

\* A fixed path takes itself, the drawing id any one segment.
LEMMA HitIs ==
    ASSUME NEW route, NEW r
    PROVE  /\ Hit(route, r) => r.method = route.method
           /\ Hit(route, r) /\ route.path # "P/{drawing_id}" => r.path = route.path
           /\ r.method = route.method /\ r.path = route.path => Hit(route, r)
           /\ r.method = route.method /\ route.path = "P/{drawing_id}" /\ r.path \in Segment
                => Hit(route, r)
BY DEF Hit, Matches

\* A request takes the first part of the table that has a route for it.
LEMMA FirstPart ==
    ASSUME NEW s \in Seq(RouteType), NEW t \in Seq(RouteType), NEW r, NEW e
    PROVE  /\ s \o t \in Seq(RouteType)
           /\ FirstHit(s, r, e) => FirstHit(s \o t, r, e)
           /\ NoHit(s, r) /\ FirstHit(t, r, e) => FirstHit(s \o t, r, e)
           /\ NoHit(s, r) /\ NoHit(t, r) => NoHit(s \o t, r)
<1> DEFINE n == Len(s)
           m == Len(t)
           st == s \o t
<1>1. /\ st \in Seq(RouteType) /\ n \in Nat /\ m \in Nat
      /\ DOMAIN s = 1 .. n /\ DOMAIN t = 1 .. m /\ DOMAIN st = 1 .. n + m
      /\ \A i \in 1 .. n : st[i] = s[i]
      /\ \A i \in 1 .. m : st[n + i] = t[i]
      /\ \A i \in 1 .. n + m : i \in 1 .. n \/ \E j \in 1 .. m : i = n + j
  BY Concatenated
<1> HIDE DEF n, m, st
<1>2. ASSUME FirstHit(s, r, e)
      PROVE  FirstHit(st, r, e)
  <2>1. PICK i \in 1 .. n : /\ Hit(s[i], r) /\ s[i].endpoint = e
                            /\ \A j \in 1 .. n : Hit(s[j], r) => i <= j
    BY <1>1, <1>2 DEF FirstHit
  <2>2. i \in 1 .. n + m /\ Hit(st[i], r) /\ st[i].endpoint = e
    BY <1>1, <2>1
  <2>3. ASSUME NEW k \in 1 .. n + m, Hit(st[k], r)
        PROVE  i <= k
    <3>1. CASE k \in 1 .. n
      BY <1>1, <2>1, <2>3, <3>1
    <3>2. CASE \E j \in 1 .. m : k = n + j
      BY <1>1, <3>2
    <3> QED
      BY <1>1, <3>1, <3>2
  <2> QED
    BY <1>1, <2>2, <2>3 DEF FirstHit
<1>3. ASSUME NoHit(s, r), FirstHit(t, r, e)
      PROVE  FirstHit(st, r, e)
  <2>1. PICK i \in 1 .. m : /\ Hit(t[i], r) /\ t[i].endpoint = e
                            /\ \A j \in 1 .. m : Hit(t[j], r) => i <= j
    BY <1>1, <1>3 DEF FirstHit
  <2>2. n + i \in 1 .. n + m /\ Hit(st[n + i], r) /\ st[n + i].endpoint = e
    BY <1>1, <2>1
  <2>3. ASSUME NEW k \in 1 .. n + m, Hit(st[k], r)
        PROVE  n + i <= k
    <3>1. ~(k \in 1 .. n)
      BY <1>1, <1>3, <2>3 DEF NoHit
    <3>2. PICK j \in 1 .. m : k = n + j
      BY <1>1, <3>1
    <3>3. i <= j
      BY <1>1, <2>1, <2>3, <3>2
    <3> QED
      BY <1>1, <3>2, <3>3
  <2> QED
    BY <1>1, <2>2, <2>3 DEF FirstHit
<1>4. ASSUME NoHit(s, r), NoHit(t, r)
      PROVE  NoHit(st, r)
  <2>1. ASSUME NEW i \in 1 .. n + m
        PROVE  ~Hit(st[i], r)
    <3>1. CASE i \in 1 .. n
      BY <1>1, <1>4, <3>1 DEF NoHit
    <3>2. CASE \E j \in 1 .. m : i = n + j
      BY <1>1, <1>4, <3>2 DEF NoHit
    <3> QED
      BY <1>1, <3>1, <3>2
  <2> QED
    BY <1>1, <2>1 DEF NoHit
<1> QED
  BY <1>1, <1>2, <1>3, <1>4 DEF st

\* RouteRequest goes to the first hit.
LEMMA ReachedIs ==
    ASSUME NEW e, FirstHit(routes, request, e), routes \in Seq(RouteType)
    PROVE  Reached = e
<1> DEFINE full == {i \in DOMAIN routes : /\ Matches(routes[i], request.path)
                                          /\ routes[i].method = request.method}
           least == CHOOSE i \in full : \A j \in full : i <= j
<1>1. \A j, k \in full : j \in Nat /\ k \in Nat
  <2>1. DOMAIN routes = 1 .. Len(routes) /\ Len(routes) \in Nat
    BY LenProperties
  <2> QED
    BY <2>1
<1>2. PICK i \in full : routes[i].endpoint = e /\ \A j \in full : i <= j
  BY DEF FirstHit, Hit
<1>3. Reached = IF full = {} THEN None ELSE routes[least].endpoint
  BY DEF Reached
<1> HIDE DEF full
<1>4. least \in full /\ \A j \in full : least <= j
  BY <1>2
<1> HIDE DEF least
<1>5. least = i
  <2>1. least <= i /\ i <= least /\ least \in Nat /\ i \in Nat
    BY <1>1, <1>2, <1>4
  <2> QED
    BY <2>1
<1> QED
  BY <1>2, <1>3, <1>5

\* Which part of the table has the route of a request to read something.
LEMMA TableHits ==
    ASSUME NEW r, r.method = "GET"
    PROVE  /\ Table \in Seq(RouteType)
           /\ r.path = "P/syntheticz" => FirstHit(Table, r, "get_syntheticz")
           /\ r.path = "P/openapi.json" /\ Setting("publish_openapi_spec")
                 => FirstHit(Table, r, "public_spec")
           /\ r.path \in {"P/id", "P/text"} => FirstHit(Table, r, "get_drawing")
<1>1. r.path \in {"P/syntheticz", "P/openapi.json", "P/id", "P/text"} => NoHit(DefaultRoutes, r)
  <2>1. CASE Setting("publish_openapi_spec")
    <3>1. /\ DOMAIN DefaultRoutes = 1 .. 2
          /\ DefaultRoutes[1].path = "/openapi.json" /\ DefaultRoutes[2].path = "/docs"
      BY <2>1, DefaultRoutesAre, Zenon DEF Is
    <3>2. Hit(DefaultRoutes[1], r) \/ Hit(DefaultRoutes[2], r) => r.path \in {"/openapi.json", "/docs"}
      BY <3>1, HitIs
    <3> QED
      BY <3>1, <3>2 DEF NoHit
  <2>2. CASE ~Setting("publish_openapi_spec")
    BY <2>2, Unpublished DEF NoHit
  <2> QED
    BY <2>1, <2>2
<1>2. r.path \in {"P/syntheticz", "P/id", "P/text"} => NoHit(OpenApiRoutes, r)
  <2>1. CASE Setting("publish_openapi_spec")
    <3>1. /\ DOMAIN OpenApiRoutes = 1 .. 3
          /\ OpenApiRoutes[1].path = "P/openapi.json"
          /\ OpenApiRoutes[2].path = "/internal/openapi.json"
          /\ OpenApiRoutes[3].path = "/internal/docs"
      BY <2>1, OpenApiRoutesAre, Zenon DEF Is
    <3>2. Hit(OpenApiRoutes[1], r) \/ Hit(OpenApiRoutes[2], r) \/ Hit(OpenApiRoutes[3], r)
            => r.path \in {"P/openapi.json", "/internal/openapi.json", "/internal/docs"}
      BY <3>1, HitIs
    <3> QED
      BY <3>1, <3>2 DEF NoHit
  <2>2. CASE ~Setting("publish_openapi_spec")
    BY <2>2, Unpublished DEF NoHit
  <2> QED
    BY <2>1, <2>2
<1>3. /\ r.path \in {"P/syntheticz", "P/id", "P/text"} => NoHit(InternalRouter, r)
      /\ r.path \in {"P/id", "P/text"} => NoHit(PrefixedRouter, r)
  <2>1. /\ DOMAIN InternalRouter = 1 .. 2 /\ DOMAIN PrefixedRouter = 1 .. 1
        /\ InternalRouter[1].path = "/checker" /\ InternalRouter[2].path = "/checker/ready"
        /\ PrefixedRouter[1].path = "P/syntheticz"
    BY InternalRoutes, PrefixedRoutes, Zenon DEF Is
  <2>2. /\ Hit(InternalRouter[1], r) \/ Hit(InternalRouter[2], r)
             => r.path \in {"/checker", "/checker/ready"}
        /\ Hit(PrefixedRouter[1], r) => r.path = "P/syntheticz"
    BY <2>1, HitIs
  <2> QED
    BY <2>1, <2>2 DEF NoHit
<1>4. ASSUME r.path = "P/openapi.json", Setting("publish_openapi_spec")
      PROVE  FirstHit(OpenApiRoutes, r, "public_spec")
  <2>1. /\ OpenApiRoutes[1].method = "GET" /\ OpenApiRoutes[1].path = "P/openapi.json"
        /\ OpenApiRoutes[1].endpoint = "public_spec" /\ DOMAIN OpenApiRoutes = 1 .. 3
    BY <1>4, OpenApiRoutesAre, Zenon DEF Is
  <2>2. Hit(OpenApiRoutes[1], r)
    BY <1>4, <2>1, HitIs
  <2> QED
    BY <2>1, <2>2 DEF FirstHit
<1>5. ASSUME r.path = "P/syntheticz"
      PROVE  FirstHit(PrefixedRouter, r, "get_syntheticz")
  <2>1. 1 \in 1 .. 1 /\ Hit(PrefixedRouter[1], r) /\ PrefixedRouter[1].endpoint = "get_syntheticz"
    BY <1>5, PrefixedRoutes DEF Hit, Matches, Is
  <2> QED
    BY <2>1, PrefixedRoutes DEF FirstHit
<1>6. ASSUME r.path \in {"P/id", "P/text"}
      PROVE  FirstHit(WpsRouter, r, "get_drawing")
  <2>1. 2 \in 1 .. 6 /\ Hit(WpsRouter[2], r) /\ WpsRouter[2].endpoint = "get_drawing"
    <3>1. r.path \in Segment
      BY <1>6 DEF Segment
    <3>2. /\ WpsRouter[2].method = "GET" /\ WpsRouter[2].path = "P/{drawing_id}"
          /\ WpsRouter[2].endpoint = "get_drawing"
      BY WpsRoutes, Zenon DEF Is
    <3>3. Hit(WpsRouter[2], r)
      BY <3>1, <3>2, HitIs
    <3>4. 2 \in 1 .. 6
      OBVIOUS
    <3> QED
      BY <3>2, <3>3, <3>4, Zenon
  <2>2. ~Hit(WpsRouter[1], r)
    BY WpsRoutes DEF Hit, Is
  <2>3. \A j \in 1 .. 6 : Hit(WpsRouter[j], r) => 2 <= j
    BY <2>2
  <2> QED
    BY <2>1, <2>3, WpsRoutes DEF FirstHit
<1> DEFINE published == Setting("publish_openapi_spec")
<1> HIDE DEF published
<1>7. PICK second, third : /\ second = Early \o InternalRouter /\ third = second \o PrefixedRouter
                           /\ Early = DefaultRoutes \o OpenApiRoutes /\ Table = third \o WpsRouter
  BY DEF Early, Table
<1>8. Early \in Seq(RouteType) /\ second \in Seq(RouteType) /\ third \in Seq(RouteType)
      /\ Table \in Seq(RouteType)
  BY <1>7, PartsType, FirstPart
<1>9. /\ r.path = "P/openapi.json" /\ published => FirstHit(Early, r, "public_spec")
      /\ r.path \in {"P/syntheticz", "P/id", "P/text"} => NoHit(Early, r)
  BY <1>1, <1>2, <1>4, <1>7, PartsType, FirstPart DEF published
<1>10. /\ r.path = "P/openapi.json" /\ published => FirstHit(second, r, "public_spec")
       /\ r.path \in {"P/syntheticz", "P/id", "P/text"} => NoHit(second, r)
  BY <1>3, <1>7, <1>8, <1>9, PartsType, FirstPart
<1>11. /\ r.path = "P/openapi.json" /\ published => FirstHit(third, r, "public_spec")
       /\ r.path = "P/syntheticz" => FirstHit(third, r, "get_syntheticz")
       /\ r.path \in {"P/id", "P/text"} => NoHit(third, r)
  BY <1>3, <1>5, <1>7, <1>8, <1>10, PartsType, FirstPart
<1>12. \A e : FirstHit(third, r, e) \/ (NoHit(third, r) /\ FirstHit(WpsRouter, r, e))
            => FirstHit(Table, r, e)
  BY <1>7, <1>8, PartsType, FirstPart
<1>13. r.path \in {"P/id", "P/text"} => FirstHit(WpsRouter, r, "get_drawing")
  BY <1>6
<1> QED
  BY <1>8, <1>11, <1>12, <1>13 DEF published

\* What a part of the table contributes to a specification.
Listed(route, kind) == route.listed /\ route.internal = (kind = "internal")
Contributes(s, kind) ==
    {s[i].endpoint : i \in {i \in DOMAIN s : Listed(s[i], kind)}}

\* What a route contributes depends on its two flags.
LEMMA ListedIs ==
    ASSUME NEW route, NEW m, NEW q, NEW n, NEW l \in BOOLEAN, NEW i \in BOOLEAN,
           Is(route, m, q, n, l, i), NEW kind \in {"public", "internal"}
    PROVE  /\ Listed(route, kind) <=> l /\ (i <=> kind = "internal")
           /\ route.endpoint = n
<1>1. route.listed = l /\ route.internal = i /\ route.endpoint = n
  BY Zenon DEF Is
<1> QED
  BY <1>1 DEF Listed

\* Two parts contribute what each of them does.
LEMMA ContributesBoth ==
    ASSUME NEW s \in Seq(RouteType), NEW t \in Seq(RouteType), NEW kind
    PROVE  Contributes(s \o t, kind) = Contributes(s, kind) \cup Contributes(t, kind)
<1> DEFINE n == Len(s)
           m == Len(t)
           st == s \o t
<1>1. /\ n \in Nat /\ m \in Nat
      /\ DOMAIN s = 1 .. n /\ DOMAIN t = 1 .. m /\ DOMAIN st = 1 .. n + m
      /\ \A i \in 1 .. n : st[i] = s[i]
      /\ \A i \in 1 .. m : st[n + i] = t[i]
      /\ \A i \in 1 .. n + m : i \in 1 .. n \/ \E j \in 1 .. m : i = n + j
  BY Concatenated
<1> HIDE DEF n, m, st
<1>2. \A i \in 1 .. n : i \in 1 .. n + m
  BY <1>1
<1>3. \A i \in 1 .. m : n + i \in 1 .. n + m
  BY <1>1
<1>4. Contributes(s, kind) \subseteq Contributes(st, kind)
  BY <1>1, <1>2 DEF Contributes
<1>5. Contributes(t, kind) \subseteq Contributes(st, kind)
  BY <1>1, <1>3 DEF Contributes
<1>6. Contributes(st, kind) \subseteq Contributes(s, kind) \cup Contributes(t, kind)
  <2> SUFFICES ASSUME NEW i \in 1 .. n + m, Listed(st[i], kind)
               PROVE  st[i].endpoint \in Contributes(s, kind) \cup Contributes(t, kind)
    BY <1>1 DEF Contributes
  <2>1. CASE i \in 1 .. n
    BY <1>1, <2>1 DEF Contributes
  <2>2. CASE \E j \in 1 .. m : i = n + j
    <3>1. PICK j \in 1 .. m : i = n + j
      BY <2>2
    <3>2. Listed(t[j], kind) /\ st[i] = t[j]
      BY <1>1, <3>1
    <3>3. t[j].endpoint \in Contributes(t, kind)
      BY <1>1, <3>2 DEF Contributes
    <3> QED
      BY <3>2, <3>3
  <2> QED
    BY <1>1, <2>1, <2>2
<1> QED
  BY <1>4, <1>5, <1>6 DEF st

\* From the whole table the drawings operations are listed in one specification
\* and the health routes in the other.
LEMMA BuildIs ==
    ASSUME routes = Table
    PROVE  Build("public") = WpsEndpoints /\ Build("internal") = HealthEndpoints
<1>1. ASSUME NEW kind \in {"public", "internal"}
      PROVE  Contributes(DefaultRoutes, kind) = {} /\ Contributes(OpenApiRoutes, kind) = {}
  <2>1. ASSUME Setting("publish_openapi_spec")
        PROVE  /\ DOMAIN DefaultRoutes = 1 .. 2 /\ DOMAIN OpenApiRoutes = 1 .. 3
               /\ ~Listed(DefaultRoutes[1], kind) /\ ~Listed(DefaultRoutes[2], kind)
               /\ ~Listed(OpenApiRoutes[1], kind) /\ ~Listed(OpenApiRoutes[2], kind)
               /\ ~Listed(OpenApiRoutes[3], kind)
    <3>1. /\ DOMAIN DefaultRoutes = 1 .. 2 /\ DOMAIN OpenApiRoutes = 1 .. 3
          /\ DefaultRoutes[1].listed = FALSE /\ DefaultRoutes[2].listed = FALSE
          /\ OpenApiRoutes[1].listed = FALSE /\ OpenApiRoutes[2].listed = FALSE
          /\ OpenApiRoutes[3].listed = FALSE
      BY <2>1, DefaultRoutesAre, OpenApiRoutesAre, Zenon DEF Is
    <3> QED
      BY <3>1 DEF Listed
  <2> QED
    BY <2>1, Unpublished DEF Contributes
<1>2. /\ DOMAIN InternalRouter = 1 .. 2
      /\ ~Listed(InternalRouter[1], "public") /\ ~Listed(InternalRouter[2], "public")
      /\ Listed(InternalRouter[1], "internal") /\ Listed(InternalRouter[2], "internal")
      /\ InternalRouter[1].endpoint = "get_checker"
      /\ InternalRouter[2].endpoint = "get_checker_ready"
  BY InternalRoutes, ListedIs
<1>3. /\ DOMAIN PrefixedRouter = 1 .. 1
      /\ ~Listed(PrefixedRouter[1], "public") /\ Listed(PrefixedRouter[1], "internal")
      /\ PrefixedRouter[1].endpoint = "get_syntheticz"
  BY PrefixedRoutes, ListedIs
<1>4. ASSUME NEW i \in DOMAIN WpsRouter
      PROVE  Listed(WpsRouter[i], "public") /\ ~Listed(WpsRouter[i], "internal")
  <2>1. \A k \in 1 .. 6 : k = 1 \/ k = 2 \/ k = 3 \/ k = 4 \/ k = 5 \/ k = 6
    OBVIOUS
  <2>2. \A k \in {1, 2, 3, 4, 5, 6} :
           Listed(WpsRouter[k], "public") /\ ~Listed(WpsRouter[k], "internal")
    BY WpsRoutes, ListedIs
  <2> QED
    BY <2>1, <2>2, WpsRoutes
<1>5. /\ Contributes(InternalRouter, "public") = {} /\ Contributes(PrefixedRouter, "public") = {}
      /\ Contributes(WpsRouter, "internal") = {} /\ Contributes(WpsRouter, "public") = WpsEndpoints
      /\ Contributes(InternalRouter, "internal") = {"get_checker", "get_checker_ready"}
      /\ Contributes(PrefixedRouter, "internal") = {"get_syntheticz"}
  <2>1. Contributes(InternalRouter, "public") = {} /\ Contributes(PrefixedRouter, "public") = {}
    BY <1>2, <1>3 DEF Contributes
  <2>2. Contributes(WpsRouter, "internal") = {} /\ Contributes(WpsRouter, "public") = WpsEndpoints
    BY <1>4 DEF Contributes, WpsEndpoints
  <2>3. Contributes(InternalRouter, "internal") = {"get_checker", "get_checker_ready"}
    BY <1>2 DEF Contributes
  <2>4. Contributes(PrefixedRouter, "internal") = {"get_syntheticz"}
    BY <1>3 DEF Contributes
  <2> QED
    BY <2>1, <2>2, <2>3, <2>4
<1> DEFINE second == Early \o InternalRouter
           third == second \o PrefixedRouter
<1>6. Early = DefaultRoutes \o OpenApiRoutes /\ Table = third \o WpsRouter
  BY DEF Early, Table
<1>7. Early \in Seq(RouteType) /\ second \in Seq(RouteType) /\ third \in Seq(RouteType)
  BY <1>6, PartsType, FirstPart
<1> HIDE DEF second, third
<1>8. ASSUME NEW kind
      PROVE  Build(kind) = ((((Contributes(DefaultRoutes, kind) \cup Contributes(OpenApiRoutes, kind))
                              \cup Contributes(InternalRouter, kind))
                             \cup Contributes(PrefixedRouter, kind))
                            \cup Contributes(WpsRouter, kind))
  <2>1. Build(kind) = Contributes(Table, kind)
    BY Zenon DEF Build, Contributes, Listed
  <2> QED
    <3>1. Contributes(third \o WpsRouter, kind)
            = Contributes(third, kind) \cup Contributes(WpsRouter, kind)
      BY <1>7, PartsType, ContributesBoth
    <3>2. Contributes(second \o PrefixedRouter, kind)
            = Contributes(second, kind) \cup Contributes(PrefixedRouter, kind)
      BY <1>7, PartsType, ContributesBoth
    <3>3. Contributes(Early \o InternalRouter, kind)
            = Contributes(Early, kind) \cup Contributes(InternalRouter, kind)
      BY <1>7, PartsType, ContributesBoth
    <3>4. Contributes(DefaultRoutes \o OpenApiRoutes, kind)
            = Contributes(DefaultRoutes, kind) \cup Contributes(OpenApiRoutes, kind)
      BY PartsType, ContributesBoth
    <3> QED
      BY <1>6, <2>1, <3>1, <3>2, <3>3, <3>4 DEF second, third
<1> QED
  BY <1>1, <1>5, <1>8 DEF HealthEndpoints

-------------------------------------------------------------------------------
(* The states of the specification.                                        *)

\* The inductive invariant.
RInv == AInv /\ TypeOK /\ RoutesOK /\ SpecsOK /\ OwnEndpoint

\* The table depends on the settings only, which no step changes.
LEMMA SameTable ==
    ASSUME env' = env
    PROVE  /\ Table' = Table /\ Early' = Early
           /\ \A field : Setting(field)' = Setting(field)
<1>1. \A field : Setting(field)' = Setting(field)
  BY SameSettings
<1>2. DefaultRoutes' = DefaultRoutes /\ OpenApiRoutes' = OpenApiRoutes
  BY <1>1 DEF DefaultRoutes, OpenApiRoutes, Unlisted, Route
<1> QED
  BY <1>1, <1>2
     DEF Table, Early, InternalRouter, PrefixedRouter, WpsRouter, Route, Internal

\* The set-up registers the routes, in two steps, before anything is served.
LEMMA SetupRouting ==
    ASSUME RInv, SetupNext
    PROVE  /\ RoutesOK' /\ UNCHANGED specs
           /\ stage' \in Stage /\ handlers' \subseteq Exception /\ session' \in BOOLEAN
<1>1. env' = env
  BY SetupSetUp DEF RInv
<1>2. Table' = Table /\ Early' = Early
  BY <1>1, SameTable
<1> USE DEF RInv, RoutesOK, TypeOK, SetupStep, appvars, Stage
<1>3. CASE ImportOtel
  BY <1>3 DEF ImportOtel
<1>4. CASE ConfigureLogging
  BY <1>4 DEF ConfigureLogging
<1>5. CASE CreateApp
  BY <1>2, <1>5 DEF CreateApp, Early
<1>6. CASE RegisterHandlers
  BY <1>2, <1>6 DEF RegisterHandlers, Exception
<1>7. CASE AddMiddlewares
  BY <1>2, <1>7 DEF AddMiddlewares
<1>8. CASE IncludeRouters
  <2>1. routes' = routes \o InternalRouter \o PrefixedRouter \o WpsRouter /\ routes = Early
    BY <1>8 DEF IncludeRouters
  <2>2. routes' = Table
    BY <2>1, Zenon DEF Table
  <2> QED
    BY <1>2, <1>8, <2>2 DEF IncludeRouters
<1>9. CASE Instrument
  BY <1>2, <1>9 DEF Instrument
<1>10. CASE Startup
  BY <1>2, <1>10 DEF Startup
<1> QED
  BY <1>3, <1>4, <1>5, <1>6, <1>7, <1>8, <1>9, <1>10 DEF SetupNext

\* No later step touches the routes or the settings.
LEMMA KeptRouting ==
    ASSUME RInv, env' = env, UNCHANGED <<routes, handlers, session>>,
           stage' = stage \/ stage' \in {"closing", "stopped"}
    PROVE  /\ RoutesOK'
           /\ stage' \in Stage /\ handlers' \subseteq Exception /\ session' \in BOOLEAN
<1>1. Table' = Table /\ Early' = Early
  BY SameTable
<1> QED
  BY <1>1 DEF RInv, RoutesOK, TypeOK, Stage

-------------------------------------------------------------------------------
(* What a request has met and its answer.                                  *)

\* What the types say of a request under way, apart from the request itself.
Local ==
    /\ layer \in 0..2
    /\ body \in BOOLEAN
    /\ bucket \in HeadBucket \cup {None}
    /\ answer \in Reply \cup {None}

\* Every answer is a reply.
LEMMA AnswerType ==
    ASSUME handlers \subseteq Documented
    PROVE
    /\ \A status \in Nat,
          kind \in {"ok", "preflight", "detail", "validation", "aborted", "up", "down"} :
          Answer(status, kind) => answer' \in Reply
    /\ PlainError => answer' \in Reply
    /\ \A exception \in Exception : Raise(exception) => answer' \in Reply
<1>1. ASSUME NEW status \in Nat,
             NEW kind \in {"ok", "preflight", "detail", "validation", "aborted", "up", "down"},
             Answer(status, kind)
      PROVE  answer' \in Reply
  <2> DEFINE cors == Entered("cors") /\ Allowed(request.origin)
  <2>1. answer' = [status |-> status, kind |-> kind, cors |-> cors]
    BY <1>1 DEF Answer
  <2>2. cors \in BOOLEAN
    OBVIOUS
  <2> HIDE DEF cors
  <2> QED
    BY <2>1, <2>2 DEF Reply
<1>2. ASSUME PlainError
      PROVE  answer' \in Reply
  BY <1>2 DEF PlainError, Reply
<1>3. ASSUME NEW exception \in Exception, Raise(exception)
      PROVE  answer' \in Reply
  <2>1. CASE exception \in handlers
    <3>1. PICK status \in {400, 401, 403, 404, 500} : Answer(status, "detail")
      BY <1>3, <2>1 DEF Raise, Documented
    <3> QED
      BY <1>1, <3>1
  <2>2. CASE exception \notin handlers
    BY <1>2, <1>3, <2>2 DEF Raise
  <2> QED
    BY <2>1, <2>2
<1> QED
  BY <1>1, <1>2, <1>3

\* What an action of a request does to it, apart from its answer.
LEMMA EndpointLocal ==
    ASSUME RInv, NEW endpoints, EndpointStep(endpoints), UNCHANGED bucket, answer' \in Reply
    PROVE  Local' /\ UNCHANGED <<request, endpoint>> /\ KeepProcess
BY DEF EndpointStep, Local, RInv, TypeOK

\* Every step of a request keeps these types.
LEMMA RequestLocal ==
    ASSUME RInv, RequestNext
    PROVE  Local'
<1>1. Local /\ (Serving => handlers = Documented)
  BY DEF RInv, TypeOK, AInv, SetUpOK, Serving, Local
<1>2. Serving => handlers \subseteq Documented
  BY <1>1
<1>3. ASSUME NEW r \in Requests, Arrive(r)
      PROVE  Local'
  <2>1. layer' = 0 /\ body' = FALSE /\ bucket' = None /\ answer' = answer
    BY <1>3 DEF Arrive
  <2>2. layer' \in 0..2
    BY <2>1
  <2>3. body' \in BOOLEAN
    BY <2>1, Zenon
  <2> QED
    BY <1>1, <2>1, <2>2, <2>3 DEF Local
<1>4. CASE Cors \/ BodySize
  <2>1. Serving /\ layer + 1 \in 0..2 /\ UNCHANGED <<body, bucket>>
    <3>1. layers = Order /\ Len(Order) = 2
      BY <1>4 DEF RInv, AInv, SetUpOK, Cors, BodySize, At, Serving, Order
    <3> QED
      BY <1>1, <1>4, <3>1 DEF Cors, BodySize, At, LayerStep, Local
  <2>2. \/ layer' = layer + 1 /\ UNCHANGED answer
        \/ /\ UNCHANGED layer
           /\ \E status \in Nat, kind \in {"preflight", "detail"} : Answer(status, kind)
    BY <1>4 DEF Cors, BodySize, LayerStep
  <2>3. answer' \in Reply \cup {None} /\ layer' \in 0..2
    BY <1>1, <1>2, <2>1, <2>2, AnswerType DEF Local
  <2> QED
    BY <1>1, <2>1, <2>3 DEF Local
<1>5. CASE RouteRequest
  <2>1. Serving /\ UNCHANGED <<layer, bucket>> /\ body' \in BOOLEAN
    BY <1>5 DEF RouteRequest, Inside
  <2>2. UNCHANGED answer \/ \E status \in Nat : Answer(status, "detail")
    BY <1>5 DEF RouteRequest
  <2>3. answer' \in Reply \cup {None}
    BY <1>1, <1>2, <2>1, <2>2, AnswerType DEF Local
  <2> QED
    BY <1>1, <2>1, <2>3 DEF Local
<1>6. CASE RequireCredentials
  <2>1. /\ EndpointStep(NeedsAdmin) /\ UNCHANGED bucket /\ Serving
        /\ Raise("MissingCredentialsError")
    BY <1>6 DEF RequireCredentials, EndpointStep, Inside
  <2>2. answer' \in Reply
    BY <1>2, <2>1, AnswerType DEF Exception, Documented
  <2> QED
    BY <2>1, <2>2, EndpointLocal
<1>7. CASE RejectParameters \/ Checker \/ ServeSpec("public") \/ ServeSpec("internal")
  <2>1. PICK endpoints : EndpointStep(endpoints) /\ UNCHANGED bucket /\ Serving
    BY <1>7 DEF RejectParameters, Checker, ServeSpec, EndpointStep, Inside
  <2>2. \E status \in Nat, kind \in {"ok", "validation"} : Answer(status, kind)
    BY <1>7 DEF RejectParameters, Checker, ServeSpec
  <2>3. answer' \in Reply
    BY <1>2, <2>1, <2>2, AnswerType
  <2> QED
    BY <2>1, <2>3, EndpointLocal
<1>8. CASE Drawings
  <2>1. EndpointStep(WpsEndpoints) /\ UNCHANGED bucket /\ Serving
    BY <1>8 DEF Drawings, EndpointStep, Inside
  <2>2. Success(endpoint) \in Nat /\ "AttributeError" \in Exception
    BY DEF Success, Exception, Undocumented
  <2>3. \A exception \in Raises(endpoint) : exception \in Exception
    BY RaisesIs
  <2>4. \/ \E kind \in {"ok", "aborted"} : Answer(Success(endpoint), kind)
        \/ \E exception \in Exception : Raise(exception)
    BY <1>8, <2>2, <2>3 DEF Drawings, BreakOff
  <2>5. answer' \in Reply
    BY <1>2, <2>1, <2>2, <2>4, AnswerType
  <2> QED
    BY <2>1, <2>5, EndpointLocal
<1>9. CASE Syntheticz
  <2>1. Serving /\ UNCHANGED <<layer, body>> /\ bucket' \in HeadBucket
    BY <1>9 DEF Syntheticz, EndpointStep, Inside
  <2>2. \/ \E exception \in Exception : Raise(exception)
        \/ \E status \in Nat, kind \in {"up", "down"} : Answer(status, kind)
    BY <1>9 DEF Syntheticz, Exception, Undocumented
  <2>3. answer' \in Reply
    BY <1>2, <2>1, <2>2, AnswerType
  <2> QED
    BY <1>1, <2>1, <2>3 DEF Local
<1>10. CASE Leave
  BY <1>1, <1>10 DEF Leave, Local
<1> QED
  BY <1>3, <1>4, <1>5, <1>6, <1>7, <1>8, <1>9, <1>10 DEF RequestNext

-------------------------------------------------------------------------------
(* The endpoint a request reaches.                                         *)

\* Routing is the only step that finds an endpoint, and the others keep it
\* together with the request, or leave one of them out.
LEMMA RequestOwn ==
    ASSUME RInv, RequestNext
    PROVE  OwnEndpoint'
<1>1. env' = env
  BY DEF RequestNext, Arrive, Cors, BodySize, LayerStep, RouteRequest, RequireCredentials,
         RejectParameters, Drawings, Checker, Syntheticz, ServeSpec, EndpointStep, KeepProcess,
         Leave, Record, otelvars
<1>2. Setting("publish_openapi_spec")' = Setting("publish_openapi_spec")
  BY <1>1, SameSettings
<1>3. CASE RouteRequest
  <2>1. endpoint' = Reached /\ request' = request /\ routes = Table
    BY <1>3 DEF RouteRequest, RInv, RoutesOK, Inside, Serving
  <2>2. ASSUME request.method = "GET"
        PROVE  /\ request.path = "P/syntheticz" => Reached = "get_syntheticz"
               /\ request.path = "P/openapi.json" /\ Setting("publish_openapi_spec")
                     => Reached = "public_spec"
               /\ request.path \in {"P/id", "P/text"} => Reached = "get_drawing"
    <3>1. /\ routes \in Seq(RouteType)
          /\ request.path = "P/syntheticz" => FirstHit(routes, request, "get_syntheticz")
          /\ request.path = "P/openapi.json" /\ Setting("publish_openapi_spec")
                => FirstHit(routes, request, "public_spec")
          /\ request.path \in {"P/id", "P/text"} => FirstHit(routes, request, "get_drawing")
      BY <2>1, <2>2, TableHits
    <3>2. \A e : FirstHit(routes, request, e) => Reached = e
      BY <3>1, ReachedIs
    <3> QED
      BY <3>1, <3>2
  <2> QED
    BY <1>2, <2>1, <2>2 DEF OwnEndpoint
<1>4. CASE (\E r \in Requests : Arrive(r)) \/ Leave
  BY <1>4 DEF Arrive, Leave, OwnEndpoint
<1>5. CASE \/ Cors \/ BodySize \/ RequireCredentials \/ RejectParameters
           \/ Drawings \/ Checker \/ Syntheticz \/ ServeSpec("public") \/ ServeSpec("internal")
  <2>1. UNCHANGED <<request, endpoint>>
    BY <1>5 DEF Cors, BodySize, LayerStep, RequireCredentials, RejectParameters, Drawings,
                Checker, Syntheticz, ServeSpec, EndpointStep
  <2> QED
    BY <1>2, <2>1 DEF RInv, OwnEndpoint
<1> QED
  BY <1>3, <1>4, <1>5 DEF RequestNext

-------------------------------------------------------------------------------
(* The cached specifications.                                              *)

\* A specification is built from the whole table, as no request is served
\* before all routers are included, and never again.
LEMMA RequestSpecs ==
    ASSUME RInv, RequestNext
    PROVE  SpecsOK'
<1>1. ASSUME NEW kind \in {"public", "internal"}, ServeSpec(kind)
      PROVE  SpecsOK'
  <2>1. routes = Table
    BY <1>1 DEF ServeSpec, EndpointStep, Inside, Serving, RInv, RoutesOK
  <2>2. Build("public") = WpsEndpoints /\ Build("internal") = HealthEndpoints
    BY <2>1, BuildIs
  <2>3. /\ specs \in [public : {None, WpsEndpoints}, internal : {None, HealthEndpoints}]
        /\ specs' = [specs EXCEPT ![kind] = IF @ = None THEN Build(kind) ELSE @]
    BY <1>1 DEF ServeSpec, RInv, SpecsOK
  <2>4. specs' = [specs EXCEPT ![kind] = IF specs[kind] = None THEN Build(kind) ELSE specs[kind]]
    BY <2>3
  <2>5. PICK w, h : w = WpsEndpoints /\ h = HealthEndpoints
    OBVIOUS
  <2>6. specs' \in [public : {None, w}, internal : {None, h}]
    BY <2>2, <2>3, <2>4, <2>5
  <2>7. WpsEndpoints' = w /\ HealthEndpoints' = h
    BY <2>5 DEF WpsEndpoints, WpsRouter, Route, HealthEndpoints
  <2> QED
    BY <2>6, <2>7 DEF SpecsOK
<1>2. CASE \/ \E r \in Requests : Arrive(r)
           \/ Cors \/ BodySize \/ RouteRequest \/ RequireCredentials \/ RejectParameters
           \/ Drawings \/ Checker \/ Syntheticz \/ Leave
  <2>1. UNCHANGED specs
    BY <1>2 DEF Arrive, Cors, BodySize, LayerStep, RouteRequest, RequireCredentials,
                RejectParameters, Drawings, Checker, Syntheticz, Leave, appvars
  <2> QED
    BY <2>1 DEF RInv, SpecsOK, WpsEndpoints, WpsRouter, Route, HealthEndpoints
<1> QED
  BY <1>1, <1>2 DEF RequestNext

-------------------------------------------------------------------------------
(* The invariant.                                                          *)

\* A process starts with no routes and no specifications.
LEMMA InitRInv == Init => RInv
<1> SUFFICES ASSUME Init
             PROVE  RInv
  OBVIOUS
<1>1. AInv
  BY InitAInv
<1>2. TypeOK
  <2>1. /\ stage \in Stage /\ handlers \subseteq Exception /\ request = None
        /\ layer \in 0..2 /\ bucket = None /\ answer = None /\ layers = <<>> /\ closing = <<>>
    BY DEF Init, Stage
  <2>2. session \in BOOLEAN /\ body \in BOOLEAN
    BY Zenon DEF Init
  <2>3. OtelTypeOK
    BY <1>1 DEF AInv, TelemetryOK
  <2> QED
    BY <2>1, <2>2, <2>3 DEF TypeOK
<1> QED
  BY <1>1, <1>2 DEF Init, RInv, RoutesOK, SpecsOK, OwnEndpoint

\* What the invariant of ApplicationProofs leaves to be shown for the types.
LEMMA TypesOf ==
    ASSUME AInv', Local', stage' \in Stage, handlers' \subseteq Exception, session' \in BOOLEAN
    PROVE  TypeOK'
BY DEF AInv, SetUpOK, RequestOK, TelemetryOK, Local, Order, TypeOK

\* Every step keeps the invariant.
LEMMA NextRInv == RInv /\ [Next]_vars => RInv'
<1> SUFFICES ASSUME RInv, [Next]_vars
             PROVE  RInv'
  OBVIOUS
<1>1. AInv'
  BY NextAInv DEF RInv
<1>2. /\ RoutesOK' /\ SpecsOK' /\ OwnEndpoint' /\ Local'
      /\ stage' \in Stage /\ handlers' \subseteq Exception /\ session' \in BOOLEAN
  <2>1. CASE SetupNext
    <3>1. UNCHANGED <<requestvars, env, specs>> /\ request = None
      BY <2>1, SetupRouting, SetupSetUp DEF RInv
    <3> QED
      BY <2>1, <3>1, SetupRouting
         DEF RInv, TypeOK, Local, SpecsOK, OwnEndpoint, requestvars, WpsEndpoints, WpsRouter,
             Route, HealthEndpoints
  <2>2. CASE RequestNext
    <3>1. UNCHANGED <<stage, routes, handlers, session, env>>
      BY <2>2 DEF RequestNext, Arrive, Cors, BodySize, LayerStep, RouteRequest,
                  RequireCredentials, RejectParameters, Drawings, Checker, Syntheticz, ServeSpec,
                  EndpointStep, KeepProcess, Leave, Record, otelvars, appvars
    <3> QED
      BY <2>2, <3>1, KeptRouting, RequestLocal, RequestOwn, RequestSpecs
  <2>3. CASE \/ StopServing \/ ShutdownProvider \/ Stopped \/ BackgroundExport \/ Ended
             \/ UNCHANGED vars
    <3>1. /\ UNCHANGED <<appvars, requestvars, env>>
          /\ stage' = stage \/ stage' \in {"closing", "stopped"}
      BY <2>3 DEF StopServing, ShutdownProvider, ShutDown, ShutdownRaises, Record, Stopped,
                  BackgroundExport, Export, Ended, vars, otelvars
    <3>2. Setting("publish_openapi_spec")' = Setting("publish_openapi_spec")
      BY <3>1, SameSettings
    <3>3. /\ RoutesOK' /\ stage' \in Stage /\ handlers' \subseteq Exception
          /\ session' \in BOOLEAN
      BY <3>1, KeptRouting DEF appvars
    <3> QED
      BY <3>1, <3>2, <3>3
         DEF RInv, TypeOK, Local, SpecsOK, OwnEndpoint, appvars, requestvars, WpsEndpoints,
             WpsRouter, Route, HealthEndpoints
  <2> QED
    BY <2>1, <2>2, <2>3 DEF Next
<1>3. TypeOK'
  BY <1>1, <1>2, TypesOf
<1> QED
  BY <1>1, <1>2, <1>3 DEF RInv

-------------------------------------------------------------------------------

\* The route table stands as main.py has built it by then, at every stage.
THEOREM RoutingInductive == Spec => []RInv
BY InitRInv, NextRInv, PTL DEF Spec

\* Every variable of the process keeps its type.
THEOREM TypeCorrect == Spec => []TypeOK
<1>1. RInv => TypeOK
  BY DEF RInv
<1> QED
  BY RoutingInductive, <1>1, PTL

\* The drawing routes take no fixed URL below the prefix: include_router()
\* and setup_openapi() register those first.
THEOREM OwnEndpointCorrect == Spec => []OwnEndpoint
<1>1. RInv => OwnEndpoint
  BY DEF RInv
<1> QED
  BY RoutingInductive, <1>1, PTL

\* A specification, once cached, is the one README.md describes: it is built
\* when the first request asks for it, after every router is included.
THEOREM SpecsCorrect == Spec => []SpecsAsDocumented
<1>1. RInv => SpecsAsDocumented
  BY DEF RInv, SpecsOK, SpecsAsDocumented, HealthEndpoints
<1> QED
  BY RoutingInductive, <1>1, PTL
================================================================================
