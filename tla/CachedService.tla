----------------------------- MODULE CachedService -----------------------------
(***************************************************************************)
(* The drawings API behind a shared HTTP cache (external) that knows no    *)
(* more than the URL of a GET request: not the Swissgeo-Admin-Id header,   *)
(* which no answer names in a Vary header. Such a cache may serve again    *)
(* whatever answer it was not forbidden to keep, at any later time; only   *)
(* Cache-Control: no-store forbids it. Several caches, and what they evict *)
(* or expire, need no state: which of the earlier answers is served, if    *)
(* any, is left open.                                                      *)
(***************************************************************************)
EXTENDS DrawingsRequirements

\* The GET requests among the operations.
Readable == {"get", "metadata", "check"}

BadHandlerNoStore(a) == a.status = 401

\* The exception handlers set no-store on two answers,
HandlerNoStore(a) == a.status \in {401, 403}

BadEndpointNoStore(op, a) == op = "check" /\ a.status = 204

\* and the endpoints on those that they give themselves.
EndpointNoStore(op, a) ==
    \/ op \in {"get", "metadata"} /\ a.status = 200
    \/ op = "check" /\ a.status = 204

\* A cache may keep any other answer, errors included (as CloudFront does).
\* A download that was cut off counts as incomplete.
Cacheable(op, a) ==
    /\ op \in Readable
    /\ a.kind # "aborted"
    /\ ~HandlerNoStore(a) /\ ~EndpointNoStore(op, a)

\* What a cache may hold for a GET request of URL (op, d).
Cached(op, d) ==
    {answer[q] : q \in {q \in Answered : /\ input[q].op = op /\ input[q].drawing = d
                                         /\ Cacheable(op, answer[q])}}

\* The request never reaches the service: it gets an earlier answer.
ServeCached(r) ==
    /\ pc[r] = "idle"
    /\ \E i \in Requests : \E a \in Cached(i.op, i.drawing) :
         /\ input' = [input EXCEPT ![r] = i]
         /\ Reply(r, a)
    /\ before' = [before EXCEPT ![r] = Answered]
    /\ NoCall
    /\ UNCHANGED <<existing, clock, birth>>

CachedNext == Next \/ \E r \in Request : ServeCached(r)

CachedSpec == Init /\ [][CachedNext]_vars

-------------------------------------------------------------------------------
(* Properties.                                                             *)

\* README.md:159, a cache "can never replay one caller's answer to another":
\* whoever asks whether an admin id grants write access is told so exactly
\* if its own id does, is refused only if its own id does not, and is asked
\* for credentials only if it sent none.
AuthAnswersOwn ==
    \A r \in Request :
        input[r] # None /\ input[r].op = "check" /\ answer[r] # None =>
            LET holder == birth[input[r].drawing] # None /\
                          input[r].admin = birth[input[r].drawing].admin
            IN  /\ answer[r].status = 204 => input[r].admin # None /\ holder
                /\ answer[r].status = 403 => input[r].admin # None /\ ~holder
                /\ answer[r].status = 401 => input[r].admin = None
===============================================================================
