------------------------------- MODULE Gateway -------------------------------
(***************************************************************************)
(* The request path of the API process: the routers and the layers that    *)
(* build_app (api/src/lib.rs) puts around every handler, outermost first:  *)
(*                                                                         *)
(*   panic catcher > request id > trace > timeout > request metrics >      *)
(*   tip headers > [auth > rate limit | session] > handler                 *)
(*                                                                         *)
(* A request descends one layer at a time (each layer awaits something);   *)
(* an answer made at any depth passes back up through the layers above it  *)
(* without another await, so the way up is one step.  The timeout and the  *)
(* panic catcher make their answers outside the metrics layer.             *)
(***************************************************************************)
EXTENDS Naturals, Sequences, FiniteSets, Null

CONSTANTS Slots,          \* requests in flight at once
          MaxRequests     \* bound: requests received in a behaviour

ASSUME GatewayConstants == MaxRequests \in Nat /\ IsFiniteSet(Slots)

VARIABLES manager,     \* has build_redis_manager returned a connection manager
          failOpen,    \* api_rate_limit_fail_open
          request,     \* the request in each slot, NULL when it is free
          answer,      \* the answer each slot's client still has to take, or NULL
          received,    \* requests received so far
          total,       \* api_requests_total, per status
          decisions,   \* api_rate_limit_decisions_total, per outcome
          pushing,     \* detached tasks pushing a log entry, per status
          logged       \* entries pushed to the request log, per status

requestVars == <<request, answer, received, total, decisions, pushing,
                 logged>>

-----------------------------------------------------------------------------
(* What a client is told: a status.  The properties tell the refusals of   *)
(* the layers apart from each other and from what a handler answers: 200   *)
(* stands for every success (101, 200, 201, 204, 303), 400 for every       *)
(* rejection the framework makes without an envelope: of a path, a query,  *)
(* a body, a method or a WebSocket upgrade (400, 405, 413, 415, 422, 426). *)

Status == [not_found |-> 404, bad_request |-> 400, invalid_cursor |-> 400,
           unauthorized |-> 401, rate_limited |-> 429,
           upstream_unavailable |-> 503, internal |-> 500]

\* ApiError::into_response: every error has its status.
IntoResponse(code) == Status[code]

Errors(codes) == {IntoResponse(c) : c \in codes}

TIMEOUT_STATUS == 408

-----------------------------------------------------------------------------
(* The routers.  A route is reached through its router's layers; a path    *)
(* no router knows goes to the fallback of the REST router.  Routes whose  *)
(* handlers answer alike are one route here: "public" is /v1/health,       *)
(* /v1/health/ready, /v1/openapi.json, /metrics and /v1/stats; "indexed"   *)
(* is /v1/blocks/latest, /v1/blocks/:number and /v1/cells; "/admin" is     *)
(* everything behind a session.                                            *)

Public == {"public"}
Rest == {"indexed", "/v1/proofs", "fallback"}
Graphql == {"/graphql"}
AdminPublic == {"/admin/oauth"}
Admin == {"/admin"}
Routes == Public \union Rest \union Graphql \union AdminPublic \union Admin

\* The data the service sells: what it indexed and what it reads from a node.
DataRoutes == {"indexed", "/v1/proofs", "/graphql"}

\* What a handler with an extractor answers: what it is for, or a rejection.
Extracted == {200, 400}

\* The statuses a route's handler makes while what it depends on works.
Handles(route) ==
  CASE route \in {"public", "/graphql"} -> Extracted
    [] route = "indexed"
         -> Extracted \union Errors({"not_found", "bad_request", "invalid_cursor"})
    [] route = "/v1/proofs"
         -> Extracted \union Errors({"not_found", "bad_request",
                                     "upstream_unavailable"})
    [] route = "fallback" -> Errors({"not_found"})
    [] route = "/admin/oauth"
         -> Extracted \union Errors({"bad_request", "unauthorized",
                                     "upstream_unavailable"})
    [] route = "/admin" -> Extracted \union Errors({"not_found", "bad_request"})

\* The statuses a handler makes of a failing database (From<sqlx::Error> and
\* From<DbError>: "internal"), node, Redis or GitHub.  Readiness reports it
\* in its own body, GraphQL among the errors of a 200; the fallback calls
\* nothing that can fail.
FailureReplies(route) ==
  CASE route \in {"indexed", "/admin"} -> Errors({"internal"})
    [] route \in {"/v1/proofs", "/admin/oauth"}
         -> Errors({"internal", "upstream_unavailable"})
    [] route = "public" -> {503}
    [] route = "/graphql" -> {200}
    [] route = "fallback" -> {}

\* mutant: the two layers added in the order they are meant to run
Layers_LimitFirst(route) ==
  CASE route \in Rest \union Graphql -> <<"limit", "auth">>
    [] route \in Admin -> <<"session">>
    [] OTHER -> <<>>

\* The layer added last runs first: auth, then the rate limiter.
Layers(route) ==
  CASE route \in Rest \union Graphql -> <<"auth", "limit">>
    [] route \in Admin -> <<"session">>
    [] OTHER -> <<>>

Statuses == {200, 400, 401, 404, 408, 429, 500, 503}
Outcomes == {"allowed", "limited", "fail_open", "fail_closed"}

-----------------------------------------------------------------------------
(* A request in flight: its route, the layers still ahead of it, and what  *)
(* the auth layer behind it has attached: the key.                         *)
(* "failed" is history: something the request depends on failed.           *)

Request == [route : Routes, ahead : Seq({"auth", "limit", "session"}),
            key : BOOLEAN, failed : BOOLEAN]

\* What a client gets.
Answer == [status : Statuses, route : Routes, key : BOOLEAN, failed : BOOLEAN]

RequestInit ==
  /\ request = [r \in Slots |-> NULL]
  /\ answer = [r \in Slots |-> NULL]
  /\ received = 0
  /\ total = [s \in Statuses |-> 0]
  /\ decisions = [o \in Outcomes |-> 0]
  /\ pushing = [s \in Statuses |-> 0]
  /\ logged = [s \in Statuses |-> 0]

InFlight(r) == request[r] # NULL
Sending(r) == answer[r] # NULL
AtLayer(r, layer) == /\ InFlight(r)
                     /\ request[r].ahead # <<>>
                     /\ Head(request[r].ahead) = layer
AtHandler(r) == InFlight(r) /\ request[r].ahead = <<>>

Incremented(f, x) == [f EXCEPT ![x] = @ + 1]

\* SetRequestId, the trace span and the metrics clock: the way in has no
\* await before the first layer of the route's own router.
Receive(r, route) ==
  /\ ~InFlight(r) /\ ~Sending(r) /\ received < MaxRequests
  /\ received' = received + 1
  /\ request' = [request EXCEPT ![r] =
                   [route |-> route, ahead |-> Layers(route), key |-> FALSE,
                    failed |-> FALSE]]
  /\ UNCHANGED <<answer, total, decisions, pushing, logged>>

\* mutant: the metrics layer put inside the auth and rate-limit layers
Counted_InnerOnly(r, reply) ==
  IF request[r].ahead = <<>> THEN Incremented(total, reply) ELSE total

\* observe_request
Counted(r, reply) == Incremented(total, reply)

\* An answer that carries the key the auth layer put on it gets an entry of
\* the request log, when there is a Redis connection: a task is spawned for
\* it and nobody waits for that task.
Logging(r, reply) == IF request[r].key /\ manager
                     THEN Incremented(pushing, reply) ELSE pushing

Answered(req, reply, failed) ==
  [status |-> reply, route |-> req.route, key |-> req.key, failed |-> failed]

\* An answer made at the request's depth goes up through the layers above:
\* the metrics and the request log.
Ascend(r, req, reply) ==
  /\ answer' = [answer EXCEPT ![r] = Answered(req, reply, req.failed)]
  /\ total' = Counted(r, reply)
  /\ pushing' = Logging(r, reply)
  /\ request' = [request EXCEPT ![r] = NULL]
  /\ UNCHANGED <<received, logged>>

\* One layer passed.
Descend(r, req) ==
  /\ request' = [request EXCEPT ![r] = [req EXCEPT !.ahead = Tail(@)]]
  /\ UNCHANGED <<answer, received, total, pushing, logged>>

\* auth::middleware: the bearer resolves to a key, is refused, or the
\* lookup fails (AuthCache has the detail).
Authenticate(r) ==
  /\ AtLayer(r, "auth")
  /\ \/ Descend(r, [request[r] EXCEPT !.key = TRUE])
     \/ Ascend(r, request[r], IntoResponse("unauthorized"))
     \/ Ascend(r, [request[r] EXCEPT !.failed = TRUE],
               IntoResponse("internal"))
  /\ UNCHANGED decisions

\* session::middleware: the cookie resolves to a session, is refused, or
\* the lookup fails (Sessions has the detail).
ResolveSession(r) ==
  /\ AtLayer(r, "session")
  /\ \/ Descend(r, request[r])
     \/ Ascend(r, request[r], IntoResponse("unauthorized"))
     \/ Ascend(r, [request[r] EXCEPT !.failed = TRUE],
               IntoResponse("internal"))
  /\ UNCHANGED decisions

Observe(outcome) == decisions' = Incremented(decisions, outcome)

\* rate_limit_for: the limiter decides (RateLimiter has the detail)
LimitDecides(r) ==
  /\ manager
  /\ \/ Observe("allowed") /\ Descend(r, request[r])
     \/ Observe("limited")
        /\ Ascend(r, request[r], IntoResponse("rate_limited"))

\* rate_limit_for: no limiter, or the limiter cannot be reached
LimitUnreachable(r) ==
  IF ~manager \/ failOpen
  THEN Observe("fail_open") /\ Descend(r, request[r])
  ELSE /\ Observe("fail_closed")
       /\ Ascend(r, [request[r] EXCEPT !.failed = TRUE],
                 IntoResponse("upstream_unavailable"))

\* rate_limit_for: a request without the key the auth layer attaches is
\* refused, never let through
RateLimit(r) ==
  /\ AtLayer(r, "limit")
  /\ IF request[r].key
     THEN LimitDecides(r) \/ LimitUnreachable(r)
     ELSE /\ Ascend(r, request[r], IntoResponse("internal"))
          /\ UNCHANGED decisions

\* The handler answers, or something it depends on fails.
Handle(r) ==
  /\ AtHandler(r)
  /\ \/ \E reply \in Handles(request[r].route) :
          Ascend(r, request[r], reply)
     \/ \E reply \in FailureReplies(request[r].route) :
          Ascend(r, [request[r] EXCEPT !.failed = TRUE], reply)
  /\ UNCHANGED decisions

\* An answer made outside the metrics layer.
Outside(r, reply) ==
  /\ answer' = [answer EXCEPT ![r] = Answered(request[r], reply, TRUE)]
  /\ request' = [request EXCEPT ![r] = NULL]
  /\ UNCHANGED <<received, total, decisions, pushing, logged>>

\* mutant: the timeout layer added to the handlers only
TimeoutCovers_Handlers(r) == AtHandler(r)

\* The timeout layer sits outside every layer that awaits.
TimeoutCovers(r) == InFlight(r)

\* api_request_timeout_ms passed: the inner future is dropped where it is
Timeout(r) == /\ TimeoutCovers(r)
              /\ Outside(r, TIMEOUT_STATUS)

\* handle_panic: CatchPanic sits outside every other layer
Panic(r) == /\ InFlight(r)
            /\ Outside(r, IntoResponse("internal"))

\* The client went away: the server drops the future, nobody is answered
Disconnect(r) ==
  /\ InFlight(r)
  /\ request' = [request EXCEPT ![r] = NULL]
  /\ UNCHANGED <<answer, received, total, decisions, pushing, logged>>

\* The client has read its answer, or goes away before it has.
TakeAnswer(r) ==
  /\ Sending(r) /\ answer' = [answer EXCEPT ![r] = NULL]
  /\ UNCHANGED <<request, received, total, decisions, pushing, logged>>

\* A detached task ends: Redis took the entry, or the LPUSH failed and its
\* error was dropped (RequestLog has the list itself).
PushEntry(s) ==
  /\ pushing[s] > 0 /\ pushing' = [pushing EXCEPT ![s] = @ - 1]
  /\ logged' \in {logged, Incremented(logged, s)}
  /\ UNCHANGED <<request, answer, received, total, decisions>>

\* What happens to a request once it is received.
Step(r) == \/ Authenticate(r) \/ ResolveSession(r) \/ RateLimit(r)
           \/ Handle(r) \/ Timeout(r) \/ Panic(r) \/ Disconnect(r)

-----------------------------------------------------------------------------
(* Properties                                                              *)

\* Every request is as build_app's layers leave it, and the counters are numbers.
PathTypes ==
  /\ manager \in BOOLEAN /\ failOpen \in BOOLEAN
  /\ request \in [Slots -> Request \union {NULL}]
  /\ answer \in [Slots -> Answer \union {NULL}]
  /\ total \in [Statuses -> Nat]
  /\ pushing \in [Statuses -> Nat]
  /\ logged \in [Statuses -> Nat]
  /\ decisions \in [Outcomes -> Nat]

\* Type invariant of the request path: every request, answer and counter of
\* lib.rs has its shape, and no counter outruns the requests received.
GatewayTypeOK ==
  /\ PathTypes
  /\ received \in 0..MaxRequests
  /\ \A s \in Statuses : total[s] <= received /\ logged[s] <= received
  /\ \A o \in Outcomes : decisions[o] <= received

\* No request for data reaches its handler (build_app's REST and GraphQL
\* routers), and no path of those routers is shown to exist or not to exist,
\* unless the auth layer accepted a key for it.
DataNeedsKey ==
  \A r \in Slots :
    /\ AtHandler(r) /\ request[r].route \in DataRoutes => request[r].key
    /\ Sending(r) /\ answer[r].route \in Rest \union Graphql /\ ~answer[r].key
         => answer[r].status \in {401, 408, 500}

\* The stack answers 500 only when something it depends on failed or a
\* handler panicked: the layers themselves never get in each other's way
\* (the limiter always finds the key the auth layer attached).
InternalMeansFailure ==
  \A r \in Slots : Sending(r) /\ answer[r].status = 500 => answer[r].failed

\* The layers of build_app come in an order that works: data only behind a key,
\* and no 500 that nothing failed for.
AnswersAreEarned == DataNeedsKey /\ InternalMeansFailure

\* The counters kept by three layers agree: a request the limiter counts as
\* limited is a 429 in api_requests_total and nothing else is, a refusal to
\* fail open is a 503, the request log, whose entries are pushed by tasks
\* nobody waits for and may be lost, never holds more than was counted, and a
\* request refused for want of a key is counted but leaves no entry.
CountersAgree ==
  /\ total[429] = decisions["limited"]
  /\ decisions["fail_closed"] <= total[503]
  /\ \A s \in Statuses : logged[s] + pushing[s] <= total[s]
  /\ logged[401] + pushing[401] = 0

\* Inductive: how far a request has come, and that it has its key exactly when
\* the auth layer is behind it.
OnPath(q) ==
  \/ q.ahead = Layers(q.route) /\ ~q.key
  \/ q.ahead = <<"limit">> /\ q.key /\ q.route \in Rest \union Graphql
  \/ q.ahead = <<>> /\ (q.key <=> q.route \in Rest \union Graphql)

PathInv == /\ PathTypes /\ AnswersAreEarned /\ CountersAgree
           /\ \A r \in Slots : InFlight(r) => OnPath(request[r])
=============================================================================
